---------------------------- MODULE Configuration ----------------------------
(***************************************************************************)
(* The configuration of a run (internal/config): the settings and their    *)
(* defaults, the combinations that Validate accepts, the profiles that the *)
(* command words apply, the editing of one setting, the INI file and the   *)
(* command line.                                                           *)
(*                                                                         *)
(* A configuration is a record with one field for each setting of the      *)
(* catalog, named after its key, and four more: the names of the settings  *)
(* that are explicit, the settings file it was read from and the two       *)
(* options that no setting stands for.  "" is an option that is not given, *)
(* as 0 is for watch and connect_port and Unlimited for max_issues.  Texts *)
(* whose syntax Validate checks are "bad" when they do not have it.        *)
(***************************************************************************)
EXTENDS Integers, FiniteSets, Sequences, Functions, SequencesExt

CONSTANTS
    DefaultFile,    \* the settings file of the working directory
    Canonical,      \* path -> the absolute path without symbolic links
    Home,           \* path -> the path it stands for when ~ is expanded
    Inode           \* canonical path of an existing file -> the file itself

Unlimited == -1

-----------------------------------------------------------------------------
(* The settings. *)

\* settingCatalog, section by section.
Catalog == <<
    <<"namespace", "context", "kubeconfig", "timeout", "qps", "burst", "page_size">>,
    <<"mode", "logs", "unused", "events_limit", "restart_threshold", "node_heartbeat_timeout",
      "watch", "workers", "log_signatures_file", "log_signature_lines">>,
    <<"connect", "connect_port", "connect_path">>,
    <<"debug", "image", "profile">>,
    <<"tail", "mask_secrets", "exit_zero", "show_commands", "show_api_requests">>,
    <<"output", "output_file", "save_snapshot", "diff", "baseline", "fail_on", "max_issues">>,
    <<"history", "window", "flap_threshold", "restart_growth", "retain">>,
    <<"webhook_url_env", "webhook_format", "webhook_timeout">> >>

Settings == UNION {ToSet(Catalog[i]) : i \in DOMAIN Catalog}

BooleanSettings ==
    {"logs", "unused", "connect", "debug", "mask_secrets", "exit_zero", "show_commands",
     "show_api_requests"}

\* The least value the parser of a numeric setting takes.
Minimum == [timeout |-> 1, qps |-> 1, burst |-> 1, page_size |-> 1, events_limit |-> 1,
            restart_threshold |-> 0, node_heartbeat_timeout |-> 1, watch |-> 1, workers |-> 1,
            log_signature_lines |-> 1, connect_port |-> 1024, tail |-> 1, max_issues |-> 0,
            window |-> 2, flap_threshold |-> 1, restart_growth |-> 1, retain |-> 1,
            webhook_timeout |-> 1]

Defaults ==
    [namespace |-> "", context |-> "", kubeconfig |-> "", timeout |-> 15, qps |-> 10,
     burst |-> 20, page_size |-> 500, mode |-> "all", logs |-> FALSE, unused |-> FALSE,
     events_limit |-> 20, restart_threshold |-> 5, node_heartbeat_timeout |-> 180,
     watch |-> 0, workers |-> 4, log_signatures_file |-> "", log_signature_lines |-> 200,
     connect |-> FALSE, connect_port |-> 0, connect_path |-> "", debug |-> FALSE,
     image |-> "busybox:1.36", profile |-> "general", tail |-> 30, mask_secrets |-> TRUE,
     exit_zero |-> FALSE, show_commands |-> TRUE, show_api_requests |-> FALSE,
     output |-> "text", output_file |-> "", save_snapshot |-> "", diff |-> "", baseline |-> "",
     fail_on |-> "issue", max_issues |-> Unlimited, history |-> "", window |-> 12,
     flap_threshold |-> 3, restart_growth |-> 3, retain |-> 1000, webhook_url_env |-> "",
     webhook_format |-> "generic", webhook_timeout |-> 5,
     explicit |-> {}, file |-> "", save_cluster_snapshot |-> "", load_cluster_snapshot |-> ""]

-----------------------------------------------------------------------------
(* Validate.  raw is the set of the settings given on the command line. *)

WholeCluster(c) == c.mode \in {"all", "triage"}

Configured(c, raw, names) == names \intersect (c.explicit \union raw) # {}

Ranges(c, raw) ==
    /\ c.namespace # "bad"
    /\ \A n \in {"timeout", "events_limit", "tail", "log_signature_lines", "workers", "burst",
                 "node_heartbeat_timeout", "window", "flap_threshold", "restart_growth",
                 "retain", "webhook_timeout", "page_size", "qps"} : c[n] >= 1
    /\ c.workers <= 16 /\ c.log_signature_lines <= 5000 /\ c.page_size <= 5000
    /\ c.restart_threshold >= 0
    /\ c.watch >= 0 /\ (Configured(c, raw, {"watch"}) => c.watch # 0)
    /\ c.window >= 2 /\ c.flap_threshold < c.window

LocalPorts == 1024..65535

ConnectOptions(c) ==
    /\ c.connect_port = 0 \/ c.connect_port \in LocalPorts
    /\ c.connect_path # "bad"
    /\ c.connect_port # 0 \/ c.connect_path # "" => c.connect
    /\ c.connect => c.mode = "select"

DebugOptions(c, raw) ==
    /\ c.debug => /\ c.mode \in {"all", "select"} /\ c.output = "text" /\ c.watch = 0
                  /\ c.image # "bad" /\ c.profile # "bad"
    /\ Configured(c, raw, {"image", "profile"}) => c.debug

LogOptions(c, raw) ==
    LET logDiagnosis == c.mode = "select" \/ (c.mode = "all" /\ c.logs)
    IN  /\ c.logs \/ c.unused => c.mode = "all"
        /\ c.log_signatures_file # "" \/ Configured(c, raw, {"log_signature_lines", "tail"}) =>
               logDiagnosis

ModeOptions(c, raw) ==
    /\ c.watch > 0 => WholeCluster(c)
    /\ c.mode = "list" => /\ c.baseline = ""
                          /\ ~Configured(c, raw, {"events_limit", "restart_threshold", "exit_zero"})
    /\ Configured(c, raw, {"node_heartbeat_timeout"}) => WholeCluster(c)

StructuredOutput(c, raw) ==
    /\ c.output \in {"text", "json", "sarif", "junit", "mermaid", "dot"}
    /\ c.output # "text" =>
           /\ c.mask_secrets
           /\ ~Configured(c, raw, {"show_commands", "show_api_requests", "tail", "events_limit"})
           /\ WholeCluster(c) /\ c.watch = 0
    /\ c.output_file # "" => c.output # "text"

\* Mutant: files are told apart by the names given.
SameName(c, left, right) == c[left] = c[right]

\* sameConfiguredPath; only the path of the history expands ~.
SamePath(c, left, right) ==
    LET path(option) == Canonical[IF option = "history" THEN Home[c[option]] ELSE c[option]]
    IN  \/ path(left) = path(right)
        \/ /\ {path(left), path(right)} \subseteq DOMAIN Inode
           /\ Inode[path(left)] = Inode[path(right)]

Outputs == {"output_file", "save_snapshot", "save_cluster_snapshot", "history"}
Inputs == {"file", "diff", "load_cluster_snapshot", "baseline", "log_signatures_file", "kubeconfig"}

\* validateDistinctOutputPaths.
DistinctPaths(c) ==
    \A left \in Outputs, right \in Outputs \union Inputs :
        left # right /\ c[left] # "" /\ c[right] # "" => ~SamePath(c, left, right)

Documents(c) ==
    c.save_snapshot # "" \/ c.diff # "" => WholeCluster(c) /\ c.watch = 0

\* Mutant: a saved cluster state replaces the cluster and nothing else.
ReplayLikeAnyRun(c, raw) ==
    /\ c.save_cluster_snapshot = "" \/ c.load_cluster_snapshot = ""
    /\ c.save_cluster_snapshot # "" \/ c.load_cluster_snapshot # "" => c.mode # "list"
    /\ c.load_cluster_snapshot # "" => c.watch = 0

\* A replay has no cluster to reach and is no news.
ClusterSnapshots(c, raw) ==
    /\ c.save_cluster_snapshot = "" \/ c.load_cluster_snapshot = ""
    /\ c.save_cluster_snapshot # "" \/ c.load_cluster_snapshot # "" => c.mode # "list"
    /\ c.load_cluster_snapshot # "" =>
           /\ c.watch = 0 /\ ~c.connect /\ ~c.debug /\ ~c.logs
           /\ c.history = "" /\ c.webhook_url_env = ""
           /\ ~(Configured(c, raw, {"show_api_requests"}) /\ c.show_api_requests)

FailPolicy(c, raw) ==
    LET given == Configured(c, raw, {"fail_on", "max_issues"})
    IN  /\ c.fail_on \in {"issue", "warning", "unavailable", "any", "none"}
        /\ given => WholeCluster(c) /\ ~c.exit_zero
        /\ c.fail_on = "none" => c.max_issues = Unlimited
        /\ c.watch > 0 => ~c.exit_zero /\ ~given

HistoryOptions(c, raw) ==
    /\ c.history # "" => WholeCluster(c)
    /\ Configured(c, raw, {"window", "flap_threshold", "restart_growth"}) =>
           c.history # "" \/ c.watch > 0
    /\ Configured(c, raw, {"retain"}) => c.history # ""

WebhookOptions(c, raw) ==
    /\ c.webhook_url_env # "" =>
           c.webhook_url_env # "bad" /\ (c.diff # "" \/ c.history # "" \/ c.watch > 0)
    /\ Configured(c, raw, {"webhook_format", "webhook_timeout"}) => c.webhook_url_env # ""
    /\ c.webhook_format \in {"generic", "slack"}

Validate(c, raw) ==
    /\ Ranges(c, raw)
    /\ ConnectOptions(c)
    /\ DebugOptions(c, raw)
    /\ LogOptions(c, raw)
    /\ ModeOptions(c, raw)
    /\ StructuredOutput(c, raw)
    /\ DistinctPaths(c)
    /\ Documents(c)
    /\ ClusterSnapshots(c, raw)
    /\ FailPolicy(c, raw)
    /\ HistoryOptions(c, raw)
    /\ WebhookOptions(c, raw)

-----------------------------------------------------------------------------
(* The profiles of the command words. *)

ModeOf == [quick |-> "triage", ci |-> "triage", triage |-> "triage", deep |-> "all",
           all |-> "all", pod |-> "select", list |-> "list"]

\* Values put back to their defaults, and settings that are explicit no longer.
Reset(c, values, cleared) ==
    [n \in DOMAIN c |->
        IF n = "explicit" THEN c.explicit \ cleared
        ELSE IF n \in values THEN Defaults[n] ELSE c[n]]

Connection == {"connect", "connect_port", "connect_path"}
Debugging == {"debug", "image", "profile"}
LogSettings == {"log_signatures_file", "log_signature_lines", "tail"}
HistoryTuning == {"window", "flap_threshold", "restart_growth", "retain"}
WebhookTuning == {"webhook_format", "webhook_timeout"}
FullRunOnly == {"logs", "unused", "watch", "output", "output_file", "save_snapshot", "diff",
                "history", "webhook_url_env", "fail_on", "max_issues"}
ListHasNone == {"events_limit", "restart_threshold", "baseline", "exit_zero"}

\* Mutant: switching to one Pod keeps the tuning of the whole cluster explicit.
PrepareModeLoosely(c, mode) ==
    LET m == [Reset(c, {}, {"mode"}) EXCEPT !.mode = mode]
        reset(names) == Reset(m, names, names)
    IN  CASE mode = "all" -> reset(Connection \union (IF c.logs THEN {} ELSE LogSettings))
          [] mode = "select" -> reset(FullRunOnly)
          [] mode = "list" ->
                 reset(FullRunOnly \union ListHasNone \union Connection \union Debugging \union LogSettings)
          [] mode = "triage" -> reset({"logs", "unused"} \union Connection \union Debugging \union LogSettings)

\* The tuning that a mode has no use for stops being explicit but keeps its value.
PrepareMode(c, mode) ==
    LET m == [Reset(c, {}, {"mode"}) EXCEPT !.mode = mode]
        reset(names) == Reset(m, names, names)
        unused == {"node_heartbeat_timeout"} \union HistoryTuning \union WebhookTuning
    IN  CASE mode = "all" -> reset(Connection \union (IF c.logs THEN {} ELSE LogSettings))
          [] mode = "select" -> Reset(reset(FullRunOnly), {}, unused)
          [] mode = "list" ->
                 Reset(reset(FullRunOnly \union ListHasNone \union Connection \union Debugging
                                \union LogSettings), {}, unused)
          [] mode = "triage" ->
                 reset({"logs", "unused"} \union Connection \union Debugging \union LogSettings)

\* clearOneShotAutomation.
OneShot(c) ==
    LET names == {"watch", "save_snapshot", "diff", "history", "webhook_url_env"}
    IN  Reset(c, names, names \union HistoryTuning \union WebhookTuning)

\* applyCommandProfile; quick and ci write text and JSON.
Profile(c, command) ==
    LET deep == command = "deep"
        m == PrepareMode([c EXCEPT !.logs = @ \/ deep], ModeOf[command])
        report == {"output", "output_file"}
        plain == report \union {"mask_secrets", "show_commands", "show_api_requests", "exit_zero",
                                "fail_on", "max_issues"}
    IN  CASE command = "quick" -> [Reset(OneShot(m), plain, plain) EXCEPT !.show_commands = FALSE]
          [] command = "ci" ->
                 [Reset(OneShot(m), plain, plain \union {"events_limit"}) EXCEPT
                     !.show_commands = FALSE, !.output = "json"]
          [] deep -> [Reset(OneShot(m), report, report \union {"logs", "unused"}) EXCEPT
                         !.logs = TRUE, !.unused = TRUE]
          [] OTHER -> m

-----------------------------------------------------------------------------
(* Editing one setting. *)

\* inheritLegacyAPIRequestSetting.
InheritLegacy(c) ==
    IF "show_commands" \in c.explicit /\ ~c.show_commands /\ "show_api_requests" \notin c.explicit
    THEN [c EXCEPT !.show_api_requests = FALSE] ELSE c

\* applySetting: what the parser of the setting takes.
Parses(name, value) ==
    CASE name \in DOMAIN Minimum -> value \in Int /\ value >= Minimum[name]
      [] name = "mode" -> value \in {"all", "select", "list", "triage"}
      [] OTHER -> TRUE

\* Mutant: the value is set but not marked as one to write.
WithUnmarked(c, name, value) == InheritLegacy([c EXCEPT ![name] = value])

\* Config.WithSetting and Config.WithoutSetting, before they validate.
With(c, name, value) ==
    InheritLegacy([c EXCEPT ![name] = value, !.explicit = @ \union {name}])

Without(c, name) ==
    LET default == Reset(c, {name}, {name})
    IN  InheritLegacy(IF name = "show_commands" /\ "show_api_requests" \notin default.explicit
                      THEN [default EXCEPT !.show_api_requests = FALSE] ELSE default)

-----------------------------------------------------------------------------
(* The settings file and the command line. *)

\* RenderINI: only the explicit settings have a value in the file.
Render(c) == [n \in c.explicit |-> c[n]]

\* LoadINI: the settings of the file over those of the configuration.
LoadINI(values, c) ==
    InheritLegacy([n \in DOMAIN c |->
        IF n = "explicit" THEN c.explicit \union DOMAIN values
        ELSE IF n \in DOMAIN values THEN values[n] ELSE c[n]])

\* The configuration the next start makes of a settings file.
Loaded(values, path) == [LoadINI(values, Defaults) EXCEPT !.file = path]

\* Flags replace values; --cmd and --no-cmd used to stand for the API trace too.
WithFlags(c, flags) ==
    LET overlaid == [n \in DOMAIN c |-> IF n \in DOMAIN flags THEN flags[n] ELSE c[n]]
    IN  IF "show_commands" \in DOMAIN flags /\ ~overlaid.show_commands
               /\ "show_api_requests" \notin DOMAIN flags \union c.explicit
        THEN [overlaid EXCEPT !.show_api_requests = FALSE] ELSE overlaid

\* Options that exclude each other, a command word next to a mode, and a settings
\* file that is named but is not there.
Contradicts(line, ini) ==
    \/ line.opposites
    \/ "mode" \in DOMAIN line.flags /\ line.command \in DOMAIN ModeOf
    \/ line.command = "config" /\ DOMAIN line.flags # {}
    \/ line.config # "" /\ line.no_config
    \/ line.config # "" /\ line.command # "config" /\ ~ini.exists

SettingsFile(line) == IF line.config # "" THEN line.config ELSE DefaultFile

\* Parse, once the options have been recognised: the settings file, then the
\* profile of the command word, then the flags.
Parsed(line, ini) ==
    LET values == IF ini.exists THEN ini.values ELSE <<>>
        base == IF line.no_config \/ (line.config = "" /\ ~ini.exists) THEN Defaults
                ELSE Loaded(values, SettingsFile(line))
        profiled == IF line.command \in DOMAIN ModeOf THEN Profile(base, line.command) ELSE base
    IN  WithFlags(profiled, line.flags)

Accepted(line, ini) ==
    /\ ~Contradicts(line, ini)
    /\ Validate(Parsed(line, ini), DOMAIN line.flags \intersect Settings)
=============================================================================
