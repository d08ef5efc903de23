------------------------------- MODULE Session -------------------------------
(***************************************************************************)
(* One start of the program (main.go, internal/app/app.go Run, debug.go):  *)
(* the command line and the settings file become a configuration, on the   *)
(* screens of the guide when there are no arguments; its inputs are        *)
(* loaded; a saved cluster state is replayed or the cluster is read; a Pod *)
(* is chosen, diagnosed and debugged; files are written; and a status is   *)
(* returned.  Pods come and go in the meantime, the input may end and the  *)
(* process may be interrupted.                                             *)
(*                                                                         *)
(* What a diagnosis finds is Diagnosis, what a watch does is Runner and    *)
(* what the connection checks do is PortForward.                           *)
(***************************************************************************)
EXTENDS Guide, PodScreen

CONSTANTS
    Starts,         \* the command lines, each with the settings file it meets and
                    \* whether input and output are a terminal
    SavedStates,    \* path -> the envelope of the cluster state saved there
    InNamespace,    \* namespace, or "" for all -> its Pods
    Entry,          \* path -> the directory entry that a rename onto it replaces
    Restless,       \* bound: the Pods that come and go
    MaxChanges      \* bound: the changes of the chosen Pod during one start

ASSUME SessionAssumption ==
    /\ MaxChanges \in Nat
    /\ Restless \subseteq Pods
    /\ InNamespace[""] = Pods

\* Two names of one directory entry, and an entry and a link to it, lead to one
\* file.
ASSUME EntryAssumption ==
    \A p, q \in DOMAIN Entry :
        Entry[p] \in {Entry[q], Canonical[q]} => Canonical[p] = Canonical[q]

\* A name of the file system, when the option has one; only the path of the
\* history expands ~.
Known(option, path) ==
    path # "" => (IF option = "history" THEN Home[path] ELSE path) \in DOMAIN Entry

\* The options of a command line and the settings of a file that could be parsed.
ASSUME StartAssumption ==
    \A start \in Starts :
        /\ start.terminal \in BOOLEAN
        /\ DOMAIN start.line.flags \subseteq DOMAIN Defaults \ {"explicit", "file"}
        /\ DOMAIN start.ini.values \subseteq Settings
        /\ \A name \in DOMAIN start.ini.values :
               /\ Parses(name, start.ini.values[name])
               /\ name \in BooleanSettings => start.ini.values[name] \in BOOLEAN

\* Every file that is named has a name of the file system.
ASSUME PathAssumption ==
    /\ DefaultFile \in DOMAIN Entry
    /\ \A path \in DOMAIN Entry : Canonical[path] \in DOMAIN Entry
    /\ \A option \in (Outputs \union Inputs) \intersect Settings :
           \A path \in Entries[option] : Known(option, path)
    /\ \A start \in Starts :
           /\ Known("file", start.line.config)
           /\ \A option \in (Outputs \union Inputs) \intersect DOMAIN start.line.flags :
                  Known(option, start.line.flags[option])
           /\ \A option \in (Outputs \union Inputs) \intersect DOMAIN start.ini.values :
                  Known(option, start.ini.values[option])

ASSUME SavedAssumption == \A path \in DOMAIN SavedStates : SavedStates[path].cluster \in [Pods -> Nat]

VARIABLES
    line,           \* the command line
    terminal,       \* input and output are a terminal
    config,         \* the configuration of the run
    phase,          \* where main and Run stand
    cluster,        \* Pod -> [uid, running]; uid 0 when there is no such Pod
    changes,        \* the changes of the cluster so far
    snapshot,       \* Pod -> the uid it had when the Pods were last read
    target,         \* the Pod chosen on screen: [pod, uid]
    diagnosed,      \* the uid of the Pod that was diagnosed alone, or 0
    debugging,      \* the way chosen, "" before; whether the Pod was running
    replaced,       \* the Pod changed after the last look before kubectl debug
    debugged,       \* the uid of the Pod kubectl debug was started on, or 0
    calls,          \* what was asked of the world outside
    written,        \* the outputs written
    failing,        \* the findings fail the run
    interrupted,    \* the context is cancelled
    exit            \* the exit status, Running before

clusterVars == <<cluster, changes>>
debugVars == <<diagnosed, debugging, replaced, debugged>>
outerVars == <<calls, written, failing>>
vars == <<guideVars, screenVars, line, terminal, config, phase, clusterVars, snapshot, target,
          debugVars, outerVars, interrupted, exit>>

\* What stays as it is while Run works on something else.
world == <<guideVars, line, terminal, config, clusterVars, interrupted>>
choice == <<screenVars, snapshot, target>>

Running == 256

NoPod == [pod |-> 0, uid |-> 0]

\* interruptedExitCode.
Exit(code) ==
    /\ exit' = IF ~interrupted THEN code ELSE IF config.watch > 0 THEN 0 ELSE 130
    /\ phase' = "over"

GoTo(next) == phase' = next /\ UNCHANGED exit

Calling(call) == calls' = calls \union {call}

-----------------------------------------------------------------------------
(* main. *)

Interactive ==
    /\ terminal
    /\ line.command = "" /\ DOMAIN line.flags = {}
    /\ line.config = "" /\ ~line.no_config

Screened == line.command = "config" \/ Interactive

\* The guide, or the editor of the config command.
FirstScreen(c) ==
    /\ base' = c /\ candidate' = c
    /\ screen' = IF Interactive THEN "root" ELSE "sections"
    /\ profile' = IF Interactive THEN "" ELSE "config"

\* An error of the command line, --help and --version, the config command, which
\* needs a terminal, the guide, or a run.
Start ==
    /\ phase = "start"
    /\ \/ /\ IF line.information THEN Contradicts(line, ini)
             ELSE ~Accepted(line, ini) \/ (line.command = "config" /\ ~terminal)
          /\ Exit(1)
          /\ UNCHANGED <<base, candidate, screen, profile, config>>
       \/ /\ line.information /\ ~Contradicts(line, ini)
          /\ Exit(0)
          /\ UNCHANGED <<base, candidate, screen, profile, config>>
       \/ /\ ~line.information /\ Accepted(line, ini) /\ Screened /\ terminal
          /\ FirstScreen(Parsed(line, ini)) /\ GoTo("guide")
          /\ UNCHANGED config
       \/ /\ ~line.information /\ Accepted(line, ini) /\ ~Screened
          /\ config' = Parsed(line, ini) /\ GoTo("load")
          /\ UNCHANGED <<base, candidate, screen, profile>>
    /\ UNCHANGED <<ini, toggles, details, at, resumed, section, editing, saves, unconfirmed, input, choice,
                   line, terminal, clusterVars, debugVars, outerVars, interrupted>>

Screens ==
    /\ phase = "guide" /\ screen \notin Ends
    /\ Answer
    /\ UNCHANGED <<choice, line, terminal, config, phase, clusterVars, debugVars, outerVars,
                   interrupted, exit>>

NoGuide ==
    /\ base' = Defaults /\ candidate' = Defaults /\ screen' = "closed" /\ profile' = ""
    /\ toggles' = {} /\ details' = <<>> /\ at' = 0 /\ resumed' = FALSE
    /\ section' = 1 /\ editing' = "" /\ saves' = 0 /\ unconfirmed' = <<>>

\* The guide only makes a configuration; q ends the program with 0.
LeaveGuide ==
    /\ phase = "guide" /\ screen \in Ends
    /\ IF screen = "run" THEN config' = candidate /\ GoTo("load")
       ELSE /\ Exit(CASE screen = "interrupted" -> 130 [] screen = "failed" -> 1 [] OTHER -> 0)
            /\ UNCHANGED config
    /\ NoGuide
    /\ UNCHANGED <<ini, input, choice, line, terminal, clusterVars, debugVars, outerVars,
                   interrupted>>

\* A terminal that can be neither read nor written ends the guide and the editor
\* with an error.
GuideFails ==
    /\ phase = "guide" /\ screen \notin Ends
    /\ Exit(1)
    /\ NoGuide
    /\ UNCHANGED <<ini, input, choice, line, terminal, config, clusterVars, debugVars, outerVars,
                   interrupted>>

-----------------------------------------------------------------------------
(* Run: what is loaded before anything is diagnosed. *)

\* enforceInteractiveMaskPolicy; then the baseline, the document to compare with,
\* the history, whose file may not be a symbolic link, the webhook's address and
\* the log signatures, any of which may be unreadable.
Load ==
    /\ phase = "load"
    /\ \/ /\ config.mask_secrets \/ terminal
          /\ config.history # "" =>
                 Entry[Home[config.history]] = Canonical[Home[config.history]]
          /\ GoTo("connect")
       \/ /\ \/ ~config.mask_secrets /\ ~terminal
             \/ \E slot \in {"baseline", "diff", "history", "webhook_url_env",
                             "log_signatures_file"} : config[slot] # ""
          /\ Exit(1)
    /\ UNCHANGED <<world, choice, debugVars, outerVars>>

Replaying == config.load_cluster_snapshot # ""

Saved == SavedStates[config.load_cluster_snapshot]

\* Mutant: an envelope is good for every run of its mode.
SameMode(envelope, c) == envelope.mode # "" /\ envelope.mode = c.mode

\* ValidateReplayScope: another namespace, mode or option set is another view.
SameScope(envelope, c) ==
    /\ envelope.mode # ""
    /\ envelope.namespace = c.namespace
    /\ envelope.mode = c.mode
    /\ envelope.unused = c.unused

\* A replay builds no client and makes no preflight.
Replay ==
    /\ phase = "connect" /\ Replaying
    /\ IF config.load_cluster_snapshot \in DOMAIN SavedStates /\ SameScope(Saved, config)
       THEN GoTo("first") ELSE Exit(1)
    /\ UNCHANGED <<world, choice, debugVars, outerVars>>

\* NewClients and Preflight.
Connect ==
    /\ phase = "connect" /\ ~Replaying
    /\ Calling("preflight")
    /\ \/ ~interrupted /\ GoTo("first")
       \/ Exit(1)
    /\ UNCHANGED <<world, choice, debugVars, written, failing>>

-----------------------------------------------------------------------------
(* Run.once. *)

Collected ==
    [p \in Pods |-> IF p \in InNamespace[config.namespace] THEN cluster[p].uid ELSE 0]

\* What the run that saved the state had collected.
SavedPods == [p \in Pods |-> IF p \in InNamespace[Saved.namespace] THEN Saved.cluster[p] ELSE 0]

\* snapshotForKeys: the replayed state, or a collection; nothing can be collected
\* for a cancelled context.
Read ==
    /\ snapshot' = IF Replaying THEN SavedPods ELSE Collected
    /\ calls' = IF Replaying THEN calls ELSE calls \union {"list"}

Readable == Replaying \/ ~interrupted

\* What the loop of a watch does is Runner's; the interruption ends it, and so
\* does what cannot be read or written.
Watch ==
    /\ phase = "first" /\ config.watch > 0
    /\ IF interrupted THEN Exit(0) ELSE (GoTo("first") \/ Exit(1))
    /\ Calling("list")
    /\ written' = written \union {o \in {"save_cluster_snapshot", "history"} : config[o] # ""}
    /\ UNCHANGED <<world, choice, debugVars, failing>>

\* list always collects.
List ==
    /\ phase = "first" /\ config.mode = "list"
    /\ Calling("list")
    /\ \/ ~interrupted /\ Exit(0)
       \/ Exit(1)
    /\ UNCHANGED <<world, choice, debugVars, written, failing>>

\* promptPod over the Pods that were read.
OpenScreen(uids) ==
    /\ listed' = {p \in Pods : uids[p] # 0}
    /\ fixed' = (config.namespace # "")
    /\ prompt' = "keys" /\ both' = FALSE
    /\ namespaceQuery' = "" /\ nameQuery' = "" /\ selected' = 0 /\ notice' = FALSE

SelectPod ==
    /\ phase = "first" /\ config.mode = "select"
    /\ Read
    /\ \/ Readable /\ OpenScreen(snapshot') /\ GoTo("screen")
       \/ Exit(1) /\ UNCHANGED screenVars
    /\ UNCHANGED <<world, target, debugVars, written, failing>>

Saving(outputs) == written' = written \union {o \in outputs : config[o] # ""}

\* fail_on none takes no finding for a failure.
Verdict == failing' \in (IF config.fail_on = "none" THEN {FALSE} ELSE BOOLEAN)

\* diagnose: the cluster state is saved before anything is evaluated.  The text
\* report needs no cancellation check of its own.
Diagnose ==
    /\ phase = "first" /\ config.mode \in {"all", "triage"} /\ config.watch = 0
    /\ Read
    /\ \/ Exit(1) /\ UNCHANGED <<written, failing>>
       \/ /\ Saving({"save_cluster_snapshot"})
          /\ Verdict
          /\ IF interrupted THEN Exit(0) ELSE GoTo("report")
    /\ UNCHANGED <<world, screenVars, target, debugVars>>

\* prepare and finish: the history first, then the documents, then the webhook.
\* Any of them may fail after the ones before it.
ReportOrder ==
    <<{}, {"history"}, {"history", "save_snapshot"}, {"history", "save_snapshot", "output_file"}>>

Report ==
    /\ phase = "report"
    /\ \/ /\ \E i \in DOMAIN ReportOrder : Saving(ReportOrder[i])
          /\ Exit(1)
          /\ UNCHANGED <<calls, screenVars>>
       \/ /\ Saving(ReportOrder[Len(ReportOrder)])
          /\ calls' = calls \union (IF config.webhook_url_env # "" THEN {"webhook"} ELSE {})
          /\ IF config.debug THEN OpenScreen(snapshot) /\ GoTo("screen")
             ELSE GoTo("verdict") /\ UNCHANGED screenVars
    /\ UNCHANGED <<world, snapshot, target, debugVars, failing>>

-----------------------------------------------------------------------------
(* The Pod screen, and the diagnosis of the Pod chosen. *)

PodKeys ==
    /\ phase = "screen"
    /\ (Typing /\ input = "open") \/ LeaveSearch \/ LeaveList(input = "open")
    /\ UNCHANGED <<guideVars, line, terminal, config, phase, clusterVars, snapshot, target,
                   debugVars, outerVars, interrupted, exit>>

CloseScreen ==
    /\ listed' = {} /\ fixed' = FALSE /\ prompt' = "closed" /\ both' = FALSE
    /\ namespaceQuery' = "" /\ nameQuery' = "" /\ selected' = 0 /\ notice' = FALSE

\* The Pod goes on with the uid it had when the screen was opened.  Ctrl-C is 130
\* at once; q ends the selection, and before a debug the run goes on.
LeaveScreen ==
    /\ phase = "screen"
    /\ \/ /\ prompt = "chosen"
          /\ target' = [pod |-> Chosen, uid |-> snapshot[Chosen]]
          /\ GoTo(IF config.mode = "select" THEN "resolve" ELSE "refresh")
       \/ /\ prompt = "left"
          /\ IF config.mode = "select" THEN Exit(0) ELSE GoTo("verdict")
          /\ UNCHANGED target
       \/ prompt = "broken" /\ Exit(130) /\ UNCHANGED target
    /\ CloseScreen
    /\ UNCHANGED <<world, snapshot, debugVars, outerVars>>

\* A terminal that can be neither read nor written ends the selection, and the
\* run, with an error.
ScreenFails ==
    /\ phase = "screen" /\ prompt \notin {"chosen", "left", "broken"}
    /\ Exit(1)
    /\ CloseScreen
    /\ UNCHANGED <<world, snapshot, target, debugVars, outerVars>>

\* diagnose and resolveSelectedPod: the cluster is read again, and a Pod of the
\* same name with another uid is not the one that was chosen.
Resolve ==
    /\ phase = "resolve"
    /\ Read
    /\ \/ /\ (Saving({"save_cluster_snapshot"}) \/ UNCHANGED written)
          /\ Exit(1)
          /\ UNCHANGED <<diagnosed, failing>>
       \/ /\ Readable
          /\ Saving({"save_cluster_snapshot"})
          /\ IF snapshot'[target.pod] = target.uid
             THEN /\ diagnosed' = snapshot'[target.pod]
                  /\ failing' \in BOOLEAN
                  /\ IF interrupted THEN Exit(0)
                     ELSE GoTo(IF config.connect THEN "forward"
                               ELSE IF config.debug THEN "refresh" ELSE "verdict")
             ELSE Exit(1) /\ UNCHANGED <<diagnosed, failing>>
    /\ UNCHANGED <<world, screenVars, target, debugging, replaced, debugged>>

\* runConnect and probeManually, whose findings count too.
Forward ==
    /\ phase = "forward"
    /\ \/ Calling("port-forward") /\ failing' \in {failing, TRUE}
       \/ UNCHANGED <<calls, failing>>
    /\ \/ GoTo(IF config.debug THEN "refresh" ELSE "verdict")
       \/ Exit(1)
    /\ UNCHANGED <<world, choice, debugVars, written>>

-----------------------------------------------------------------------------
(* debugPod. *)

\* Mutant: the Pod is looked up by its name alone.
StillThere(pod) == cluster[pod.pod].uid # 0

\* refreshPodTarget.
StillTheSame(pod) == cluster[pod.pod].uid = pod.uid

\* The Pod as it is now; kubectl must be there and know debug.
Refresh ==
    /\ phase = "refresh"
    /\ Calling("get")
    /\ \/ /\ ~interrupted /\ StillTheSame(target)
          /\ debugging' = [debugging EXCEPT !.running = cluster[target.pod].running]
          /\ GoTo("menu")
       \/ Exit(1) /\ UNCHANGED debugging
    /\ UNCHANGED <<world, choice, diagnosed, replaced, debugged, written, failing>>

\* An ephemeral container for a running Pod or a copy, if auth can-i allows it;
\* an empty answer, which is what the end of the input is, and 3 are none.
ChooseWay ==
    /\ phase = "menu"
    /\ \/ GoTo("verdict") /\ UNCHANGED debugging
       \/ input = "open" /\ Exit(1) /\ UNCHANGED debugging
       \/ /\ input = "open" /\ ~interrupted
          /\ \E way \in {"container", "copy"} :
                 /\ way = "container" => debugging.running
                 /\ debugging' = [debugging EXCEPT !.way = way]
          /\ GoTo("confirm")
    /\ UNCHANGED <<world, choice, diagnosed, replaced, debugged, outerVars>>

\* Only YES goes on.
ConfirmDebug ==
    /\ phase = "confirm"
    /\ GoTo("verdict") \/ (input = "open" /\ GoTo("recheck"))
    /\ UNCHANGED <<world, choice, debugVars, outerVars>>

\* After the confirmation the Pod is looked at once more.
Recheck ==
    /\ phase = "recheck"
    /\ Calling("get")
    /\ \/ /\ ~interrupted /\ StillTheSame(target)
          /\ debugging.way = "container" => cluster[target.pod].running
          /\ replaced' = FALSE
          /\ GoTo("launch")
       \/ Exit(1) /\ UNCHANGED replaced
    /\ UNCHANGED <<world, choice, diagnosed, debugging, debugged, written, failing>>

\* kubectl debug takes the name of the Pod.
Launch ==
    /\ phase = "launch"
    /\ \/ ~interrupted /\ Calling("kubectl debug") /\ debugged' = cluster[target.pod].uid
       \/ interrupted /\ UNCHANGED <<calls, debugged>>
    /\ \/ ~interrupted /\ debugged' # 0 /\ GoTo("verdict")
       \/ Exit(1)
    /\ UNCHANGED <<world, choice, diagnosed, debugging, replaced, written, failing>>

Finish ==
    /\ phase = "verdict"
    /\ Exit(IF config.exit_zero \/ ~failing THEN 0 ELSE 1)
    /\ UNCHANGED <<world, choice, debugVars, outerVars>>

-----------------------------------------------------------------------------
(* The world around the program. *)

\* A Pod is recreated under its name, goes away or stops.  Nobody looks at the
\* cluster while the screen is open or a report is written: what happens then is
\* as if it happened after.
Change(p) ==
    /\ phase \in {"resolve", "forward", "refresh", "menu", "confirm", "recheck", "launch"}
    /\ p = target.pod
    /\ p \in Restless
    /\ changes < MaxChanges
    /\ \/ cluster' = [cluster EXCEPT ![p] = [uid |-> changes + 2, running |-> TRUE]]
       \/ cluster[p].uid # 0 /\ cluster' = [cluster EXCEPT ![p] = [uid |-> 0, running |-> FALSE]]
       \/ cluster[p].running /\ cluster' = [cluster EXCEPT ![p].running = FALSE]
    /\ changes' = changes + 1
    /\ replaced' = (replaced \/ phase = "launch")
    /\ UNCHANGED <<guideVars, choice, line, terminal, config, phase, diagnosed, debugging, debugged,
                   outerVars, interrupted, exit>>

\* The context is there once Run has been called.
Signal ==
    /\ phase \notin {"start", "guide", "over"}
    /\ ~interrupted /\ interrupted' = TRUE
    /\ UNCHANGED <<guideVars, choice, line, terminal, config, phase, clusterVars, debugVars,
                   outerVars, exit>>

\* The end of the input is seen where input is read.
InputEnds ==
    /\ phase \in {"guide", "screen", "menu", "confirm"}
    /\ EndOfInput
    /\ UNCHANGED <<choice, line, terminal, config, phase, clusterVars, debugVars, outerVars,
                   interrupted, exit>>

Over == phase = "over" /\ UNCHANGED vars

-----------------------------------------------------------------------------
Init ==
    /\ \E start \in Starts : line = start.line /\ ini = start.ini /\ terminal = start.terminal
    /\ base = Defaults /\ candidate = Defaults /\ config = Defaults
    /\ screen = "closed" /\ profile = "" /\ toggles = {} /\ details = <<>> /\ at = 0
    /\ resumed = FALSE /\ section = 1 /\ editing = "" /\ saves = 0 /\ unconfirmed = <<>>
    /\ input = "open"
    /\ listed = {} /\ fixed = FALSE /\ prompt = "closed" /\ both = FALSE
    /\ namespaceQuery = "" /\ nameQuery = "" /\ selected = 0 /\ notice = FALSE
    /\ phase = "start"
    /\ cluster = [p \in Pods |-> [uid |-> 1, running |-> TRUE]] /\ changes = 0
    /\ snapshot = [p \in Pods |-> 0] /\ target = NoPod
    /\ diagnosed = 0 /\ debugging = [way |-> "", running |-> FALSE]
    /\ replaced = FALSE /\ debugged = 0
    /\ calls = {} /\ written = {} /\ failing = FALSE
    /\ interrupted = FALSE /\ exit = Running

\* The steps of the program; those of the screens answer a key of the operator.
Program ==
    \/ Start \/ LeaveGuide \/ Load \/ Replay \/ Connect
    \/ Watch \/ List \/ SelectPod \/ Diagnose \/ Report
    \/ LeaveScreen \/ Resolve \/ Forward \/ Refresh \/ ChooseWay \/ ConfirmDebug \/ Recheck
    \/ Launch \/ Finish

Environment == (\E p \in Pods : Change(p)) \/ Signal \/ InputEnds

Next == Program \/ Screens \/ PodKeys \/ GuideFails \/ ScreenFails \/ Environment \/ Over

Spec == Init /\ [][Next]_vars

\* The program goes on by itself except where it reads its operator's input, and
\* there it goes on when the input has ended.
Reading == phase \in {"guide", "screen", "menu", "confirm"} /\ input = "open"

FairSpec ==
    /\ Spec
    /\ WF_vars(~Reading /\ Program)
    /\ WF_vars(~Reading /\ Screens)
    /\ WF_vars(~Reading /\ PodKeys)

-----------------------------------------------------------------------------
(* Properties. *)

Phases ==
    {"start", "guide", "load", "connect", "first", "screen", "resolve", "forward", "report",
     "refresh", "menu", "confirm", "recheck", "launch", "verdict", "over"}

\* The files of the run have names of the file system.
PathsKnown == \A option \in Outputs \union Inputs : Known(option, config[option])

\* The type of every variable; the highlighted line is never negative, and the
\* configurations are records of all the settings, whose paths are known.
TypeOK ==
    /\ ScreenTypeOK
    /\ line \in {start.line : start \in Starts} /\ terminal \in BOOLEAN /\ phase \in Phases
    /\ \A c \in {config, base, candidate} :
           DOMAIN c = DOMAIN Defaults /\ c.explicit \subseteq Settings
    /\ PathsKnown
    /\ screen \in Menus \union Prompts \union Ends /\ input \in {"open", "ended"}
    /\ toggles \subseteq Settings /\ at \in 0..Len(details) /\ section \in DOMAIN Catalog
    /\ saves \in 0..MaxSaves /\ changes \in 0..MaxChanges
    /\ snapshot \in [Pods -> Nat] /\ target.pod \in Pods \union {0}
    /\ cluster \in [Pods -> [uid : Nat, running : BOOLEAN]]
    /\ written \subseteq Outputs /\ exit \in {0, 1, 130, Running}
    /\ (phase = "over") = (exit # Running)

\* A replayed cluster state stands for the cluster altogether: whatever the rest
\* of the configuration asks for, nothing is asked of a cluster, of kubectl or of
\* a webhook, and the history learns nothing (app.go Run and snapshotForKeys).
ReplayStaysOffline ==
    Replaying => calls = {} /\ debugged = 0 /\ "history" \notin written

\* A replay shows the Pods that the run itself would have seen when the state was
\* saved, neither those of another namespace nor a part of them, and is made in
\* the mode whose resources were collected (persist.go ValidateReplayScope).
ReplayShowsTheRunThatSavedIt ==
    Replaying /\ snapshot # [p \in Pods |-> 0] =>
        /\ snapshot = [p \in Pods |-> IF p \in InNamespace[config.namespace]
                                      THEN Saved.cluster[p] ELSE 0]
        /\ Saved.mode = config.mode

\* A file the run writes is none of the files it reads and none of the other files
\* it writes, under whatever names: a rename takes the place of a directory entry,
\* and the history is written in place (config.go validateDistinctOutputPaths).
InputsSurvive ==
    LET path(option) == IF option = "history" THEN Home[config[option]] ELSE config[option]
    IN  \A output \in written, other \in Outputs \union Inputs :
            other # output /\ config[other] # "" =>
                IF output = "history"
                THEN /\ Canonical[path(other)] # Canonical[path(output)]
                     /\ Canonical[path(output)] \in DOMAIN Inode =>
                            \A p \in DOMAIN Inode :
                                p = Canonical[path(other)] => Inode[p] # Inode[Canonical[path(output)]]
                ELSE Entry[path(output)] \notin {Entry[path(other)], Canonical[path(other)]}

\* The Pod that is diagnosed, and the Pod that kubectl debug changes, is the very
\* Pod that was chosen on screen and not another of its name; only a Pod recreated
\* after the last look before kubectl debug starts escapes (app.go
\* resolveSelectedPod, debug.go refreshPodTarget).
ChoiceIsKept ==
    /\ diagnosed \in {0, target.uid}
    /\ debugged \in {0, target.uid} \/ replaced

\* Every item of the root menu leads somewhere: whatever was edited before, each
\* profile makes a valid configuration of it, and no option of a guided run is
\* refused (command.go prepareMode, wizard.go).
ProfilesAlwaysApply ==
    phase = "guide" =>
        /\ screen # "failed"
        /\ \A command \in DOMAIN ModeOf : Validate(Profile(base, command), {})

\* The values that switching to one Pod or to the list leaves behind.
Tuning == {"node_heartbeat_timeout"} \union HistoryTuning \union WebhookTuning

\* The next start reads from a settings file what the editor shows: the same
\* settings are explicit and have the same values, but for the tuning a mode has
\* no use for.
ReadsAs(values, c) ==
    LET next == Loaded(values, c.file)
    IN  /\ next.explicit = c.explicit
        /\ \A name \in Settings : next[name] = c[name] \/ name \in Tuning

\* What the editor shows is what the next start reads.  Only when the last save
\* reported an error after it had replaced the file does the file hold another
\* configuration, and then it holds all of what that save was to write
\* (settings_catalog.go SaveINI, wizard.go persistPromptedSetting, settings.go
\* LoadINI).
SavedIsWhatRuns ==
    phase = "guide" /\ screen \in {"sections", "settings", "value", "switch"} =>
        IF unconfirmed # <<>> THEN ini.exists /\ ReadsAs(ini.values, unconfirmed[1])
        ELSE ini.exists /\ candidate.file # "" => ReadsAs(ini.values, candidate)

\* The file the editor has just written is one the next start accepts: WithSetting
\* "applies the same parser and complete combination validation used by INI and
\* CLI configuration" (settings_catalog.go:211).
SavedFileLoads ==
    phase = "guide" /\ saves > 0 /\ unconfirmed = <<>> =>
        Validate(Loaded(ini.values, candidate.file), {})

\* A program whose input has ended ends too, on whichever screen it was.
ScreensEndWithTheInput == input = "ended" ~> phase = "over"
=============================================================================
