-------------------------------- MODULE Guide --------------------------------
(***************************************************************************)
(* The screens of the program without arguments and of its config command  *)
(* (internal/app/wizard.go): the root menu, the options and details of a   *)
(* guided run, the confirmation, and the editor that writes each setting   *)
(* to the settings file as soon as it is entered.                          *)
(*                                                                         *)
(* A menu is left with one of its items, with b (one screen back), with q  *)
(* or with Ctrl-C; how the highlighted line moves is left to PodScreen,    *)
(* whose arithmetic the menus share.  Once the input has ended every menu  *)
(* reads q and every prompt reads b.                                       *)
(***************************************************************************)
EXTENDS Configuration

CONSTANTS
    Entries,        \* setting -> the values an operator types, wrong ones too
    MaxSaves        \* bound: the settings written during one start

\* What is typed at the prompt of an option that is on or off is read as one of
\* the two.
ASSUME GuideAssumption ==
    /\ MaxSaves \in Nat
    /\ \A name \in BooleanSettings : Entries[name] \subseteq BOOLEAN

VARIABLES
    ini,            \* the settings file: whether it exists, and its values
    base,           \* the configuration the root menu starts from
    candidate,      \* the configuration being put together
    screen,         \* the screen shown, or how the guide ended
    profile,        \* the item chosen on the root menu
    toggles,        \* the options switched on
    details,        \* the settings asked for after the options
    at,             \* which of them is asked for
    resumed,        \* back from the confirmation
    section,        \* the section being edited
    editing,        \* the setting being edited
    saves,          \* the settings written so far
    unconfirmed,    \* history: <<what the last save wrote>> when it reported an
                    \* error nevertheless, <<>> otherwise
    input           \* "open", or "ended" at the end of the input

guideVars == <<ini, base, candidate, screen, profile, toggles, details, at, resumed, section,
               editing, saves, unconfirmed, input>>

Ends == {"run", "quit", "interrupted", "failed", "closed"}
Menus == {"root", "options", "confirm", "sections", "settings", "switch"}
Prompts == {"detail", "value"}

Show(next) == screen' = next

\* A screen that is left forgets what was chosen on it.
Forget == toggles' = {} /\ details' = <<>> /\ at' = 0 /\ resumed' = FALSE

-----------------------------------------------------------------------------
(* Helpers. *)

\* ApplyProfile, WithSetting and WithoutSetting change nothing when the outcome
\* is not valid: the set of what they return is empty then.
Tried(c) == IF Validate(c, {}) THEN {c} ELSE {}

Then(outcomes, F(_)) == UNION {F(c) : c \in outcomes}

WithSetting(c, name, value) == Tried(With(c, name, value))
WithoutSetting(c, name) == Tried(Without(c, name))

\* setLogs, setConnect and setDebug: switching off forgets the options too.
Dropped(outcomes, name) == UNION {WithoutSetting(d, name) : d \in outcomes}
Switched(outcomes, name, on) == UNION {WithSetting(d, name, on) : d \in outcomes}

SetLogs(c, on) ==
    LET forgotten == Dropped(Dropped(Dropped({c}, "log_signatures_file"), "log_signature_lines"), "tail")
    IN  Switched(IF on THEN {c} ELSE forgotten, "logs", on)
SetConnect(c, on) ==
    Switched(IF on THEN {c} ELSE Dropped(Dropped({c}, "connect_port"), "connect_path"), "connect", on)
SetDebug(c, on) ==
    Switched(IF on THEN {c} ELSE Dropped(Dropped({c}, "image"), "profile"), "debug", on)

Off(c, name) ==
    CASE name = "logs" -> SetLogs(c, FALSE)
      [] name = "connect" -> SetConnect(c, FALSE)
      [] name = "debug" -> SetDebug(c, FALSE)

Linked == {"logs", "connect", "debug"}

\* The command word of a mode.
CommandOf == [all |-> "all", select |-> "pod", list |-> "list", triage |-> "triage"]

\* applyPromptedSetting with "-": the setting goes back to its default.
Forgotten(c, name) ==
    LET forget(d) == WithoutSetting(d, name)
    IN  CASE name = "mode" -> Then(Tried(Profile(c, "all")), forget)
          [] name \in Linked -> Then(Off(c, name), forget)
          [] OTHER -> forget(c)

\* applyPromptedSetting with a value.
Prompted(c, name, value) ==
    LET write(d) == WithSetting(d, name, value)
    IN  IF ~Parses(name, value) THEN {}
        ELSE CASE name = "mode" -> Then(Tried(Profile(c, CommandOf[value])), write)
               [] name \in Linked -> IF value THEN write(c) ELSE Off(c, name)
               [] OTHER -> write(c)

\* What a line typed at a prompt makes of a configuration: a value, or "-".
Typed(c, name) ==
    {Forgotten(c, name)} \union {Prompted(c, name, value) : value \in Entries[name]}

-----------------------------------------------------------------------------
(* The root menu and the guided runs. *)

\* The options of a whole-cluster run; the debug menu is offered where it can be.
Options(c) ==
    IF profile = "pod" THEN {"connect", "tail", "debug"}
    ELSE {"logs", "unused"} \union
         (IF c.output = "text" /\ c.watch = 0 THEN {"debug"} ELSE {})

SwitchedOn(c, choice) ==
    IF choice = "pod"
    THEN {n \in {"connect", "debug"} : c[n]} \union ({"tail"} \intersect c.explicit)
    ELSE {n \in {"logs", "unused", "debug"} : c[n]}

ChooseProfile ==
    /\ screen = "root" /\ input = "open"
    /\ \E command \in {"all", "pod", "list", "quick", "ci", "deep"} :
           IF Tried(Profile(base, command)) = {}
           THEN UNCHANGED <<candidate, toggles, screen, profile>>
           ELSE /\ candidate' = Profile(base, command)
                /\ profile' = command
                /\ toggles' = SwitchedOn(candidate', command)
                /\ Show(IF command \in {"all", "pod"} THEN "options" ELSE "confirm")
    /\ details' = <<>> /\ at' = 0 /\ resumed' = FALSE
    /\ UNCHANGED <<ini, base, section, editing, saves, unconfirmed, input>>

Toggle ==
    /\ screen = "options" /\ input = "open"
    /\ \E option \in Options(candidate) :
           toggles' = IF option \in toggles THEN toggles \ {option} ELSE toggles \union {option}
    /\ UNCHANGED <<ini, base, candidate, screen, profile, details, at, resumed, section, editing,
                   saves, unconfirmed, input>>

\* configureAll and configurePod up to the first detail.
WithOptions(c) ==
    LET debug(d) == IF "debug" \in Options(c) THEN SetDebug(d, "debug" \in toggles) ELSE {d}
        unused(d) == Tried(With(d, "unused", "unused" \in toggles))
    IN  IF profile = "pod" THEN Then(SetConnect(c, "connect" \in toggles), debug)
        ELSE Then(Then(SetLogs(c, "logs" \in toggles), unused), debug)

DetailsOf(c) ==
    LET when(condition, settings) == IF condition THEN settings ELSE <<>>
        debug == when("debug" \in toggles \intersect Options(c), <<"image", "profile">>)
    IN  IF profile = "pod"
        THEN when("tail" \in toggles, <<"tail">>)
                 \o when("connect" \in toggles, <<"connect_port", "connect_path">>) \o debug
        ELSE when("logs" \in toggles /\ c.output = "text", <<"tail">>) \o debug

\* A setting that is refused here ends the guide with an error.
Proceed ==
    /\ screen = "options" /\ input = "open"
    /\ IF WithOptions(candidate) = {}
       THEN Show("failed") /\ UNCHANGED <<candidate, details, at>>
       ELSE /\ candidate' \in WithOptions(candidate)
            /\ details' = DetailsOf(candidate')
            /\ at' = IF details' = <<>> THEN 0 ELSE 1
            /\ Show(IF details' = <<>> THEN "confirm" ELSE "detail")
    /\ resumed' = FALSE
    /\ UNCHANGED <<ini, base, profile, toggles, section, editing, saves, unconfirmed, input>>

\* promptSetting; an empty line keeps the value and a refused one is asked again.
EnterDetail ==
    /\ screen = "detail" /\ input = "open"
    /\ \E outcomes \in Typed(candidate, details[at]) \union {{candidate}} :
           \/ outcomes = {} /\ UNCHANGED <<candidate, at, screen>>
           \/ /\ candidate' \in outcomes
              /\ IF at = Len(details) THEN Show("confirm") /\ UNCHANGED at
                 ELSE at' = at + 1 /\ UNCHANGED screen
    /\ UNCHANGED <<ini, base, profile, toggles, details, resumed, section, editing, saves,
                   unconfirmed, input>>

\* runGuidedSettingsFrom: back to the detail before, and from the first of them
\* to the options.  They show what was switched on, or, on the way back from the
\* confirmation, what the configuration says.
LeaveDetail ==
    /\ screen = "detail"
    /\ at' = at - 1
    /\ Show(IF at = 1 THEN "options" ELSE "detail")
    /\ toggles' = IF at = 1 /\ resumed THEN SwitchedOn(candidate, profile) ELSE toggles
    /\ details' = IF at = 1 THEN <<>> ELSE details
    /\ UNCHANGED <<ini, base, candidate, profile, resumed, section, editing, saves, unconfirmed,
                   input>>

LeaveOptions ==
    /\ screen = "options" /\ input = "open"
    /\ Show("root")
    /\ candidate' = base /\ profile' = "" /\ Forget
    /\ UNCHANGED <<ini, base, section, editing, saves, unconfirmed, input>>

Confirm ==
    /\ screen = "confirm" /\ input = "open"
    /\ Show("run")
    /\ UNCHANGED <<ini, base, candidate, profile, toggles, details, at, resumed, section,
                   editing, saves, unconfirmed, input>>

\* Back from the confirmation: the last detail, or the options, which are read
\* from the configuration again, or the root menu.
LeaveConfirm ==
    /\ screen = "confirm" /\ input = "open"
    /\ IF profile \notin {"all", "pod"}
       THEN Show("root") /\ candidate' = base /\ profile' = "" /\ Forget
       ELSE /\ Show(IF details # <<>> THEN "detail" ELSE "options")
            /\ toggles' = SwitchedOn(candidate, profile)
            /\ resumed' = TRUE
            /\ UNCHANGED <<candidate, profile, details, at>>
    /\ UNCHANGED <<ini, base, section, editing, saves, unconfirmed, input>>

-----------------------------------------------------------------------------
(* The settings editor. *)

EditSettings ==
    /\ screen = "root" /\ input = "open"
    /\ Show("sections")
    /\ candidate' = base
    /\ UNCHANGED <<ini, base, profile, toggles, details, at, resumed, section, editing, saves,
                   unconfirmed, input>>

ChooseSection ==
    /\ screen = "sections" /\ input = "open"
    /\ section' \in DOMAIN Catalog
    /\ Show("settings")
    /\ UNCHANGED <<ini, base, candidate, profile, toggles, details, at, resumed, editing, saves,
                   unconfirmed, input>>

\* The editor that the config command opened ends, the other one returns to the
\* root menu, which starts from what was edited.
LeaveSections ==
    /\ screen = "sections" /\ input = "open"
    /\ Show(IF profile = "config" THEN "closed" ELSE "root")
    /\ base' = candidate
    /\ UNCHANGED <<ini, candidate, profile, toggles, details, at, resumed, section, editing,
                   saves, unconfirmed, input>>

ChooseSetting ==
    /\ screen = "settings" /\ input = "open"
    /\ saves < MaxSaves
    /\ \E name \in ToSet(Catalog[section]) :
           /\ Entries[name] # {}
           /\ editing' = name
           /\ Show(IF name \in BooleanSettings THEN "switch" ELSE "value")
    /\ UNCHANGED <<ini, base, candidate, profile, toggles, details, at, resumed, section, saves,
                   unconfirmed, input>>

LeaveSettings ==
    /\ screen = "settings" /\ input = "open"
    /\ Show("sections") /\ section' = 1
    /\ UNCHANGED <<ini, base, candidate, profile, toggles, details, at, resumed, editing, saves,
                   unconfirmed, input>>

\* SaveINI: a configuration that is not valid once it knows its file is not
\* written.
Save(c) ==
    Tried([c EXCEPT !.file = Canonical[IF @ = "" THEN DefaultFile ELSE @]])

\* persistPromptedSetting: nothing is written, or the file is replaced and the
\* editor goes on with what it wrote, or the directory could not be synced after
\* the file was replaced.  The editor reports an error then, and keeps the
\* configuration from before.
EnterSetting ==
    /\ screen \in {"value", "switch"} /\ input = "open"
    /\ \E outcomes \in Typed(candidate, editing) :
           \/ UNCHANGED <<candidate, ini, saves, unconfirmed>>
           \/ \E saved \in Then(outcomes, Save) :
                  /\ ini' = [exists |-> TRUE, values |-> Render(saved)]
                  /\ saves' = saves + 1
                  /\ \/ candidate' = saved /\ unconfirmed' = <<>>
                     \/ UNCHANGED candidate /\ unconfirmed' = <<saved>>
    /\ Show("settings") /\ editing' = ""
    /\ UNCHANGED <<base, profile, toggles, details, at, resumed, section, input>>

LeaveSetting ==
    /\ screen \in {"value", "switch"}
    /\ screen = "switch" => input = "open"
    /\ Show("settings") /\ editing' = ""
    /\ UNCHANGED <<ini, base, candidate, profile, toggles, details, at, resumed, section, saves,
                   unconfirmed, input>>

-----------------------------------------------------------------------------
(* Leaving the screens for good. *)

\* q, and the end of the input, which a menu reads as q.
Quit ==
    /\ screen \in Menus
    /\ Show(IF profile = "config" THEN "closed" ELSE "quit")
    /\ Forget /\ section' = 1 /\ editing' = "" /\ candidate' = base
    /\ UNCHANGED <<ini, base, profile, saves, unconfirmed, input>>

\* Ctrl-C is a byte of the input, on a menu as in a line.
Interrupt ==
    /\ screen \in Menus \union Prompts /\ input = "open"
    /\ Show("interrupted")
    /\ Forget /\ section' = 1 /\ editing' = "" /\ candidate' = base
    /\ UNCHANGED <<ini, base, profile, saves, unconfirmed, input>>

EndOfInput ==
    /\ input = "open"
    /\ input' = "ended"
    /\ UNCHANGED <<ini, base, candidate, screen, profile, toggles, details, at, resumed, section,
                   editing, saves, unconfirmed>>

\* What the program does with its operator's input.
Answer ==
    \/ ChooseProfile \/ Toggle \/ Proceed \/ EnterDetail \/ LeaveDetail \/ LeaveOptions
    \/ Confirm \/ LeaveConfirm
    \/ EditSettings \/ ChooseSection \/ LeaveSections \/ ChooseSetting \/ LeaveSettings
    \/ EnterSetting \/ LeaveSetting
    \/ Quit \/ Interrupt
=============================================================================
