--------------------------- MODULE SessionProofs ---------------------------
(***************************************************************************)
(* Theorems about Session, for any command lines, settings files, Pods,    *)
(* screen heights and paths: the types, the highlighted Pod is on the      *)
(* screen, the Pod that is looked at is the one that was chosen, a replay  *)
(* asks nothing of a cluster and is of the scope of its run, no file of    *)
(* the run replaces another, every item of the guide's menu leads to a     *)
(* valid run, and what its editor saved is what the next start reads.      *)
(* Each rests on an inductive invariant of its own.  That every            *)
(* configuration that runs was validated is one of them, as the guide      *)
(* edits configurations too; the menu and the editor need, for any valid   *)
(* configuration, what each profile and each edit makes of it.             *)
(***************************************************************************)
EXTENDS Session, Recursion, FiniteSetTheorems, TLAPS

\* A page shows at least one line, however low the terminal is.
LEMMA PageIsPositive ==
    ASSUME NEW total \in Nat, NEW hasNotice
    PROVE  PageSize(total, hasNotice) \in Nat \ {0}
<1> DEFINE least == Larger(1, total)
           room == Height - (IF hasNotice THEN 21 ELSE 20)
<1>1. Height \in Nat
  BY ScreenAssumption DEF ScreenAssumption
<1>2. least \in Nat \ {0}
  BY DEF Larger
<1>3. room \in Int
  BY <1>1
<1>4. Larger(3, room) \in Nat \ {0}
  <2> HIDE DEF room
  <2> QED
    BY <1>3 DEF Larger
<1>5. Smaller(Larger(3, room), least) \in Nat \ {0}
  BY <1>2, <1>4 DEF Smaller
<1> QED
  BY <1>2, <1>5 DEF PageSize

\* The window that selectionWindow cuts out of a list holds the given line, and
\* ends within the list.
LEMMA WindowHoldsLine ==
    ASSUME NEW total \in Nat, NEW line0 \in 0..(total - 1), NEW size \in Nat \ {0}
    PROVE  /\ line0 \in WindowStart(total, line0, size)..(WindowEnd(total, line0, size) - 1)
           /\ WindowEnd(total, line0, size) <= total
<1>1. size \div 2 \in Nat /\ size \div 2 <= size - 1
  OBVIOUS
<1>2. CASE total <= size
  BY <1>2 DEF WindowStart, WindowEnd
<1>3. CASE ~(total <= size)
  BY <1>1, <1>3 DEF WindowStart, WindowEnd, Smaller, Larger
<1> QED
  BY <1>2, <1>3

\* A key that moves the highlight in a list that is not empty leaves it on a line
\* of that list, round the ends included.
LEMMA MovesStayInList ==
    ASSUME NEW key \in {"up", "down", "home", "end", "pageUp", "pageDown"},
           NEW total \in Nat \ {0}, NEW line0 \in 0..(total - 1), NEW page \in Nat
    PROVE  Moved(key, line0, total, page) \in 0..(total - 1)
<1>1. (line0 - 1 + total) % total \in 0..(total - 1)
  OBVIOUS
<1>2. (line0 + 1) % total \in 0..(total - 1)
  OBVIOUS
<1>3. CASE key = "up"
  BY <1>1, <1>3 DEF Moved
<1>4. CASE key = "down"
  BY <1>2, <1>4 DEF Moved
<1>5. CASE key = "home"
  BY <1>5 DEF Moved
<1>6. CASE key = "end"
  BY <1>6 DEF Moved
<1>7. CASE key = "pageUp"
  <2>1. Moved(key, line0, total, page) = Larger(0, line0 - page)
    BY <1>7 DEF Moved
  <2> QED
    BY <2>1 DEF Larger
<1>8. CASE key = "pageDown"
  <2>1. Moved(key, line0, total, page) = Smaller(total - 1, line0 + page)
    BY <1>8 DEF Moved
  <2> QED
    BY <2>1 DEF Smaller
<1> QED
  BY <1>3, <1>4, <1>5, <1>6, <1>7, <1>8

-----------------------------------------------------------------------------
(* The Pod screen. *)

\* A screen lists Pods of the cluster, and its highlight is one of its lines.
ScreenInv ==
    /\ listed \subseteq Pods
    /\ selected \in Nat
    /\ prompt = "keys" /\ Shown # {} => selected < Cardinality(Shown)

\* What a screen lists is finite, and more than nothing when it is not empty.
LEMMA ListsAreCounted ==
    ASSUME NEW S, S \subseteq Pods
    PROVE  /\ Cardinality(S) \in Nat
           /\ S # {} => Cardinality(S) > 0
<1>1. IsFiniteSet(S)
  BY ScreenAssumption, FS_Subset DEF ScreenAssumption
<1> QED
  BY <1>1, FS_CardinalityType, FS_EmptySet

\* However far down the highlight was, drawing the list puts it on a line of it
\* (selection.go promptPod, which clamps after every change of the filters).
LEMMA DrawClamps ==
    ASSUME listed \subseteq Pods, listed' = listed,
           NEW namespace, NEW name, NEW line0 \in Nat, NEW message,
           Draw(namespace, name, line0, message)
    PROVE  ScreenInv'
<1> DEFINE total == Cardinality(Candidates(namespace, name))
<1>1. Shown' = Candidates(namespace, name)
  BY DEF Draw, Shown, Candidates
<1>2. Candidates(namespace, name) \subseteq Pods
  BY DEF Candidates
<1>3. total \in Nat /\ (Candidates(namespace, name) # {} => total > 0)
  BY <1>2, ListsAreCounted
<1>4. selected' = IF total = 0 THEN 0 ELSE Smaller(line0, total - 1)
  BY DEF Draw
<1>5. selected' \in Nat /\ (total > 0 => selected' < total)
  <2> HIDE DEF total
  <2> QED
    BY <1>3, <1>4 DEF Smaller
<1> QED
  BY <1>1, <1>3, <1>5 DEF ScreenInv

\* No key takes the highlight off the list, a change of the filters included.
LEMMA KeysKeepScreen ==
    ASSUME ScreenInv,
           Typing \/ LeaveSearch \/ (\E open \in BOOLEAN : LeaveList(open))
    PROVE  ScreenInv'
<1> USE DEF ScreenInv
<1>1. CASE Move
  <2>1. PICK key \in {"up", "down", "home", "end", "pageUp", "pageDown"} :
            LET total == Cardinality(Shown)
                line0 == IF total = 0 THEN selected
                         ELSE Moved(key, selected, total, PageSize(total, notice))
            IN  Draw(namespaceQuery, nameQuery, line0, FALSE)
    BY <1>1 DEF Move
  <2> DEFINE total == Cardinality(Shown)
             line0 == IF total = 0 THEN selected
                      ELSE Moved(key, selected, total, PageSize(total, notice))
  <2>2. listed' = listed /\ prompt = "keys"
    BY <1>1 DEF Move
  <2>3. Shown \subseteq Pods
    BY DEF Shown, Candidates
  <2>4. total \in Nat /\ (Shown # {} => total > 0) /\ (Shown = {} => total = 0)
    BY <2>3, ListsAreCounted, FS_EmptySet
  <2>5. line0 \in Nat
    <3>1. CASE total = 0
      BY <3>1
    <3>2. CASE total # 0
      <4>1. selected \in 0..(total - 1)
        BY <2>2, <2>4, <3>2
      <4>2. PageSize(total, notice) \in Nat
        BY <2>4, PageIsPositive
      <4>3. total \in Nat \ {0}
        BY <2>4, <3>2
      <4>4. Moved(key, selected, total, PageSize(total, notice)) \in 0..(total - 1)
        <5> HIDE DEF total
        <5> QED
          BY <4>1, <4>2, <4>3, MovesStayInList
      <4> QED
        BY <3>2, <4>3, <4>4
    <3> QED
      BY <3>1, <3>2
  <2>6. Draw(namespaceQuery, nameQuery, line0, FALSE)
    BY <2>1
  <2> HIDE DEF line0
  <2> QED
    BY <2>2, <2>5, <2>6, DrawClamps
<1>2. CASE Choose
  <2>1. CASE Shown = {}
    <3>1. Draw(namespaceQuery, nameQuery, selected, TRUE) /\ listed' = listed
      BY <1>2, <2>1 DEF Choose
    <3> QED
      BY <3>1, DrawClamps
  <2>2. CASE Shown # {}
    BY <1>2, <2>2 DEF Choose, Shown, Candidates
  <2> QED
    BY <2>1, <2>2
<1>3. CASE SearchNamespace
  <2>1. CASE fixed
    <3>1. Draw(namespaceQuery, nameQuery, selected, TRUE) /\ listed' = listed
      BY <1>3, <2>1 DEF SearchNamespace
    <3> QED
      BY <3>1, DrawClamps
  <2>2. CASE ~fixed
    BY <1>3, <2>2 DEF SearchNamespace
  <2> QED
    BY <2>1, <2>2
<1>4. CASE SearchName
  BY <1>4 DEF SearchName
<1>5. CASE Research
  BY <1>5 DEF Research
<1>6. CASE EnterNamespace
  <2>1. PICK text \in DOMAIN NamespaceMatches :
            IF both
            THEN /\ namespaceQuery' = text /\ prompt' = "name"
                 /\ UNCHANGED <<nameQuery, selected, notice>>
            ELSE Draw(text, nameQuery, 0, FALSE) /\ prompt' = "keys"
    BY <1>6 DEF EnterNamespace
  <2>2. listed' = listed
    BY <1>6 DEF EnterNamespace
  <2>3. CASE both
    BY <2>1, <2>2, <2>3
  <2>4. CASE ~both
    <3>1. Draw(text, nameQuery, 0, FALSE)
      BY <2>1, <2>4
    <3> QED
      BY <2>2, <3>1, DrawClamps
  <2> QED
    BY <2>3, <2>4
<1>7. CASE EnterName
  <2>1. PICK text \in DOMAIN NameMatches : Draw(namespaceQuery, text, 0, FALSE)
    BY <1>7 DEF EnterName
  <2>2. listed' = listed
    BY <1>7 DEF EnterName
  <2> QED
    BY <2>1, <2>2, DrawClamps
<1>8. CASE ClearSearch
  <2>1. Draw("", "", 0, FALSE) /\ listed' = listed
    BY <1>8 DEF ClearSearch
  <2> QED
    BY <2>1, DrawClamps
<1>9. CASE NowhereBack
  <2>1. Draw("", "", selected, TRUE) /\ listed' = listed
    BY <1>9 DEF NowhereBack
  <2> QED
    BY <2>1, DrawClamps
<1>10. CASE OtherKey \/ LeaveSearch
  <2>1. Draw(namespaceQuery, nameQuery, selected, FALSE) /\ listed' = listed
    BY <1>10 DEF OtherKey, LeaveSearch
  <2> QED
    BY <2>1, DrawClamps
<1>11. CASE Break \/ \E open \in BOOLEAN : LeaveList(open)
  BY <1>11 DEF Break, LeaveList
<1> QED
  BY <1>1, <1>2, <1>3, <1>4, <1>5, <1>6, <1>7, <1>8, <1>9, <1>10, <1>11 DEF Typing

\* A screen that opens starts on its first line.
LEMMA OpeningDraws ==
    ASSUME NEW uids, OpenScreen(uids)
    PROVE  ScreenInv'
<1>1. Shown' \subseteq Pods
  BY DEF OpenScreen, Shown, Candidates
<1>2. Shown' # {} => Cardinality(Shown') > 0
  BY <1>1, ListsAreCounted
<1> QED
  BY <1>2 DEF OpenScreen, ScreenInv

\* The highlight is a line of the list on screen in every reachable state.
LEMMA ScreenInvariance == Spec => []ScreenInv
<1>1. Init => ScreenInv
  <2>1. Init => listed = {} /\ selected = 0 /\ prompt = "closed"
    BY DEF Init
  <2> QED
    BY <2>1 DEF ScreenInv
<1>2. ScreenInv /\ [Next]_vars => ScreenInv'
  <2> SUFFICES ASSUME ScreenInv, [Next]_vars
               PROVE  ScreenInv'
    OBVIOUS
  <2>1. CASE PodKeys
    <3>1. (Typing /\ input = "open") \/ LeaveSearch \/ LeaveList(input = "open")
      BY <2>1 DEF PodKeys
    <3>2. (input = "open") \in BOOLEAN
      OBVIOUS
    <3> QED
      BY <3>1, <3>2, KeysKeepScreen
  <2>2. CASE SelectPod \/ Report
    <3>1. UNCHANGED screenVars \/ \E uids : OpenScreen(uids)
      BY <2>2 DEF SelectPod, Report
    <3>2. CASE UNCHANGED screenVars
      BY <3>2 DEF ScreenInv, screenVars, Shown, Candidates
    <3> QED
      BY <3>1, <3>2, OpeningDraws
  <2>3. CASE LeaveScreen \/ ScreenFails
    <3>1. prompt' = "closed" /\ listed' = {} /\ selected' = 0
      BY <2>3 DEF LeaveScreen, ScreenFails, CloseScreen
    <3> QED
      BY <3>1 DEF ScreenInv
  <2>4. CASE UNCHANGED screenVars
    BY <2>4 DEF ScreenInv, screenVars, Shown, Candidates
  <2>5. PodKeys \/ SelectPod \/ Report \/ LeaveScreen \/ ScreenFails \/ UNCHANGED screenVars
    <3>1. CASE Start \/ Screens \/ LeaveGuide \/ GuideFails \/ Load \/ Replay \/ Connect
              \/ Watch \/ List
      BY <3>1 DEF Start, Screens, LeaveGuide, GuideFails, Load, Replay, Connect, Watch, List, choice
    <3>2. CASE Diagnose \/ Resolve \/ Forward \/ Refresh \/ ChooseWay \/ ConfirmDebug
                  \/ Recheck \/ Launch \/ Finish
      BY <3>2 DEF Diagnose, Resolve, Forward, Refresh, ChooseWay, ConfirmDebug, Recheck, Launch,
                  Finish, choice
    <3>3. CASE Environment
      BY <3>3 DEF Environment, Change, Signal, InputEnds, choice
    <3>4. CASE Over \/ UNCHANGED vars
      BY <3>4 DEF Over, vars
    <3> QED
      BY <3>1, <3>2, <3>3, <3>4 DEF Next, Program
  <2> QED
    BY <2>1, <2>2, <2>3, <2>4, <2>5
<1> QED
  BY <1>1, <1>2, PTL DEF Spec

\* The Pod that Enter would choose is always among those the screen shows, for
\* every number of Pods and every height of the terminal.
THEOREM HighlightIsOnScreen == Spec => []ChoiceIsOnScreen
<1>1. ScreenInv => ChoiceIsOnScreen
  <2> SUFFICES ASSUME ScreenInv, prompt = "keys", Shown # {}
               PROVE  ChoiceIsOnScreen
    BY DEF ChoiceIsOnScreen
  <2> DEFINE total == Cardinality(Shown)
             size == PageSize(total, notice)
  <2>1. Shown \subseteq Pods
    BY DEF ScreenInv, Shown, Candidates
  <2>2. total \in Nat /\ selected \in 0..(total - 1)
    BY <2>1, ListsAreCounted DEF ScreenInv
  <2>3. size \in Nat \ {0}
    BY <2>2, PageIsPositive
  <2>4. /\ selected \in WindowStart(total, selected, size)..(WindowEnd(total, selected, size) - 1)
        /\ WindowEnd(total, selected, size) <= total
    <3> HIDE DEF total, size
    <3> QED
      BY <2>2, <2>3, WindowHoldsLine
  <2> QED
    BY <2>4 DEF ChoiceIsOnScreen
<1> QED
  BY <1>1, ScreenInvariance, PTL

-----------------------------------------------------------------------------
(* The Pod that was chosen. *)

Undebugged ==
    {"start", "guide", "load", "connect", "first", "screen", "resolve", "forward", "report",
     "refresh", "menu", "confirm", "recheck", "launch"}

Unchosen == {"start", "guide", "load", "connect", "first", "screen", "report"}

\* What was diagnosed and debugged, told by the phase; before kubectl debug starts
\* the Pod on the cluster is still the chosen one, unless it was replaced since.
ChoiceInv ==
    /\ diagnosed \in {0, target.uid}
    /\ phase \in Unchosen => diagnosed = 0
    /\ phase \in Undebugged => debugged = 0
    /\ debugged \in {0, target.uid} \/ replaced
    /\ phase = "launch" => cluster[target.pod].uid = target.uid \/ replaced

\* Before a Pod is resolved nothing was diagnosed, before kubectl debug starts
\* nothing was debugged, and what starts it was looked at again.
LEMMA ChoiceInvariance == Spec => []ChoiceInv
<1>1. Init => ChoiceInv
  <2>1. Init => diagnosed = 0 /\ debugged = 0 /\ phase = "start"
    BY DEF Init
  <2> QED
    BY <2>1 DEF ChoiceInv
<1>2. ChoiceInv /\ [Next]_vars => ChoiceInv'
  <2> SUFFICES ASSUME ChoiceInv, [Next]_vars
               PROVE  ChoiceInv'
    OBVIOUS
  <2> USE DEF Exit, GoTo, ChoiceInv, Unchosen, Undebugged
  <2>1. CASE Start
    BY <2>1 DEF Start, choice, debugVars, clusterVars
  <2>2. CASE Screens
    BY <2>2 DEF Screens, choice, debugVars, clusterVars
  <2>3. CASE LeaveGuide \/ GuideFails
    BY <2>3 DEF LeaveGuide, GuideFails, choice, debugVars, clusterVars
  <2>4. CASE Load \/ Replay
    BY <2>4 DEF Load, Replay, choice, debugVars, clusterVars, world
  <2>5. CASE Connect \/ Watch \/ List
    BY <2>5 DEF Connect, Watch, List, choice, debugVars, clusterVars, world
  <2>6. CASE SelectPod
    BY <2>6 DEF SelectPod, debugVars, clusterVars, world
  <2>7. CASE Diagnose
    BY <2>7 DEF Diagnose, debugVars, clusterVars, world
  <2>8. CASE Report
    BY <2>8 DEF Report, debugVars, clusterVars, world
  <2>9. CASE PodKeys
    BY <2>9 DEF PodKeys, debugVars, clusterVars
  <2>10. CASE LeaveScreen \/ ScreenFails
    BY <2>10 DEF LeaveScreen, ScreenFails, CloseScreen, debugVars, clusterVars, world
  <2>11. CASE Resolve
    BY <2>11 DEF Resolve, clusterVars, world
  <2>12. CASE Forward
    BY <2>12 DEF Forward, choice, debugVars, clusterVars, world
  <2>13. CASE Refresh
    BY <2>13 DEF Refresh, choice, clusterVars, world
  <2>14. CASE ChooseWay
    BY <2>14 DEF ChooseWay, choice, clusterVars, world
  <2>15. CASE ConfirmDebug
    BY <2>15 DEF ConfirmDebug, choice, debugVars, clusterVars, world
  <2>16. CASE Recheck
    BY <2>16 DEF Recheck, StillTheSame, choice, clusterVars, world
  <2>17. CASE Launch
    BY <2>17 DEF Launch, choice, clusterVars, world
  <2>18. CASE Finish
    BY <2>18 DEF Finish, choice, debugVars, clusterVars, world
  <2>19. CASE \E p \in Pods : Change(p)
    BY <2>19 DEF Change, choice
  <2>20. CASE Signal \/ InputEnds
    BY <2>20 DEF Signal, InputEnds, choice, debugVars, clusterVars
  <2>21. CASE Over \/ UNCHANGED vars
    BY <2>21 DEF Over, vars, debugVars, clusterVars
  <2> QED
    BY <2>1, <2>2, <2>3, <2>4, <2>5, <2>6, <2>7, <2>8, <2>9, <2>10, <2>11, <2>12, <2>13, <2>14,
       <2>15, <2>16, <2>17, <2>18, <2>19, <2>20, <2>21 DEF Next, Program, Environment
<1> QED
  BY <1>1, <1>2, PTL DEF Spec

\* The Pod that is diagnosed and the Pod that is debugged is the one that was
\* chosen, by its UID; only a replacement after the last look escapes.
THEOREM ChosenPodIsTheOne == Spec => []ChoiceIsKept
<1>1. ChoiceInv => ChoiceIsKept
  BY DEF ChoiceInv, ChoiceIsKept
<1> QED
  BY <1>1, ChoiceInvariance, PTL

-----------------------------------------------------------------------------
(* Every configuration that runs has been validated. *)

\* All of these configurations are valid.
Valid(outcomes) == \A c \in outcomes : Validate(c, {})

\* An edit that is kept has been validated: Tried drops every other.
LEMMA TriedIsValid ==
    ASSUME NEW c
    PROVE  Valid(Tried(c))
  BY DEF Valid, Tried

\* Setting a value, or taking it back to its default, yields valid configurations.
LEMMA EditsAreValid ==
    ASSUME NEW c, NEW name, NEW value
    PROVE  Valid(WithSetting(c, name, value)) /\ Valid(WithoutSetting(c, name))
  BY TriedIsValid DEF WithSetting, WithoutSetting

\* Switching logs, connection checks or debugging yields valid configurations.
LEMMA SwitchesAreValid ==
    ASSUME NEW c, NEW on
    PROVE  Valid(SetLogs(c, on)) /\ Valid(SetConnect(c, on)) /\ Valid(SetDebug(c, on))
<1>1. ASSUME NEW outcomes, NEW name
      PROVE  Valid(Switched(outcomes, name, on))
  BY EditsAreValid DEF Switched, Valid
<1> QED
  BY <1>1 DEF SetLogs, SetConnect, SetDebug

\* Whatever is typed at a prompt, the configurations it may lead to are valid.
LEMMA TypedIsValid ==
    ASSUME NEW c, NEW name, NEW outcomes \in Typed(c, name)
    PROVE  Valid(outcomes)
<1>1. Valid(Forgotten(c, name))
  BY EditsAreValid DEF Forgotten, Then, Valid
<1>2. ASSUME NEW value
      PROVE  Valid(Prompted(c, name, value))
  <2>1. Valid(Off(c, name)) \/ name \notin Linked
    BY SwitchesAreValid DEF Off, Linked
  <2> QED
    BY <2>1, EditsAreValid DEF Prompted, Then, Valid, Linked
<1> QED
  BY <1>1, <1>2 DEF Typed

\* The options ticked on a screen are applied to a valid configuration.
LEMMA OptionsAreValid ==
    ASSUME NEW c
    PROVE  Valid(WithOptions(c))
  BY SwitchesAreValid, TriedIsValid DEF WithOptions, Then, Valid

\* Every answer on every screen of the guide and of the editor keeps both the
\* configuration it began with and the edited one valid.
LEMMA AnswersAreValid ==
    ASSUME Answer, Validate(base, {}), Validate(candidate, {})
    PROVE  Validate(base', {}) /\ Validate(candidate', {})
<1>1. CASE ChooseProfile
  <2>1. PICK command :
            IF Tried(Profile(base, command)) = {} THEN UNCHANGED candidate
            ELSE candidate' = Profile(base, command)
    BY <1>1 DEF ChooseProfile
  <2> QED
    BY <1>1, <2>1 DEF ChooseProfile, Tried
<1>2. CASE Proceed
  <2>1. candidate' = candidate \/ candidate' \in WithOptions(candidate)
    BY <1>2 DEF Proceed
  <2> QED
    BY <1>2, <2>1, OptionsAreValid DEF Proceed, Valid
<1>3. CASE EnterDetail
  <2>1. PICK outcomes \in Typed(candidate, details[at]) \union {{candidate}} :
            (outcomes = {} /\ UNCHANGED candidate) \/ candidate' \in outcomes
    BY <1>3 DEF EnterDetail
  <2> QED
    BY <1>3, <2>1, TypedIsValid DEF EnterDetail, Valid
<1>4. CASE EnterSetting
  <2>1. PICK outcomes \in Typed(candidate, editing) :
            UNCHANGED candidate \/ candidate' \in Then(outcomes, Save)
    BY <1>4 DEF EnterSetting
  <2>2. Valid(Then(outcomes, Save))
    BY DEF Then, Save, Tried, Valid
  <2> QED
    BY <1>4, <2>1, <2>2 DEF EnterSetting, Valid
<1>5. CASE Toggle \/ LeaveDetail \/ LeaveOptions \/ Confirm \/ LeaveConfirm
  BY <1>5 DEF Toggle, LeaveDetail, LeaveOptions, Confirm, LeaveConfirm
<1>6. CASE EditSettings \/ ChooseSection \/ LeaveSections \/ ChooseSetting \/ LeaveSettings
              \/ LeaveSetting \/ Quit \/ Interrupt
  BY <1>6 DEF EditSettings, ChooseSection, LeaveSections, ChooseSetting, LeaveSettings,
              LeaveSetting, Quit, Interrupt
<1> QED
  BY <1>1, <1>2, <1>3, <1>4, <1>5, <1>6 DEF Answer

\* The configurations of the guide are valid, and the one that runs was validated
\* together with some set of options of the command line.
ConfigInv ==
    /\ phase = "guide" => Validate(base, {}) /\ Validate(candidate, {})
    /\ phase \in {"start", "guide"} => config = Defaults
    /\ config = Defaults \/ \E raw \in SUBSET Settings : Validate(config, raw)

\* Whatever runs was validated: parsed from the command line, or left behind by
\* the guide.
LEMMA ConfigInvariance == Spec => []ConfigInv
<1>1. Init => ConfigInv
  <2>1. Init => phase = "start" /\ config = Defaults
    BY DEF Init
  <2> QED
    BY <2>1 DEF ConfigInv
<1>2. ConfigInv /\ [Next]_vars => ConfigInv'
  <2> SUFFICES ASSUME ConfigInv, [Next]_vars
               PROVE  ConfigInv'
    OBVIOUS
  <2> USE DEF ConfigInv, GoTo, Exit
  <2>1. CASE Start
    <3>1. CASE phase' = "over"
      BY <2>1, <3>1 DEF Start
    <3>2. CASE phase' = "guide"
      <4>1. Accepted(line, ini) /\ Screened /\ FirstScreen(Parsed(line, ini)) /\ UNCHANGED config
        BY <2>1, <3>2 DEF Start
      <4>2. DOMAIN line.flags = {}
        BY <4>1 DEF Accepted, Contradicts, Screened, Interactive
      <4>3. Validate(Parsed(line, ini), {})
        BY <4>1, <4>2 DEF Accepted
      <4> QED
        BY <2>1, <3>2, <4>1, <4>3 DEF Start, FirstScreen
    <3>3. CASE phase' = "load"
      BY <2>1, <3>3 DEF Start, Accepted
    <3> QED
      BY <2>1, <3>1, <3>2, <3>3 DEF Start
  <2>2. CASE Screens
    <3>1. Answer /\ phase = "guide" /\ UNCHANGED <<config, phase>>
      BY <2>2 DEF Screens
    <3> QED
      BY <3>1, AnswersAreValid
  <2>3. CASE LeaveGuide \/ GuideFails
    BY <2>3 DEF LeaveGuide, GuideFails
  <2>4. CASE UNCHANGED config /\ phase' \notin {"start", "guide"}
    BY <2>4
  <2>5. CASE UNCHANGED <<config, phase, base, candidate>>
    BY <2>5
  <2>6. Start \/ Screens \/ LeaveGuide \/ GuideFails
              \/ (UNCHANGED config /\ phase' \notin {"start", "guide"})
           \/ UNCHANGED <<config, phase, base, candidate>>
    <3>1. CASE Load \/ Replay \/ Connect \/ Watch \/ List \/ SelectPod \/ Diagnose \/ Report
      BY <3>1 DEF Load, Replay, Connect, Watch, List, SelectPod, Diagnose, Report, world
    <3>2. CASE LeaveScreen \/ ScreenFails \/ Resolve \/ Forward \/ Refresh \/ ChooseWay \/ ConfirmDebug
                  \/ Recheck \/ Launch \/ Finish
      BY <3>2 DEF LeaveScreen, ScreenFails, CloseScreen, Resolve, Forward, Refresh, ChooseWay,
                  ConfirmDebug, Recheck,
                  Launch, Finish, world
    <3>3. CASE PodKeys \/ Environment
      BY <3>3 DEF PodKeys, Environment, Change, Signal, InputEnds, EndOfInput, guideVars
    <3>4. CASE Over \/ UNCHANGED vars
      BY <3>4 DEF Over, vars, guideVars
    <3> QED
      BY <3>1, <3>2, <3>3, <3>4 DEF Next, Program
  <2> QED
    BY <2>1, <2>2, <2>3, <2>4, <2>5, <2>6
<1> QED
  BY <1>1, <1>2, PTL DEF Spec

-----------------------------------------------------------------------------
(* A replay. *)

\* Validate refuses what a replay cannot do: list, watch, connect, debug, extend
\* the history and notify.
LEMMA ReplayIsAlone ==
    ASSUME NEW c, NEW raw, Validate(c, raw), c.load_cluster_snapshot # ""
    PROVE  /\ c.mode # "list" /\ c.watch = 0 /\ ~c.connect /\ ~c.debug
           /\ c.history = "" /\ c.webhook_url_env = ""
  BY DEF Validate, ClusterSnapshots

\* A replay is never in a phase that makes a call, and has made none.
OfflineInv ==
    /\ phase \in {"start", "guide"} => calls = {} /\ written = {} /\ debugged = 0
    /\ phase = "screen" => config.mode = "select" \/ config.debug
    /\ Replaying =>
           /\ calls = {} /\ debugged = 0 /\ "history" \notin written
           /\ phase \notin {"forward", "refresh", "menu", "confirm", "recheck", "launch"}

\* No step of a run that replays leads to a call, to kubectl debug or to the
\* history, and none to the phases that make them.
LEMMA OfflineInvariance == Spec => []OfflineInv
<1>1. Init => OfflineInv
  <2>1. Init => calls = {} /\ written = {} /\ debugged = 0 /\ phase = "start"
    BY DEF Init
  <2> QED
    BY <2>1 DEF OfflineInv
<1>2. ConfigInv /\ ConfigInv' /\ OfflineInv /\ [Next]_vars => OfflineInv'
  <2> SUFFICES ASSUME ConfigInv, ConfigInv', OfflineInv, [Next]_vars
               PROVE  OfflineInv'
    OBVIOUS
  <2> DEFINE Alone ==
               Replaying =>
                   /\ config.mode # "list" /\ ~(config.watch > 0) /\ ~config.connect
                   /\ ~config.debug /\ config.history = "" /\ config.webhook_url_env = ""
  <2>0. Alone
    <3> SUFFICES ASSUME Replaying
                 PROVE  Alone
      OBVIOUS
    <3>1. config # Defaults
      <4>1. Defaults.load_cluster_snapshot = ""
        BY DEF Defaults
      <4> QED
        BY <4>1 DEF Replaying
    <3>2. PICK raw \in SUBSET Settings : Validate(config, raw)
      BY <3>1 DEF ConfigInv
    <3>3. config.load_cluster_snapshot # ""
      BY DEF Replaying
    <3>4. config.watch = 0 => ~(config.watch > 0)
      OBVIOUS
    <3>5. /\ config.mode # "list" /\ config.watch = 0 /\ ~config.connect /\ ~config.debug
          /\ config.history = "" /\ config.webhook_url_env = ""
      BY <3>2, <3>3, ReplayIsAlone
    <3> QED
      BY <3>4, <3>5
  <2> USE DEF GoTo, Exit, OfflineInv
  <2>1. CASE Start \/ LeaveGuide \/ GuideFails
    BY <2>1 DEF Start, LeaveGuide, GuideFails, outerVars, debugVars, Replaying, choice
  <2>2. CASE Screens
    BY <2>2 DEF Screens, outerVars, debugVars, Replaying, choice
  <2>3. CASE Load \/ Replay
    BY <2>3 DEF Load, Replay, outerVars, debugVars, Replaying, choice, world
  <2>4. CASE Connect \/ Watch \/ List
    BY <2>0, <2>4 DEF Connect, Watch, List, debugVars, Replaying, choice, world
  <2>5. CASE SelectPod
    BY <2>5 DEF SelectPod, Read, debugVars, Replaying, world
  <2>6. CASE Diagnose
    BY <2>6 DEF Diagnose, Read, Saving, debugVars, Replaying, world
  <2>7. CASE Report
    BY <2>0, <2>7 DEF Report, Saving, ReportOrder, debugVars, Replaying, world
  <2>8. CASE PodKeys
    BY <2>8 DEF PodKeys, debugVars, outerVars, Replaying
  <2>9. CASE LeaveScreen \/ ScreenFails
    BY <2>0, <2>9 DEF LeaveScreen, ScreenFails, CloseScreen, debugVars, outerVars, Replaying, world
  <2>10. CASE Resolve
    BY <2>0, <2>10 DEF Resolve, Read, Saving, Replaying, world
  <2>11. CASE Forward \/ Refresh
    BY <2>11 DEF Forward, Refresh, debugVars, Replaying, world, choice
  <2>12. CASE ChooseWay \/ ConfirmDebug
    BY <2>12 DEF ChooseWay, ConfirmDebug, debugVars, outerVars, Replaying, world, choice
  <2>13. CASE Recheck \/ Launch
    BY <2>13 DEF Recheck, Launch, Replaying, world, choice
  <2>14. CASE Finish
    BY <2>14 DEF Finish, debugVars, outerVars, Replaying, world, choice
  <2>15. CASE Environment
    BY <2>15 DEF Environment, Change, Signal, InputEnds, debugVars, outerVars, Replaying, choice
  <2>16. CASE Over \/ UNCHANGED vars
    BY <2>16 DEF Over, vars, debugVars, outerVars, Replaying
  <2> QED
    BY <2>1, <2>2, <2>3, <2>4, <2>5, <2>6, <2>7, <2>8, <2>9, <2>10, <2>11, <2>12, <2>13, <2>14,
       <2>15, <2>16 DEF Next, Program
<1> QED
  BY <1>1, <1>2, ConfigInvariance, PTL DEF Spec

\* A replayed run makes no call whatever else its configuration says, whether it
\* was parsed or put together on the screens.
THEOREM ReplayNeedsNoCluster == Spec => []ReplayStaysOffline
<1>1. OfflineInv => ReplayStaysOffline
  BY DEF OfflineInv, ReplayStaysOffline
<1> QED
  BY <1>1, OfflineInvariance, PTL
\* The phases before anything is read.
Before == {"start", "guide", "load", "connect"}

\* Nothing is read before the scope of a replay is checked, and what is read of a
\* replay afterwards is of that scope.
ScopeInv ==
    /\ phase \in Before => snapshot = [p \in Pods |-> 0]
    /\ Replaying /\ phase \notin Before \union {"over"} => SameScope(Saved, config)
    /\ ReplayShowsTheRunThatSavedIt

\* The saved Pods of a state of this scope are those this run would have seen.
LEMMA SavedPodsAreOfTheScope ==
    ASSUME SameScope(Saved, config)
    PROVE  /\ SavedPods = [p \in Pods |-> IF p \in InNamespace[config.namespace]
                                          THEN Saved.cluster[p] ELSE 0]
           /\ Saved.mode = config.mode
  BY DEF SameScope, SavedPods

\* Reading is what fills the snapshot, in phases that only a replay whose scope
\* was accepted gets to (app.go Run, snapshotForKeys).
LEMMA ScopeInvariance == Spec => []ScopeInv
<1>1. Init => ScopeInv
  <2>1. Init => phase = "start" /\ snapshot = [p \in Pods |-> 0]
    BY DEF Init
  <2> QED
    BY <2>1 DEF ScopeInv, ReplayShowsTheRunThatSavedIt, Before
<1>2. ScopeInv /\ [Next]_vars => ScopeInv'
  <2> SUFFICES ASSUME ScopeInv, [Next]_vars
               PROVE  ScopeInv'
    OBVIOUS
  <2>1. CASE (Start \/ LeaveGuide \/ GuideFails) /\ phase' \in {"guide", "load", "over"}
    <3>1. phase \in Before /\ UNCHANGED snapshot
      BY <2>1 DEF Start, LeaveGuide, GuideFails, choice, Before
    <3> QED
      BY <2>1, <3>1 DEF ScopeInv, ReplayShowsTheRunThatSavedIt, Before
  <2>2. CASE /\ UNCHANGED <<snapshot, config>>
             /\ \/ phase' = phase
                \/ phase = "load" /\ phase' = "connect"
                \/ phase' = "over"
                \/ /\ phase \notin Before \union {"over"}
                   /\ phase' \notin Before
                \/ phase = "connect" /\ (Replaying => SameScope(Saved, config))
    <3>1. ReplayShowsTheRunThatSavedIt'
      BY <2>2 DEF ScopeInv, ReplayShowsTheRunThatSavedIt, Replaying, Saved
    <3> QED
      BY <2>2, <3>1 DEF ScopeInv, Replaying, Saved, SameScope, Before
  <2>3. CASE Read /\ UNCHANGED config /\ phase \in {"first", "resolve"} /\ phase' \notin Before
    <3>1. Replaying => SameScope(Saved, config)
      BY <2>3 DEF ScopeInv, Before
    <3>2. Replaying => snapshot' = SavedPods
      BY <2>3 DEF Read
    <3>3. ReplayShowsTheRunThatSavedIt'
      BY <2>3, <3>1, <3>2, SavedPodsAreOfTheScope
         DEF ReplayShowsTheRunThatSavedIt, Replaying, Saved
    <3> QED
      BY <2>3, <3>1, <3>3 DEF ScopeInv, Replaying, Saved, SameScope
  <2>4. CASE Start \/ LeaveGuide \/ GuideFails
    BY <2>1, <2>4 DEF Start, LeaveGuide, GuideFails, GoTo, Exit
  <2>5. CASE Load \/ Replay \/ Connect
    BY <2>2, <2>5 DEF Load, Replay, Connect, GoTo, Exit, choice, world
  <2>6. CASE SelectPod \/ Diagnose \/ Resolve
    BY <2>3, <2>6 DEF SelectPod, Diagnose, Resolve, GoTo, Exit, world, Before
  <2>7. CASE Watch \/ List \/ Report
    BY <2>2, <2>7 DEF Watch, List, Report, GoTo, Exit, choice, world, Before
  <2>8. CASE LeaveScreen \/ ScreenFails \/ Forward \/ Refresh \/ ChooseWay \/ ConfirmDebug
    BY <2>2, <2>8 DEF LeaveScreen, ScreenFails, CloseScreen, Forward, Refresh, ChooseWay,
                      ConfirmDebug, GoTo, Exit,
                      choice, world, Before
  <2>9. CASE Recheck \/ Launch \/ Finish
    BY <2>2, <2>9 DEF Recheck, Launch, Finish, GoTo, Exit, choice, world, Before
  <2>10. CASE Screens \/ PodKeys \/ Environment
    BY <2>2, <2>10 DEF Screens, PodKeys, Environment, Change, Signal, InputEnds, choice
  <2>11. CASE Over \/ UNCHANGED vars
    BY <2>2, <2>11 DEF Over, vars
  <2> QED
    BY <2>4, <2>5, <2>6, <2>7, <2>8, <2>9, <2>10, <2>11 DEF Next, Program
<1> QED
  BY <1>1, <1>2, PTL DEF Spec

\* Whatever states are saved, a run that replays one of them sees just the Pods it
\* would itself have seen when it was saved.
THEOREM ReplayIsOfItsScope == Spec => []ReplayShowsTheRunThatSavedIt
<1>1. ScopeInv => ReplayShowsTheRunThatSavedIt
  BY DEF ScopeInv
<1> QED
  BY <1>1, ScopeInvariance, PTL

-----------------------------------------------------------------------------
(* The files of a run. *)

\* Only outputs that the configuration asks for are written, and none before it
\* is made.
WrittenInv ==
    /\ phase \in {"start", "guide"} => written = {}
    /\ written \subseteq {o \in Outputs : config[o] # ""}

\* A write adds outputs of the configuration.
LEMMA SavingAddsConfigured ==
    ASSUME NEW outputs, outputs \subseteq Outputs, WrittenInv, Saving(outputs),
           UNCHANGED config
    PROVE  written' \subseteq {o \in Outputs : config'[o] # ""}
  BY DEF Saving, WrittenInv

\* Every write is that of an output of the configuration, and the configuration
\* stays as it is after the first of them.
LEMMA WrittenInvariance == Spec => []WrittenInv
<1>1. Init => WrittenInv
  BY DEF Init, WrittenInv
<1>2. WrittenInv /\ [Next]_vars => WrittenInv'
  <2> SUFFICES ASSUME WrittenInv, [Next]_vars
               PROVE  WrittenInv'
    OBVIOUS
  <2>0. /\ {"save_cluster_snapshot"} \subseteq Outputs
        /\ {"save_cluster_snapshot", "history"} \subseteq Outputs
        /\ \A i \in DOMAIN ReportOrder : ReportOrder[i] \subseteq Outputs
        /\ ReportOrder[Len(ReportOrder)] \subseteq Outputs
    BY DEF Outputs, ReportOrder
  <2>1. CASE Start \/ LeaveGuide \/ GuideFails
    BY <2>1 DEF Start, LeaveGuide, GuideFails, GoTo, Exit, outerVars, WrittenInv
  <2>2. CASE UNCHANGED <<written, config>> /\ (phase' = phase \/ phase' \notin {"start", "guide"})
    BY <2>2 DEF WrittenInv
  <2>3. CASE Watch
    BY <2>0, <2>3 DEF Watch, GoTo, Exit, WrittenInv, world
  <2>4. CASE Diagnose
    <3>1. UNCHANGED config /\ phase' \notin {"start", "guide"}
      BY <2>4 DEF Diagnose, GoTo, Exit, world
    <3>2. UNCHANGED written \/ Saving({"save_cluster_snapshot"})
      BY <2>4 DEF Diagnose
    <3> QED
      BY <2>0, <3>1, <3>2, SavingAddsConfigured DEF WrittenInv
  <2>5. CASE Report
    <3>1. UNCHANGED config /\ phase' \notin {"start", "guide"}
      BY <2>5 DEF Report, GoTo, Exit, world
    <3>2. PICK outputs \in SUBSET Outputs : Saving(outputs)
      BY <2>0, <2>5 DEF Report
    <3> QED
      BY <3>1, <3>2, SavingAddsConfigured DEF WrittenInv
  <2>6. CASE Resolve
    <3>1. UNCHANGED config /\ phase' \notin {"start", "guide"}
      BY <2>6 DEF Resolve, GoTo, Exit, world
    <3>2. UNCHANGED written \/ Saving({"save_cluster_snapshot"})
      BY <2>6 DEF Resolve
    <3> QED
      BY <2>0, <3>1, <3>2, SavingAddsConfigured DEF WrittenInv
  <2>7. CASE Load \/ Replay \/ Connect \/ List \/ SelectPod
    BY <2>2, <2>7 DEF Load, Replay, Connect, List, SelectPod, GoTo, Exit, outerVars, world
  <2>8. CASE LeaveScreen \/ ScreenFails \/ Forward \/ Refresh \/ ChooseWay \/ ConfirmDebug
    BY <2>2, <2>8 DEF LeaveScreen, ScreenFails, CloseScreen, Forward, Refresh, ChooseWay,
                      ConfirmDebug, GoTo, Exit,
                      outerVars, world
  <2>9. CASE Recheck \/ Launch \/ Finish
    BY <2>2, <2>9 DEF Recheck, Launch, Finish, GoTo, Exit, outerVars, world
  <2>10. CASE Screens \/ PodKeys \/ Environment
    BY <2>2, <2>10 DEF Screens, PodKeys, Environment, Change, Signal, InputEnds, outerVars
  <2>11. CASE Over \/ UNCHANGED vars
    BY <2>2, <2>11 DEF Over, vars, outerVars
  <2> QED
    BY <2>1, <2>3, <2>4, <2>5, <2>6, <2>7, <2>8, <2>9, <2>10, <2>11 DEF Next, Program
<1> QED
  BY <1>1, <1>2, PTL DEF Spec

\* No default names a file to write.
LEMMA DefaultsWriteNothing == \A o \in Outputs : Defaults[o] = ""
<1>1. Defaults.output_file = "" /\ Defaults.save_snapshot = ""
  BY DEF Defaults
<1>2. Defaults.save_cluster_snapshot = "" /\ Defaults.history = ""
  BY DEF Defaults
<1> QED
  BY <1>1, <1>2 DEF Outputs

\* In a valid configuration an output that is written in place is not the file of
\* another option, and one that is renamed into place takes no entry of another:
\* an entry that two options share would lead both to one file.
LEMMA DistinctPathsSurvive ==
    ASSUME PathsKnown, NEW output \in Outputs, NEW other \in Outputs \union Inputs,
           other # output, config[output] # "", config[other] # "",
           ~SamePath(config, output, other)
    PROVE  LET path(option) == IF option = "history" THEN Home[config[option]]
                               ELSE config[option]
           IN  IF output = "history"
               THEN /\ Canonical[path(other)] # Canonical[path(output)]
                    /\ Canonical[path(output)] \in DOMAIN Inode =>
                           \A p \in DOMAIN Inode :
                               p = Canonical[path(other)] =>
                                   Inode[p] # Inode[Canonical[path(output)]]
               ELSE Entry[path(output)] \notin {Entry[path(other)], Canonical[path(other)]}
<1> DEFINE path(option) == IF option = "history" THEN Home[config[option]] ELSE config[option]
<1>1. path(output) \in DOMAIN Entry /\ path(other) \in DOMAIN Entry
  <2>1. Known(output, config[output]) /\ Known(other, config[other])
    BY DEF PathsKnown
  <2> QED
    BY <2>1 DEF Known
<1>2. /\ Canonical[path(output)] # Canonical[path(other)]
      /\ ~(/\ {Canonical[path(output)], Canonical[path(other)]} \subseteq DOMAIN Inode
           /\ Inode[Canonical[path(output)]] = Inode[Canonical[path(other)]])
  BY DEF SamePath
<1>3. Entry[path(output)] \notin {Entry[path(other)], Canonical[path(other)]}
  <2> HIDE DEF path
  <2> QED
    BY <1>1, <1>2, EntryAssumption DEF EntryAssumption
<1> HIDE DEF path
<1>4. /\ Canonical[path(other)] # Canonical[path(output)]
      /\ Canonical[path(output)] \in DOMAIN Inode =>
             \A p \in DOMAIN Inode :
                 p = Canonical[path(other)] => Inode[p] # Inode[Canonical[path(output)]]
  BY <1>2
<1> QED
  BY <1>3, <1>4 DEF path

-----------------------------------------------------------------------------
(* The settings, and what a profile makes of a configuration. *)

\* The settings of the catalog, section by section.
LEMMA SettingNames ==
    Settings = {"namespace", "context", "kubeconfig", "timeout", "qps", "burst", "page_size",
                "mode", "logs", "unused", "events_limit", "restart_threshold",
                "node_heartbeat_timeout", "watch", "workers", "log_signatures_file",
                "log_signature_lines", "connect", "connect_port", "connect_path",
                "debug", "image", "profile", "tail", "mask_secrets", "exit_zero",
                "show_commands", "show_api_requests", "output", "output_file",
                "save_snapshot", "diff", "baseline", "fail_on", "max_issues", "history",
                "window", "flap_threshold", "restart_growth", "retain", "webhook_url_env",
                "webhook_format", "webhook_timeout"}
<1>1. /\ ToSet(Catalog[1]) = {"namespace", "context", "kubeconfig", "timeout", "qps", "burst", "page_size"}
      /\ ToSet(Catalog[2]) = {"mode", "logs", "unused", "events_limit", "restart_threshold",
                              "node_heartbeat_timeout", "watch", "workers", "log_signatures_file",
                              "log_signature_lines"}
      /\ ToSet(Catalog[3]) = {"connect", "connect_port", "connect_path"}
      /\ ToSet(Catalog[4]) = {"debug", "image", "profile"}
  BY DEF ToSet, Catalog
<1>2. /\ ToSet(Catalog[5]) = {"tail", "mask_secrets", "exit_zero", "show_commands", "show_api_requests"}
      /\ ToSet(Catalog[6]) = {"output", "output_file", "save_snapshot", "diff", "baseline", "fail_on",
                              "max_issues"}
      /\ ToSet(Catalog[7]) = {"history", "window", "flap_threshold", "restart_growth", "retain"}
      /\ ToSet(Catalog[8]) = {"webhook_url_env", "webhook_format", "webhook_timeout"}
  BY DEF ToSet, Catalog
<1>3. DOMAIN Catalog = 1..8
  BY DEF Catalog
<1>4. Settings = ToSet(Catalog[1]) \union ToSet(Catalog[2]) \union ToSet(Catalog[3])
                 \union ToSet(Catalog[4]) \union ToSet(Catalog[5]) \union ToSet(Catalog[6])
                 \union ToSet(Catalog[7]) \union ToSet(Catalog[8])
  <2>1. 1..8 = {1, 2, 3, 4, 5, 6, 7, 8}
    OBVIOUS
  <2> QED
    BY <1>3, <2>1 DEF Settings
<1> QED
  BY <1>1, <1>2, <1>4

\* A configuration has a field for each setting and four more.
LEMMA FieldsOfDefaults ==
    /\ DOMAIN Defaults = Settings \union {"explicit", "file", "save_cluster_snapshot", "load_cluster_snapshot"}
    /\ "explicit" \notin Settings /\ "file" \notin Settings
    /\ "save_cluster_snapshot" \notin Settings /\ "load_cluster_snapshot" \notin Settings
<1>1. DOMAIN Defaults = Settings \union {"explicit", "file", "save_cluster_snapshot", "load_cluster_snapshot"}
  BY SettingNames DEF Defaults
<1> QED
  BY <1>1, SettingNames

\* The fields of a configuration.
Fields == DOMAIN Defaults

\* What a profile makes of a configuration: another mode, some values back to
\* their defaults, some settings explicit no longer.
Applied(p, c, mode, values, cleared) ==
    /\ DOMAIN p = Fields
    /\ p.mode = mode
    /\ p.explicit = c.explicit \ cleared
    /\ \A n \in Fields \ {"explicit", "mode"} : p[n] = IF n \in values THEN Defaults[n] ELSE c[n]

\* Reset takes the values back to their defaults, makes the cleared settings
\* explicit no longer, and leaves the rest.
LEMMA ResetIs ==
    ASSUME NEW c, DOMAIN c = Fields, NEW values, "explicit" \notin values, NEW cleared
    PROVE  /\ DOMAIN Reset(c, values, cleared) = Fields
           /\ Reset(c, values, cleared).explicit = c.explicit \ cleared
           /\ \A n \in Fields \ {"explicit"} :
                  Reset(c, values, cleared)[n] = IF n \in values THEN Defaults[n] ELSE c[n]
<1>1. "explicit" \in Fields
  BY FieldsOfDefaults DEF Fields
<1> QED
  BY <1>1 DEF Reset

\* Resetting what a profile made makes another one.
LEMMA ResetApplied ==
    ASSUME NEW p, NEW c, NEW mode, NEW values, NEW cleared, Applied(p, c, mode, values, cleared),
           NEW values2, NEW cleared2, {"explicit", "mode"} \intersect values2 = {}
    PROVE  Applied(Reset(p, values2, cleared2), c, mode, values \union values2, cleared \union cleared2)
<1> DEFINE r == Reset(p, values2, cleared2)
<1>1. DOMAIN p = Fields /\ "explicit" \notin values2
  BY DEF Applied
<1>2. /\ DOMAIN r = Fields /\ r.explicit = p.explicit \ cleared2
      /\ \A n \in Fields \ {"explicit"} : r[n] = IF n \in values2 THEN Defaults[n] ELSE p[n]
  BY <1>1, ResetIs
<1>3. "mode" \in Fields
  BY FieldsOfDefaults, SettingNames DEF Fields
<1> HIDE DEF r
<1>4. r.mode = mode
  BY <1>2, <1>3 DEF Applied
<1>5. r.explicit = c.explicit \ (cleared \union cleared2)
  BY <1>2 DEF Applied
<1>6. \A n \in Fields \ {"explicit", "mode"} :
          r[n] = IF n \in values \union values2 THEN Defaults[n] ELSE c[n]
  BY <1>2 DEF Applied
<1>7. Applied(r, c, mode, values \union values2, cleared \union cleared2)
  BY <1>2, <1>4, <1>5, <1>6 DEF Applied
<1> QED
  BY <1>7 DEF r

\* Setting the mode of a profile is all a profile does at first.
LEMMA ModeApplied ==
    ASSUME NEW c, DOMAIN c = Fields, NEW mode
    PROVE  Applied([Reset(c, {}, {"mode"}) EXCEPT !.mode = mode], c, mode, {}, {"mode"})
<1> DEFINE r == Reset(c, {}, {"mode"})
<1>1. /\ DOMAIN r = Fields /\ r.explicit = c.explicit \ {"mode"}
      /\ \A n \in Fields \ {"explicit"} : r[n] = c[n]
  BY ResetIs
<1>2. "mode" \in Fields
  BY FieldsOfDefaults, SettingNames DEF Fields
<1> HIDE DEF r
<1>3. Applied([r EXCEPT !.mode = mode], c, mode, {}, {"mode"})
  BY <1>1, <1>2 DEF Applied
<1> QED
  BY <1>3 DEF r

\* The settings that a mode takes back to their defaults.
Dismissed(c, mode) ==
    CASE mode = "all" -> Connection \union (IF c.logs THEN {} ELSE LogSettings)
      [] mode = "select" -> FullRunOnly
      [] mode = "list" ->
             FullRunOnly \union ListHasNone \union Connection \union Debugging \union LogSettings
      [] mode = "triage" -> {"logs", "unused"} \union Connection \union Debugging \union LogSettings

\* The settings that are explicit no longer in a mode.
Forsaken(c, mode) ==
    {"mode"} \union Dismissed(c, mode) \union (IF mode \in {"select", "list"} THEN Tuning ELSE {})

\* The modes of a run.
Modes == {"all", "select", "list", "triage"}

\* No mode takes itself back.
LEMMA NoModeDismissed ==
    ASSUME NEW c, NEW mode \in Modes
    PROVE  {"explicit", "mode"} \intersect Dismissed(c, mode) = {}
  BY DEF Dismissed, Connection, LogSettings, FullRunOnly, ListHasNone, Debugging, Modes

\* PrepareMode is the mode, the values it dismisses and the settings it forsakes.
LEMMA Prepared ==
    ASSUME NEW c, DOMAIN c = Fields, NEW mode \in Modes
    PROVE  Applied(PrepareMode(c, mode), c, mode, Dismissed(c, mode), Forsaken(c, mode))
<1> DEFINE m == [Reset(c, {}, {"mode"}) EXCEPT !.mode = mode]
           names == Dismissed(c, mode)
           r == Reset(m, names, names)
<1>1. Applied(m, c, mode, {}, {"mode"})
  BY ModeApplied
<1>2. Applied(r, c, mode, names, {"mode"} \union names)
  <2>1. {"explicit", "mode"} \intersect names = {}
    BY NoModeDismissed
  <2>2. {} \union names = names
    OBVIOUS
  <2> HIDE DEF m, names
  <2> QED
    BY <1>1, <2>1, <2>2, ResetApplied
<1>3. CASE mode = "all" \/ mode = "triage"
  <2>1. PrepareMode(c, mode) = r
    BY <1>3 DEF PrepareMode, Dismissed
  <2>2. Forsaken(c, mode) = {"mode"} \union names
    BY <1>3 DEF Forsaken
  <2> QED
    BY <1>2, <2>1, <2>2
<1>4. CASE mode = "select" \/ mode = "list"
  <2>1. PrepareMode(c, mode) = Reset(r, {}, Tuning)
    BY <1>4 DEF PrepareMode, Dismissed, Tuning
  <2>2. Forsaken(c, mode) = ({"mode"} \union names) \union Tuning
    BY <1>4 DEF Forsaken
  <2>3. Applied(Reset(r, {}, Tuning), c, mode, names \union {}, ({"mode"} \union names) \union Tuning)
    <3> HIDE DEF r, names
    <3> QED
      BY <1>2, ResetApplied
  <2>4. names \union {} = names
    OBVIOUS
  <2> QED
    BY <2>1, <2>2, <2>3, <2>4
<1> QED
  BY <1>3, <1>4 DEF Modes

\* A configuration that the settings file or the guide made: it has every field,
\* neither saves nor replays a cluster state, and its files have names.
WellFormed(c) ==
    /\ DOMAIN c = DOMAIN Defaults
    /\ c.explicit \subseteq Settings
    /\ c.save_cluster_snapshot = "" /\ c.load_cluster_snapshot = ""
    /\ c.logs \in BOOLEAN /\ c.watch \in Int
    /\ \A option \in Outputs \union Inputs : Known(option, c[option])

\* The defaults that the combinations of options are about.
LEMMA DefaultValues ==
    /\ Defaults.connect = FALSE /\ Defaults.connect_port = 0 /\ Defaults.connect_path = ""
    /\ Defaults.debug = FALSE /\ Defaults.image = "busybox:1.36" /\ Defaults.profile = "general"
    /\ Defaults.logs = FALSE /\ Defaults.unused = FALSE /\ Defaults.watch = 0
    /\ Defaults.output = "text" /\ Defaults.output_file = "" /\ Defaults.save_snapshot = ""
    /\ Defaults.diff = "" /\ Defaults.baseline = "" /\ Defaults.history = ""
    /\ Defaults.webhook_url_env = "" /\ Defaults.fail_on = "issue" /\ Defaults.max_issues = Unlimited
    /\ Defaults.log_signatures_file = "" /\ Defaults.kubeconfig = ""
    /\ Defaults.mask_secrets = TRUE /\ Defaults.exit_zero = FALSE /\ Defaults.show_api_requests = FALSE
    /\ Defaults.save_cluster_snapshot = "" /\ Defaults.load_cluster_snapshot = "" /\ Defaults.file = ""
    /\ ~Defaults.connect /\ ~Defaults.debug /\ ~Defaults.logs /\ ~Defaults.unused /\ ~Defaults.exit_zero
    /\ Defaults.mask_secrets
    /\ Defaults.explicit = {} /\ Defaults.mode = "all"
    /\ Defaults.namespace = "" /\ Defaults.webhook_format = "generic"
  BY DEF Defaults

\* The defaults that have a range.
LEMMA DefaultNumbers ==
    /\ Defaults.watch = 0 /\ Defaults.timeout = 15 /\ Defaults.qps = 10 /\ Defaults.burst = 20 /\ Defaults.page_size = 500
    /\ Defaults.events_limit = 20 /\ Defaults.restart_threshold = 5 /\ Defaults.node_heartbeat_timeout = 180
    /\ Defaults.workers = 4 /\ Defaults.log_signature_lines = 200 /\ Defaults.tail = 30
    /\ Defaults.window = 12 /\ Defaults.flap_threshold = 3 /\ Defaults.restart_growth = 3
    /\ Defaults.retain = 1000 /\ Defaults.webhook_timeout = 5
  BY DEF Defaults

\* No option of a default configuration names a file.
LEMMA DefaultPaths == \A option \in Outputs \union Inputs : option \in Fields /\ Defaults[option] = ""
<1>1. Outputs \union Inputs = {"output_file", "save_snapshot", "save_cluster_snapshot", "history", "file",
                              "diff", "load_cluster_snapshot", "baseline", "log_signatures_file", "kubeconfig"}
  BY DEF Outputs, Inputs
<1>2. Outputs \union Inputs \subseteq Fields
  BY <1>1, FieldsOfDefaults, SettingNames DEF Fields
<1>3. ASSUME NEW option \in Outputs \union Inputs
      PROVE  Defaults[option] = ""
  BY <1>1, DefaultValues, ZenonT(60)
<1> QED
  BY <1>2, <1>3

\* What every profile does: some values are the defaults, and what is explicit was
\* explicit before.
Plainer(p, c) ==
    /\ DOMAIN p = Fields
    /\ p.explicit \subseteq c.explicit
    /\ \A n \in Fields \ {"explicit", "mode", "logs", "unused", "connect", "debug", "show_commands", "output"} :
           p[n] \in {c[n], Defaults[n]}
    /\ p.window = c.window /\ p.flap_threshold = c.flap_threshold
    /\ "watch" \in p.explicit => p.watch = c.watch

\* A profile takes no number out of its range: each is one that was validated or
\* a default.
LEMMA PlainerRanges ==
    ASSUME NEW c, NEW p, Plainer(p, c), Ranges(c, {})
    PROVE  Ranges(p, {})
<1> DEFINE least == {"timeout", "events_limit", "tail", "log_signature_lines", "workers", "burst",
                     "node_heartbeat_timeout", "window", "flap_threshold", "restart_growth",
                     "retain", "webhook_timeout", "page_size", "qps"}
           others == {"namespace", "restart_threshold", "watch"}
<1>1. least \union others \subseteq Fields \ {"explicit", "mode", "logs", "unused", "connect", "debug", "show_commands", "output"}
  BY FieldsOfDefaults, SettingNames DEF Fields
<1>2. \A n \in least \union others : p[n] \in {c[n], Defaults[n]}
  <2> HIDE DEF least, others
  <2> QED
    BY <1>1 DEF Plainer
<1>3. \A n \in least : p[n] >= 1
  <2>1. ASSUME NEW n \in least
        PROVE  c[n] >= 1
    BY DEF Ranges
  <2>2. ASSUME NEW n \in least
        PROVE  Defaults[n] >= 1
    <3>1. /\ Defaults.timeout >= 1 /\ Defaults.events_limit >= 1 /\ Defaults.tail >= 1
          /\ Defaults.log_signature_lines >= 1 /\ Defaults.workers >= 1 /\ Defaults.burst >= 1
          /\ Defaults.node_heartbeat_timeout >= 1
      BY DefaultNumbers
    <3>2. /\ Defaults.window >= 1 /\ Defaults.flap_threshold >= 1 /\ Defaults.restart_growth >= 1
          /\ Defaults.retain >= 1 /\ Defaults.webhook_timeout >= 1 /\ Defaults.page_size >= 1
          /\ Defaults.qps >= 1
      BY DefaultNumbers
    <3> QED
      BY <3>1, <3>2
  <2> HIDE DEF least, others
  <2> QED
    BY <1>2, <2>1, <2>2
<1>4. p.namespace # "bad" /\ p.workers <= 16 /\ p.log_signature_lines <= 5000 /\ p.page_size <= 5000
  <2>1. /\ p.namespace \in {c.namespace, Defaults.namespace} /\ p.workers \in {c.workers, Defaults.workers}
        /\ p.log_signature_lines \in {c.log_signature_lines, Defaults.log_signature_lines}
        /\ p.page_size \in {c.page_size, Defaults.page_size}
    BY <1>2
  <2>2. c.namespace # "bad" /\ c.workers <= 16 /\ c.log_signature_lines <= 5000 /\ c.page_size <= 5000
    BY DEF Ranges
  <2>3. /\ Defaults.workers <= 16 /\ Defaults.log_signature_lines <= 5000
        /\ Defaults.page_size <= 5000
    BY DefaultNumbers
  <2>4. Defaults.namespace # "bad"
    BY DefaultValues, ZenonT(60)
  <2> QED
    BY <2>1, <2>2, <2>3, <2>4
<1>5. p.restart_threshold >= 0 /\ p.watch >= 0
  <2>1. /\ p.restart_threshold \in {c.restart_threshold, Defaults.restart_threshold}
        /\ p.watch \in {c.watch, Defaults.watch}
    BY <1>2 DEF Ranges
  <2>2. c.restart_threshold >= 0 /\ c.watch >= 0
    BY DEF Ranges
  <2>3. Defaults.restart_threshold >= 0 /\ Defaults.watch >= 0
    BY DefaultNumbers
  <2> QED
    BY <2>1, <2>2, <2>3
<1>6. Configured(p, {}, {"watch"}) => p.watch # 0
  BY DEF Plainer, Ranges, Configured
<1>7. p.window >= 2 /\ p.flap_threshold < p.window
  BY DEF Plainer, Ranges
<1> QED
  BY <1>3, <1>4, <1>5, <1>6, <1>7 DEF Ranges

\* A profile makes no two options name one file.
LEMMA PlainerPaths ==
    ASSUME NEW c, NEW p, Plainer(p, c), DistinctPaths(c)
    PROVE  DistinctPaths(p)
<1>1. \A option \in Outputs \union Inputs : p[option] = c[option] \/ p[option] = ""
  <2>1. \A option \in Outputs \union Inputs :
            option \notin {"explicit", "mode", "logs", "unused", "connect", "debug", "show_commands", "output"}
    BY DEF Outputs, Inputs
  <2> QED
    BY <2>1, DefaultPaths DEF Plainer
<1>2. ASSUME NEW left \in Outputs, NEW right \in Outputs \union Inputs,
             left # right, p[left] # "", p[right] # ""
      PROVE  ~SamePath(p, left, right)
  <2>1. p[left] = c[left] /\ p[right] = c[right]
    BY <1>1, <1>2
  <2>2. ~SamePath(c, left, right)
    BY <1>2, <2>1 DEF DistinctPaths
  <2> QED
    BY <2>1, <2>2 DEF SamePath
<1> QED
  BY <1>2 DEF DistinctPaths

\* Nothing asks a configuration of the guide to save or replay a cluster state.
LEMMA PlainerSnapshots ==
    ASSUME NEW c, NEW p, Plainer(p, c), WellFormed(c)
    PROVE  ClusterSnapshots(p, {})
<1>1. {"save_cluster_snapshot", "load_cluster_snapshot"} \subseteq Fields
  BY FieldsOfDefaults DEF Fields
<1>2. p.save_cluster_snapshot = "" /\ p.load_cluster_snapshot = ""
  BY <1>1, DefaultValues, ZenonT(60) DEF Plainer, WellFormed
<1> QED
  BY <1>2 DEF ClusterSnapshots

\* A profile keeps the form of a configuration.
LEMMA PlainerIsWellFormed ==
    ASSUME NEW c, NEW p, Plainer(p, c), p.logs \in BOOLEAN, WellFormed(c)
    PROVE  WellFormed(p)
<1> DEFINE some == {"save_cluster_snapshot", "load_cluster_snapshot", "watch"}
<1>1. some \subseteq Fields \ {"explicit", "mode", "logs", "unused", "connect", "debug", "show_commands", "output"}
  BY FieldsOfDefaults, SettingNames DEF Fields
<1>2. \A n \in some : p[n] \in {c[n], Defaults[n]}
  <2> HIDE DEF some
  <2> QED
    BY <1>1 DEF Plainer
<1>3. p.save_cluster_snapshot = "" /\ p.load_cluster_snapshot = ""
  BY <1>2, DefaultValues, ZenonT(60) DEF WellFormed
<1>4. p.watch \in Int
  <2>1. p.watch \in {c.watch, Defaults.watch} /\ Defaults.watch \in Int
    BY <1>2, DefaultNumbers
  <2> QED
    BY <2>1 DEF WellFormed
<1>5. \A option \in Outputs \union Inputs : Known(option, p[option])
  <2>1. \A option \in Outputs \union Inputs :
            option \notin {"explicit", "mode", "logs", "unused", "connect", "debug", "show_commands", "output"}
    BY DEF Outputs, Inputs
  <2>2. \A option \in Outputs \union Inputs : p[option] = c[option] \/ p[option] = ""
    BY <2>1, DefaultPaths DEF Plainer
  <2> QED
    BY <2>2 DEF WellFormed, Known
<1> QED
  BY <1>3, <1>4, <1>5 DEF Plainer, WellFormed, Fields

\* A configuration that the guide may go on with.
Sound(c) == WellFormed(c) /\ Validate(c, {})

-----------------------------------------------------------------------------
(* Every profile applies to every valid configuration. *)

\* Whatever is valid is valid for the whole cluster.
LEMMA AllIsValid ==
    ASSUME NEW c, WellFormed(c), Validate(c, {}), NEW p,
           Applied(p, c, "all", Dismissed(c, "all"), Forsaken(c, "all"))
    PROVE  Sound(p)
<1>0. /\ p.mode = "all" /\ p.explicit \subseteq c.explicit
      /\ ~p.connect /\ p.connect_port = 0 /\ p.connect_path = ""
      /\ ~c.logs => /\ p.log_signatures_file = ""
                    /\ {"log_signature_lines", "tail"} \intersect p.explicit = {}
  <2>1. Connection \subseteq Dismissed(c, "all") /\ (~c.logs => LogSettings \subseteq Dismissed(c, "all"))
    BY DEF Dismissed
  <2>2. Connection \union LogSettings \subseteq Fields \ {"explicit", "mode"}
    BY FieldsOfDefaults, SettingNames DEF Fields, Connection, LogSettings
  <2>3. Dismissed(c, "all") \subseteq Forsaken(c, "all")
    BY DEF Forsaken
  <2>4. p.connect = Defaults.connect /\ p.connect_port = Defaults.connect_port
        /\ p.connect_path = Defaults.connect_path
    BY <2>1, <2>2 DEF Applied, Connection
  <2>5. ~c.logs => p.log_signatures_file = Defaults.log_signatures_file
    BY <2>1, <2>2 DEF Applied, LogSettings
  <2>6. ~c.logs => {"log_signature_lines", "tail"} \intersect p.explicit = {}
    BY <2>1, <2>3 DEF Applied, LogSettings
  <2> QED
    BY <2>4, <2>5, <2>6, DefaultValues, ZenonT(60) DEF Applied
<1> DEFINE kept == {"debug", "image", "profile", "output", "watch", "mask_secrets", "output_file",
                    "save_snapshot", "diff", "fail_on", "max_issues", "exit_zero", "history", "logs",
                    "unused", "webhook_url_env", "webhook_format", "window", "flap_threshold"}
<1>1. \A n \in kept : p[n] = c[n]
  <2>1. kept \subseteq Fields \ {"explicit", "mode"}
    BY FieldsOfDefaults, SettingNames DEF Fields
  <2>2. kept \intersect Dismissed(c, "all") = {}
    BY DEF Dismissed, Connection, LogSettings
  <2> HIDE DEF kept
  <2> QED
    BY <2>1, <2>2 DEF Applied
<1>2. /\ p.debug = c.debug /\ p.image = c.image /\ p.profile = c.profile /\ p.output = c.output
      /\ p.watch = c.watch /\ p.mask_secrets = c.mask_secrets /\ p.output_file = c.output_file
      /\ p.save_snapshot = c.save_snapshot /\ p.diff = c.diff /\ p.fail_on = c.fail_on
      /\ p.max_issues = c.max_issues /\ p.exit_zero = c.exit_zero /\ p.history = c.history
      /\ p.logs = c.logs /\ p.unused = c.unused /\ p.webhook_url_env = c.webhook_url_env
      /\ p.webhook_format = c.webhook_format /\ p.window = c.window
      /\ p.flap_threshold = c.flap_threshold
  BY <1>1
<1>3. Plainer(p, c)
  BY <1>0, <1>2 DEF Plainer, Applied
<1>4. Ranges(p, {}) /\ DistinctPaths(p) /\ ClusterSnapshots(p, {})
  BY <1>3, PlainerRanges, PlainerPaths, PlainerSnapshots DEF Validate
<1>5. ConnectOptions(p)
  BY <1>0 DEF ConnectOptions
<1>6. DebugOptions(p, {})
  BY <1>0, <1>2 DEF DebugOptions, Validate, Configured
<1>7. LogOptions(p, {})
  BY <1>0, <1>2 DEF LogOptions, Validate, Configured
<1>8. ModeOptions(p, {})
  BY <1>0, <1>2 DEF ModeOptions, WholeCluster
<1>9. StructuredOutput(p, {})
  BY <1>0, <1>2 DEF StructuredOutput, WholeCluster, Validate, Configured
<1>10. Documents(p)
  BY <1>0, <1>2 DEF Documents, WholeCluster, Validate
<1>11. FailPolicy(p, {})
  BY <1>0, <1>2 DEF FailPolicy, WholeCluster, Validate, Configured
<1>12. HistoryOptions(p, {})
  BY <1>0, <1>2, <1>3 DEF HistoryOptions, WholeCluster, Validate, Configured
<1>13. WebhookOptions(p, {})
  BY <1>0, <1>2 DEF WebhookOptions, Validate, Configured
<1>20. Validate(p, {})
  BY <1>4, <1>5, <1>6, <1>7, <1>8, <1>9, <1>10, <1>11, <1>12, <1>13 DEF Validate
<1>21. p.logs \in BOOLEAN
  BY <1>0, <1>2 DEF WellFormed
<1> QED
  BY <1>3, <1>20, <1>21, PlainerIsWellFormed DEF Sound

\* Whatever is valid is valid for one Pod: every option that only a full run has
\* is dismissed.
LEMMA SelectIsValid ==
    ASSUME NEW c, WellFormed(c), Validate(c, {}), NEW p,
           Applied(p, c, "select", Dismissed(c, "select"), Forsaken(c, "select"))
    PROVE  Sound(p)
<1>0. /\ p.mode = "select" /\ p.explicit \subseteq c.explicit
      /\ p.logs = FALSE /\ ~p.unused /\ p.watch = 0 /\ p.output = "text" /\ p.output_file = ""
      /\ p.save_snapshot = "" /\ p.diff = "" /\ p.history = "" /\ p.webhook_url_env = ""
      /\ p.fail_on = "issue"
      /\ p.explicit \intersect (FullRunOnly \union Tuning) = {}
  <2>1. Dismissed(c, "select") = FullRunOnly
    BY DEF Dismissed
  <2>2. FullRunOnly \subseteq Fields \ {"explicit", "mode"}
    BY FieldsOfDefaults, SettingNames DEF Fields, FullRunOnly
  <2>3. FullRunOnly \union Tuning \subseteq Forsaken(c, "select")
    BY <2>1 DEF Forsaken
  <2>4. \A n \in FullRunOnly : p[n] = Defaults[n]
    BY <2>1, <2>2 DEF Applied
  <2>5. /\ p.logs = Defaults.logs /\ p.unused = Defaults.unused /\ p.watch = Defaults.watch
        /\ p.output = Defaults.output /\ p.output_file = Defaults.output_file
        /\ p.save_snapshot = Defaults.save_snapshot /\ p.diff = Defaults.diff
        /\ p.history = Defaults.history /\ p.webhook_url_env = Defaults.webhook_url_env
        /\ p.fail_on = Defaults.fail_on
    BY <2>4 DEF FullRunOnly
  <2>6. p.explicit \intersect (FullRunOnly \union Tuning) = {}
    BY <2>3 DEF Applied
  <2> QED
    BY <2>5, <2>6, DefaultValues, ZenonT(60) DEF Applied
<1> DEFINE kept == {"connect", "connect_port", "connect_path", "debug", "image", "profile",
                    "webhook_format", "window", "flap_threshold"}
<1>1. \A n \in kept : p[n] = c[n]
  <2>1. kept \subseteq Fields \ {"explicit", "mode"}
    BY FieldsOfDefaults, SettingNames DEF Fields
  <2>2. kept \intersect Dismissed(c, "select") = {}
    BY DEF Dismissed, FullRunOnly
  <2> HIDE DEF kept
  <2> QED
    BY <2>1, <2>2 DEF Applied
<1>2. /\ p.connect = c.connect /\ p.connect_port = c.connect_port /\ p.connect_path = c.connect_path
      /\ p.debug = c.debug /\ p.image = c.image /\ p.profile = c.profile
      /\ p.webhook_format = c.webhook_format /\ p.window = c.window
      /\ p.flap_threshold = c.flap_threshold
  BY <1>1
<1>3. Plainer(p, c)
  BY <1>0, <1>2 DEF Plainer, Applied, FullRunOnly
<1>4. Ranges(p, {}) /\ DistinctPaths(p) /\ ClusterSnapshots(p, {})
  BY <1>3, PlainerRanges, PlainerPaths, PlainerSnapshots DEF Validate
<1>5. ConnectOptions(p)
  BY <1>0, <1>2 DEF ConnectOptions, Validate
<1>6. DebugOptions(p, {})
  BY <1>0, <1>2 DEF DebugOptions, Validate, Configured
<1>7. LogOptions(p, {})
  BY <1>0 DEF LogOptions
<1> DEFINE gone == {"node_heartbeat_timeout", "fail_on", "max_issues", "window", "flap_threshold",
                    "restart_growth", "retain", "webhook_format", "webhook_timeout"}
<1>8. \A names : names \subseteq gone => ~Configured(p, {}, names)
  <2>1. gone \subseteq FullRunOnly \union Tuning
    BY DEF FullRunOnly, Tuning, HistoryTuning, WebhookTuning
  <2> HIDE DEF gone
  <2> QED
    BY <1>0, <2>1 DEF Configured
<1>9. ~(p.watch > 0)
  <2>1. p.watch = 0
    BY <1>0
  <2> QED
    BY <2>1
<1>10. ModeOptions(p, {})
  BY <1>0, <1>8, <1>9 DEF ModeOptions
<1>11. StructuredOutput(p, {})
  BY <1>0 DEF StructuredOutput
<1>12. Documents(p)
  BY <1>0 DEF Documents
<1>13. FailPolicy(p, {})
  BY <1>0, <1>8, <1>9 DEF FailPolicy
<1>14. HistoryOptions(p, {})
  BY <1>0, <1>8 DEF HistoryOptions
<1>15. WebhookOptions(p, {})
  BY <1>0, <1>2, <1>8 DEF WebhookOptions, Validate
<1>20. Validate(p, {})
  BY <1>4, <1>5, <1>6, <1>7, <1>10, <1>11, <1>12, <1>13, <1>14, <1>15 DEF Validate
<1>21. p.logs \in BOOLEAN
  BY <1>0 DEF WellFormed
<1> QED
  BY <1>3, <1>20, <1>21, PlainerIsWellFormed DEF Sound

\* Whatever is valid is valid for the list, which has none of the options that
\* diagnose, connect or debug.
LEMMA ListIsValid ==
    ASSUME NEW c, WellFormed(c), Validate(c, {}), NEW p,
           Applied(p, c, "list", Dismissed(c, "list"), Forsaken(c, "list"))
    PROVE  Sound(p)
<1> DEFINE names0 == FullRunOnly \union ListHasNone \union Connection \union Debugging \union LogSettings
<1>0. /\ p.mode = "list" /\ p.explicit \subseteq c.explicit
      /\ p.logs = FALSE /\ ~p.unused /\ p.watch = 0 /\ p.output = "text" /\ p.output_file = ""
      /\ p.save_snapshot = "" /\ p.diff = "" /\ p.history = "" /\ p.webhook_url_env = ""
      /\ p.fail_on = "issue" /\ p.baseline = "" /\ ~p.connect /\ p.connect_port = 0
      /\ p.connect_path = "" /\ ~p.debug /\ p.log_signatures_file = ""
      /\ p.explicit \intersect (names0 \union Tuning) = {}
  <2>1. Dismissed(c, "list") = names0
    BY DEF Dismissed
  <2>2. names0 \subseteq Fields \ {"explicit", "mode"}
    BY FieldsOfDefaults, SettingNames
       DEF Fields, FullRunOnly, ListHasNone, Connection, Debugging, LogSettings
  <2>3. names0 \union Tuning \subseteq Forsaken(c, "list")
    BY <2>1 DEF Forsaken
  <2>4. \A n \in names0 : p[n] = Defaults[n]
    <3> HIDE DEF names0
    <3> QED
      BY <2>1, <2>2 DEF Applied
  <2>5. /\ p.logs = Defaults.logs /\ p.unused = Defaults.unused /\ p.watch = Defaults.watch
        /\ p.output = Defaults.output /\ p.output_file = Defaults.output_file
        /\ p.save_snapshot = Defaults.save_snapshot /\ p.diff = Defaults.diff
        /\ p.history = Defaults.history /\ p.webhook_url_env = Defaults.webhook_url_env
        /\ p.fail_on = Defaults.fail_on
    BY <2>4 DEF FullRunOnly
  <2>6. /\ p.baseline = Defaults.baseline /\ p.connect = Defaults.connect
        /\ p.connect_port = Defaults.connect_port /\ p.connect_path = Defaults.connect_path
        /\ p.debug = Defaults.debug /\ p.log_signatures_file = Defaults.log_signatures_file
    BY <2>4 DEF ListHasNone, Connection, Debugging, LogSettings
  <2>7. p.explicit \intersect (names0 \union Tuning) = {}
    <3> HIDE DEF names0
    <3> QED
      BY <2>3 DEF Applied
  <2>8. p.mode = "list" /\ p.explicit \subseteq c.explicit
    BY DEF Applied
  <2>9. /\ p.logs = FALSE /\ ~p.unused /\ p.watch = 0 /\ p.output = "text" /\ p.output_file = ""
        /\ p.save_snapshot = "" /\ p.diff = "" /\ p.history = "" /\ p.webhook_url_env = ""
        /\ p.fail_on = "issue"
    BY <2>5, DefaultValues, ZenonT(60)
  <2>10. /\ p.baseline = "" /\ ~p.connect /\ p.connect_port = 0
         /\ p.connect_path = "" /\ ~p.debug /\ p.log_signatures_file = ""
    BY <2>6, DefaultValues, ZenonT(60)
  <2> QED
    BY <2>7, <2>8, <2>9, <2>10
<1>2. p.webhook_format = c.webhook_format /\ p.window = c.window /\ p.flap_threshold = c.flap_threshold
  <2> DEFINE kept == {"webhook_format", "window", "flap_threshold"}
  <2>1. kept \subseteq Fields \ {"explicit", "mode"}
    BY FieldsOfDefaults, SettingNames DEF Fields
  <2>2. kept \intersect Dismissed(c, "list") = {}
    BY DEF Dismissed, FullRunOnly, ListHasNone, Connection, Debugging, LogSettings
  <2>3. \A n \in kept : p[n] = c[n]
    <3> HIDE DEF kept
    <3> QED
      BY <2>1, <2>2 DEF Applied
  <2> QED
    BY <2>3
<1>3. Plainer(p, c)
  BY <1>0, <1>2 DEF Plainer, Applied, FullRunOnly
<1>4. Ranges(p, {}) /\ DistinctPaths(p) /\ ClusterSnapshots(p, {})
  BY <1>3, PlainerRanges, PlainerPaths, PlainerSnapshots DEF Validate
<1> DEFINE gone == {"node_heartbeat_timeout", "fail_on", "max_issues", "window", "flap_threshold",
                    "restart_growth", "retain", "webhook_format", "webhook_timeout", "image", "profile",
                    "log_signature_lines", "tail", "events_limit", "restart_threshold", "exit_zero"}
<1>8. \A names : names \subseteq gone => ~Configured(p, {}, names)
  <2>1. gone \subseteq names0 \union Tuning
    BY DEF FullRunOnly, ListHasNone, Debugging, LogSettings, Tuning, HistoryTuning, WebhookTuning
  <2> HIDE DEF gone, names0
  <2> QED
    BY <1>0, <2>1 DEF Configured
<1> HIDE DEF names0
<1>5. ConnectOptions(p)
  BY <1>0 DEF ConnectOptions
<1>6. DebugOptions(p, {})
  BY <1>0, <1>8 DEF DebugOptions
<1>7. LogOptions(p, {})
  BY <1>0, <1>8 DEF LogOptions
<1>9. ~(p.watch > 0)
  <2>1. p.watch = 0
    BY <1>0
  <2> QED
    BY <2>1
<1>10. ModeOptions(p, {})
  BY <1>0, <1>8, <1>9 DEF ModeOptions
<1>11. StructuredOutput(p, {})
  BY <1>0 DEF StructuredOutput
<1>12. Documents(p)
  BY <1>0 DEF Documents
<1>13. FailPolicy(p, {})
  BY <1>0, <1>8, <1>9 DEF FailPolicy
<1>14. HistoryOptions(p, {})
  BY <1>0, <1>8 DEF HistoryOptions
<1>15. WebhookOptions(p, {})
  BY <1>0, <1>2, <1>8 DEF WebhookOptions, Validate
<1>20. Validate(p, {})
  BY <1>4, <1>5, <1>6, <1>7, <1>10, <1>11, <1>12, <1>13, <1>14, <1>15 DEF Validate
<1>21. p.logs \in BOOLEAN
  BY <1>0 DEF WellFormed
<1> QED
  BY <1>3, <1>20, <1>21, PlainerIsWellFormed DEF Sound

\* Whatever is valid is valid for the triage.
LEMMA TriageIsValid ==
    ASSUME NEW c, WellFormed(c), Validate(c, {}), NEW p,
           Applied(p, c, "triage", Dismissed(c, "triage"), Forsaken(c, "triage"))
    PROVE  Sound(p)
<1> DEFINE names == {"logs", "unused"} \union Connection \union Debugging \union LogSettings
<1>0. /\ p.mode = "triage" /\ p.explicit \subseteq c.explicit
      /\ p.logs = FALSE /\ ~p.unused /\ ~p.connect /\ p.connect_port = 0 /\ p.connect_path = ""
      /\ ~p.debug /\ p.log_signatures_file = ""
      /\ p.explicit \intersect names = {}
  <2>1. Dismissed(c, "triage") = names
    BY DEF Dismissed
  <2>2. names \subseteq Fields \ {"explicit", "mode"}
    BY FieldsOfDefaults, SettingNames DEF Fields, Connection, Debugging, LogSettings
  <2>3. names \subseteq Forsaken(c, "triage")
    BY <2>1 DEF Forsaken
  <2>4. \A n \in names : p[n] = Defaults[n]
    <3> HIDE DEF names
    <3> QED
      BY <2>1, <2>2 DEF Applied
  <2>5. /\ p.logs = Defaults.logs /\ p.unused = Defaults.unused /\ p.connect = Defaults.connect
        /\ p.connect_port = Defaults.connect_port /\ p.connect_path = Defaults.connect_path
        /\ p.debug = Defaults.debug /\ p.log_signatures_file = Defaults.log_signatures_file
    BY <2>4 DEF Connection, Debugging, LogSettings
  <2>6. p.explicit \intersect names = {}
    <3> HIDE DEF names
    <3> QED
      BY <2>3 DEF Applied
  <2> QED
    BY <2>5, <2>6, DefaultValues, ZenonT(60) DEF Applied
<1> DEFINE kept == {"output", "watch", "mask_secrets", "output_file",
                    "save_snapshot", "diff", "fail_on", "max_issues", "exit_zero", "history",
                    "webhook_url_env", "webhook_format", "window", "flap_threshold"}
<1>1. \A n \in kept : p[n] = c[n]
  <2>1. kept \subseteq Fields \ {"explicit", "mode"}
    BY FieldsOfDefaults, SettingNames DEF Fields
  <2>2. kept \intersect Dismissed(c, "triage") = {}
    BY DEF Dismissed, Connection, Debugging, LogSettings
  <2> HIDE DEF kept
  <2> QED
    BY <2>1, <2>2 DEF Applied
<1>2. /\ p.output = c.output
      /\ p.watch = c.watch /\ p.mask_secrets = c.mask_secrets /\ p.output_file = c.output_file
      /\ p.save_snapshot = c.save_snapshot /\ p.diff = c.diff /\ p.fail_on = c.fail_on
      /\ p.max_issues = c.max_issues /\ p.exit_zero = c.exit_zero /\ p.history = c.history
      /\ p.webhook_url_env = c.webhook_url_env
      /\ p.webhook_format = c.webhook_format /\ p.window = c.window
      /\ p.flap_threshold = c.flap_threshold
  BY <1>1
<1>3. Plainer(p, c)
  BY <1>0, <1>2 DEF Plainer, Applied
<1>4. Ranges(p, {}) /\ DistinctPaths(p) /\ ClusterSnapshots(p, {})
  BY <1>3, PlainerRanges, PlainerPaths, PlainerSnapshots DEF Validate
<1> DEFINE gone == {"image", "profile", "log_signature_lines", "tail"}
<1>5. \A some : some \subseteq gone => ~Configured(p, {}, some)
  <2>1. gone \subseteq names
    BY DEF Debugging, LogSettings
  <2> HIDE DEF gone, names
  <2> QED
    BY <1>0, <2>1 DEF Configured
<1> HIDE DEF names
<1>6. ConnectOptions(p)
  BY <1>0 DEF ConnectOptions
<1>7. DebugOptions(p, {})
  BY <1>0, <1>5 DEF DebugOptions
<1>8. LogOptions(p, {})
  BY <1>0, <1>5 DEF LogOptions
<1>9. ModeOptions(p, {})
  BY <1>0, <1>2 DEF ModeOptions, WholeCluster
<1>10. StructuredOutput(p, {})
  BY <1>0, <1>2 DEF StructuredOutput, WholeCluster, Validate, Configured
<1>11. Documents(p)
  BY <1>0, <1>2 DEF Documents, WholeCluster, Validate
<1>12. FailPolicy(p, {})
  BY <1>0, <1>2 DEF FailPolicy, WholeCluster, Validate, Configured
<1>13. HistoryOptions(p, {})
  BY <1>0, <1>2, <1>3 DEF HistoryOptions, WholeCluster, Validate, Configured
<1>14. WebhookOptions(p, {})
  BY <1>0, <1>2 DEF WebhookOptions, Validate, Configured
<1>20. Validate(p, {})
  BY <1>4, <1>6, <1>7, <1>8, <1>9, <1>10, <1>11, <1>12, <1>13, <1>14 DEF Validate
<1>21. p.logs \in BOOLEAN
  BY <1>0 DEF WellFormed
<1> QED
  BY <1>3, <1>20, <1>21, PlainerIsWellFormed DEF Sound

\* What clearOneShotAutomation takes back, and what it makes inexplicit.
Unattended == {"watch", "save_snapshot", "diff", "history", "webhook_url_env"}

\* clearOneShotAutomation is a further reset.
LEMMA OneShotApplied ==
    ASSUME NEW p, NEW c, NEW mode, NEW values, NEW cleared, Applied(p, c, mode, values, cleared)
    PROVE  Applied(OneShot(p), c, mode, values \union Unattended,
                   cleared \union (Unattended \union HistoryTuning \union WebhookTuning))
<1>1. {"explicit", "mode"} \intersect Unattended = {}
  BY DEF Unattended
<1>2. OneShot(p) = Reset(p, Unattended, Unattended \union HistoryTuning \union WebhookTuning)
  BY DEF OneShot, Unattended
<1> QED
  BY <1>1, <1>2, ResetApplied

\* Without the deep profile the logs stay as they are.
LEMMA NotDeeper ==
    ASSUME NEW c, WellFormed(c), NEW mode \in Modes
    PROVE  LET same == [c EXCEPT !.logs = @ \/ FALSE]
           IN  Applied(PrepareMode(same, mode), c, mode, Dismissed(c, mode), Forsaken(c, mode))
<1> DEFINE same == [c EXCEPT !.logs = @ \/ FALSE]
<1>1. DOMAIN same = Fields
  BY DEF WellFormed, Fields
<1>2. same.logs = c.logs
  <2>1. (c.logs \/ FALSE) = c.logs
    BY DEF WellFormed
  <2>2. "logs" \in Fields
    BY FieldsOfDefaults, SettingNames DEF Fields
  <2> QED
    BY <2>1, <2>2 DEF WellFormed, Fields
<1>3. \A n \in Fields : same[n] = c[n]
  BY <1>2 DEF WellFormed, Fields
<1>4. "explicit" \in Fields
  BY FieldsOfDefaults DEF Fields
<1> HIDE DEF same
<1>5. Dismissed(same, mode) = Dismissed(c, mode) /\ Forsaken(same, mode) = Forsaken(c, mode)
  BY <1>2 DEF Dismissed, Forsaken
<1>6. Applied(PrepareMode(same, mode), same, mode, Dismissed(c, mode), Forsaken(c, mode))
  BY <1>1, <1>5, Prepared
<1>7. Applied(PrepareMode(same, mode), c, mode, Dismissed(c, mode), Forsaken(c, mode))
  BY <1>3, <1>4, <1>6 DEF Applied
<1> QED
  BY <1>7 DEF same

\* The command words that are a mode of their own.
PlainCommands == {"all", "pod", "list", "triage"}

\* The command word of a mode does what PrepareMode does and nothing more.
LEMMA PlainCommand ==
    ASSUME NEW c, WellFormed(c), NEW command \in PlainCommands
    PROVE  /\ ModeOf[command] \in Modes
           /\ Applied(Profile(c, command), c, ModeOf[command], Dismissed(c, ModeOf[command]),
                      Forsaken(c, ModeOf[command]))
<1>1. ModeOf[command] \in Modes
  BY DEF ModeOf, Modes, PlainCommands
<1>2. Profile(c, command) = PrepareMode([c EXCEPT !.logs = @ \/ FALSE], ModeOf[command])
  <2>1. command # "deep" /\ command # "quick" /\ command # "ci"
    BY DEF PlainCommands
  <2>2. (command = "deep") = FALSE
    BY <2>1
  <2> QED
    BY <2>1, <2>2 DEF Profile
<1> QED
  BY <1>1, <1>2, NotDeeper

\* The command words that are for another program to run.
Unasked == {"output", "output_file", "mask_secrets", "show_commands", "show_api_requests",
            "exit_zero", "fail_on", "max_issues"}

\* quick and ci are the triage without automation, with the output and the failure
\* policy back at their defaults; ci writes JSON.
LEMMA UnattendedCommand ==
    ASSUME NEW c, WellFormed(c), NEW command \in {"quick", "ci"}
    PROVE  \E q, cleared :
              /\ Applied(q, c, "triage", Dismissed(c, "triage") \union Unattended \union Unasked, cleared)
              /\ Dismissed(c, "triage") \union Unattended \union HistoryTuning \union WebhookTuning
                     \union Unasked \subseteq cleared
              /\ command = "ci" => "events_limit" \in cleared
              /\ Profile(c, command) = IF command = "ci"
                                       THEN [q EXCEPT !.show_commands = FALSE, !.output = "json"]
                                       ELSE [q EXCEPT !.show_commands = FALSE]
<1> DEFINE m == PrepareMode([c EXCEPT !.logs = @ \/ FALSE], "triage")
           values == Dismissed(c, "triage")
           forgotten == Forsaken(c, "triage") \union (Unattended \union HistoryTuning \union WebhookTuning)
           also == IF command = "ci" THEN Unasked \union {"events_limit"} ELSE Unasked
           q == Reset(OneShot(m), Unasked, also)
<1>1. Applied(m, c, "triage", values, Forsaken(c, "triage"))
  <2>1. "triage" \in Modes
    BY DEF Modes
  <2> QED
    BY <2>1, NotDeeper
<1> HIDE DEF m, values, also
<1>2. Applied(OneShot(m), c, "triage", values \union Unattended, forgotten)
  BY <1>1, OneShotApplied
<1>3. Applied(q, c, "triage", (values \union Unattended) \union Unasked, forgotten \union also)
  <2>1. {"explicit", "mode"} \intersect Unasked = {}
    BY DEF Unasked
  <2> HIDE DEF forgotten
  <2> QED
    BY <1>2, <2>1, ResetApplied
<1>4. values \subseteq Forsaken(c, "triage")
  BY DEF Forsaken, values
<1>5. Unasked \subseteq also /\ (command = "ci" => "events_limit" \in also)
  BY DEF also
<1>6. Profile(c, command) = IF command = "ci" THEN [q EXCEPT !.show_commands = FALSE, !.output = "json"]
                            ELSE [q EXCEPT !.show_commands = FALSE]
  <2>1. (command = "deep") = FALSE /\ ModeOf[command] = "triage"
    BY DEF ModeOf
  <2>2. Unasked = {"output", "output_file"} \union {"mask_secrets", "show_commands", "show_api_requests", "exit_zero",
                                "fail_on", "max_issues"}
    BY DEF Unasked
  <2>3. CASE command = "quick"
    BY <2>1, <2>2, <2>3 DEF Profile, m, also
  <2>4. CASE command = "ci"
    BY <2>1, <2>2, <2>4 DEF Profile, m, also
  <2> QED
    BY <2>3, <2>4
<1> WITNESS q, forgotten \union also
<1> QED
  BY <1>3, <1>4, <1>5, <1>6 DEF values

\* quick and ci make a valid configuration of every valid one.
LEMMA UnattendedIsValid ==
    ASSUME NEW c, WellFormed(c), Validate(c, {}), NEW command \in {"quick", "ci"}
    PROVE  Sound(Profile(c, command))
<1> DEFINE p == Profile(c, command)
           others == {"logs", "unused"} \union Connection \union Debugging \union LogSettings
           values == others \union Unattended \union Unasked
<1>1. PICK q, cleared :
              /\ Applied(q, c, "triage", Dismissed(c, "triage") \union Unattended \union Unasked, cleared)
              /\ Dismissed(c, "triage") \union Unattended \union HistoryTuning \union WebhookTuning
                     \union Unasked \subseteq cleared
              /\ command = "ci" => "events_limit" \in cleared
              /\ Profile(c, command) = IF command = "ci"
                                       THEN [q EXCEPT !.show_commands = FALSE, !.output = "json"]
                                       ELSE [q EXCEPT !.show_commands = FALSE]
  BY UnattendedCommand
<1>2. Dismissed(c, "triage") = others
  BY DEF Dismissed
<1>3. Applied(q, c, "triage", values, cleared)
  BY <1>1, <1>2
<1>4. values \union HistoryTuning \union WebhookTuning \subseteq cleared
  BY <1>1, <1>2
<1>5. /\ DOMAIN p = Fields
      /\ \A n \in Fields \ {"show_commands", "output"} : p[n] = q[n]
      /\ command = "quick" => p.output = q.output
      /\ command = "ci" => p.output = "json"
  <2>1. DOMAIN q = Fields /\ "output" \in Fields /\ "show_commands" \in Fields
    BY <1>3, FieldsOfDefaults, SettingNames DEF Applied, Fields
  <2>2. CASE command = "ci"
    BY <1>1, <2>1, <2>2
  <2>3. CASE command = "quick"
    BY <1>1, <2>1, <2>3
  <2> QED
    BY <2>2, <2>3
<1> HIDE DEF p
<1>6. p.explicit = c.explicit \ cleared /\ p.mode = "triage"
  BY <1>3, <1>5, FieldsOfDefaults, SettingNames DEF Applied, Fields
<1>7. \A n \in values \ {"show_commands", "output"} : p[n] = Defaults[n]
  <2>1. values \subseteq Fields \ {"explicit", "mode"}
    BY FieldsOfDefaults, SettingNames
       DEF Fields, Connection, Debugging, LogSettings, Unattended, Unasked
  <2> HIDE DEF values
  <2> QED
    BY <1>3, <1>5, <2>1 DEF Applied
<1>8. \A n \in Fields \ (values \union {"explicit", "mode", "show_commands", "output"}) : p[n] = c[n]
  <2> HIDE DEF values
  <2> QED
    BY <1>3, <1>5 DEF Applied
<1>9. p.output \in {"text", "json"} /\ (command = "quick" => p.output = "text")
  <2>1. q.output = Defaults.output
    <3>1. "output" \in values /\ "output" \in Fields \ {"explicit", "mode"}
      BY FieldsOfDefaults, SettingNames DEF Fields, Unasked
    <3> HIDE DEF values
    <3> QED
      BY <1>3, <3>1 DEF Applied
  <2> QED
    BY <1>5, <2>1, DefaultValues, ZenonT(60)
<1>10. /\ p.logs = FALSE /\ ~p.unused /\ ~p.connect /\ p.connect_port = 0 /\ p.connect_path = ""
       /\ ~p.debug /\ p.log_signatures_file = "" /\ p.watch = 0 /\ p.save_snapshot = ""
       /\ p.diff = "" /\ p.history = "" /\ p.webhook_url_env = "" /\ p.output_file = ""
       /\ p.mask_secrets /\ ~p.exit_zero /\ p.fail_on = "issue"
  <2>1. {"logs", "unused", "connect", "connect_port", "connect_path", "debug", "log_signatures_file"}
            \subseteq values \ {"show_commands", "output"}
    BY DEF Connection, Debugging, LogSettings
  <2>2. {"watch", "save_snapshot", "diff", "history", "webhook_url_env", "output_file", "mask_secrets",
         "exit_zero", "fail_on"} \subseteq values \ {"show_commands", "output"}
    BY DEF Unattended, Unasked
  <2> HIDE DEF values
  <2>3. /\ p.logs = Defaults.logs /\ p.unused = Defaults.unused /\ p.connect = Defaults.connect
        /\ p.connect_port = Defaults.connect_port /\ p.connect_path = Defaults.connect_path
        /\ p.debug = Defaults.debug /\ p.log_signatures_file = Defaults.log_signatures_file
    BY <1>7, <2>1
  <2>4. /\ p.watch = Defaults.watch /\ p.save_snapshot = Defaults.save_snapshot
        /\ p.diff = Defaults.diff /\ p.history = Defaults.history
        /\ p.webhook_url_env = Defaults.webhook_url_env /\ p.output_file = Defaults.output_file
        /\ p.mask_secrets = Defaults.mask_secrets /\ p.exit_zero = Defaults.exit_zero
        /\ p.fail_on = Defaults.fail_on
    BY <1>7, <2>2
  <2>5. /\ p.logs = FALSE /\ ~p.unused /\ ~p.connect /\ p.connect_port = 0 /\ p.connect_path = ""
        /\ ~p.debug /\ p.log_signatures_file = ""
    BY <2>3, DefaultValues, ZenonT(60)
  <2>6. /\ p.watch = 0 /\ p.save_snapshot = "" /\ p.diff = "" /\ p.history = ""
        /\ p.webhook_url_env = "" /\ p.output_file = "" /\ p.fail_on = "issue"
    BY <2>4, DefaultValues, ZenonT(60)
  <2>7. p.mask_secrets /\ ~p.exit_zero
    BY <2>4, DefaultValues, ZenonT(60)
  <2> QED
    BY <2>5, <2>6, <2>7
<1>11. p.webhook_format = c.webhook_format /\ p.window = c.window /\ p.flap_threshold = c.flap_threshold
  <2>1. {"webhook_format", "window", "flap_threshold"}
            \subseteq Fields \ (values \union {"explicit", "mode", "show_commands", "output"})
    BY FieldsOfDefaults, SettingNames
       DEF Fields, Connection, Debugging, LogSettings, Unattended, Unasked
  <2> HIDE DEF values
  <2> QED
    BY <1>8, <2>1
<1> DEFINE gone == {"image", "profile", "log_signature_lines", "tail", "fail_on", "max_issues",
                    "window", "flap_threshold", "restart_growth", "retain", "webhook_format",
                    "webhook_timeout", "show_commands", "show_api_requests"}
<1>12. \A some : some \subseteq gone => ~Configured(p, {}, some)
  <2>1. gone \subseteq values \union HistoryTuning \union WebhookTuning
    BY DEF Debugging, LogSettings, Unasked, HistoryTuning, WebhookTuning
  <2> HIDE DEF gone, values
  <2> QED
    BY <1>4, <1>6, <2>1 DEF Configured
<1>13. Plainer(p, c)
  <2>1. "watch" \notin p.explicit
    <3>1. "watch" \in values
      BY DEF Unattended
    <3> HIDE DEF values
    <3> QED
      BY <1>4, <1>6, <3>1
  <2>2. \A n \in Fields \ {"explicit", "mode", "logs", "unused", "show_commands", "output"} :
            p[n] \in {c[n], Defaults[n]}
    <3> HIDE DEF values
    <3> QED
      BY <1>7, <1>8
  <2> HIDE DEF values
  <2> QED
    BY <1>5, <1>6, <1>11, <2>1, <2>2 DEF Plainer
<1>14. Ranges(p, {}) /\ DistinctPaths(p) /\ ClusterSnapshots(p, {})
  BY <1>13, PlainerRanges, PlainerPaths, PlainerSnapshots DEF Validate
<1>15. p.output # "text" => ~Configured(p, {}, {"show_commands", "show_api_requests", "tail", "events_limit"})
  <2> SUFFICES ASSUME p.output # "text"
               PROVE  ~Configured(p, {}, {"show_commands", "show_api_requests", "tail", "events_limit"})
    OBVIOUS
  <2>1. "events_limit" \notin p.explicit
    BY <1>1, <1>6, <1>9
  <2>2. ~Configured(p, {}, {"show_commands", "show_api_requests", "tail"})
    BY <1>12
  <2> QED
    BY <2>1, <2>2 DEF Configured
<1> HIDE DEF values, gone
<1>16. /\ ~Configured(p, {}, {"image", "profile"}) /\ ~Configured(p, {}, {"log_signature_lines", "tail"})
       /\ ~Configured(p, {}, {"fail_on", "max_issues"})
       /\ ~Configured(p, {}, {"window", "flap_threshold", "restart_growth"})
       /\ ~Configured(p, {}, {"retain"}) /\ ~Configured(p, {}, {"webhook_format", "webhook_timeout"})
  BY <1>12 DEF gone
<1>17. ConnectOptions(p)
  BY <1>10 DEF ConnectOptions
<1>18. DebugOptions(p, {})
  BY <1>10, <1>16 DEF DebugOptions
<1>19. LogOptions(p, {})
  BY <1>10, <1>16 DEF LogOptions
<1>20. ModeOptions(p, {})
  BY <1>6 DEF ModeOptions, WholeCluster
<1>21. StructuredOutput(p, {})
  BY <1>6, <1>9, <1>10, <1>15 DEF StructuredOutput, WholeCluster
<1>22. Documents(p)
  BY <1>10 DEF Documents
<1>23. ~(p.watch > 0)
  <2>1. p.watch = 0
    BY <1>10
  <2> QED
    BY <2>1
<1>24. FailPolicy(p, {})
  BY <1>10, <1>16, <1>23 DEF FailPolicy
<1>25. HistoryOptions(p, {})
  BY <1>10, <1>16 DEF HistoryOptions
<1>26. WebhookOptions(p, {})
  BY <1>10, <1>11, <1>16 DEF WebhookOptions, Validate
<1>27. Validate(p, {})
  BY <1>14, <1>17, <1>18, <1>19, <1>20, <1>21, <1>22, <1>24, <1>25, <1>26 DEF Validate
<1>28. p.logs \in BOOLEAN
  BY <1>10
<1>29. Sound(p)
  BY <1>13, <1>27, <1>28, PlainerIsWellFormed DEF Sound
<1> QED
  BY <1>29 DEF p

\* deep is the whole cluster with logs and unused resources, without automation
\* and with text output.
LEMMA DeepCommand ==
    ASSUME NEW c, WellFormed(c)
    PROVE  \E q, cleared :
              /\ Applied(q, [c EXCEPT !.logs = TRUE], "all",
                         (Connection \union Unattended) \union {"output", "output_file"}, cleared)
              /\ Connection \union Unattended \union HistoryTuning \union WebhookTuning \subseteq cleared
              /\ Profile(c, "deep") = [q EXCEPT !.logs = TRUE, !.unused = TRUE]
<1> DEFINE e == [c EXCEPT !.logs = TRUE]
           m == PrepareMode(e, "all")
           forgotten == Forsaken(e, "all") \union (Unattended \union HistoryTuning \union WebhookTuning)
           report == {"output", "output_file"}
           also == report \union {"logs", "unused"}
           q == Reset(OneShot(m), report, also)
<1>1. DOMAIN e = Fields /\ e.logs = TRUE
  BY FieldsOfDefaults, SettingNames DEF WellFormed, Fields
<1>2. Profile(c, "deep") = [q EXCEPT !.logs = TRUE, !.unused = TRUE]
  <2>1. [c EXCEPT !.logs = @ \/ ("deep" = "deep")] = e
    BY DEF WellFormed
  <2>2. ModeOf["deep"] = "all"
    BY DEF ModeOf
  <2> QED
    BY <2>1, <2>2 DEF Profile
<1> HIDE DEF e
<1>3. Applied(m, e, "all", Dismissed(e, "all"), Forsaken(e, "all"))
  <2>1. "all" \in Modes
    BY DEF Modes
  <2> QED
    BY <1>1, <2>1, Prepared
<1>4. Dismissed(e, "all") = Connection
  <2>1. Dismissed(e, "all") = Connection \union (IF e.logs THEN {} ELSE LogSettings)
    BY DEF Dismissed
  <2> QED
    BY <1>1, <2>1
<1>5. Connection \subseteq Forsaken(e, "all")
  BY <1>4 DEF Forsaken
<1> HIDE DEF m
<1>6. Applied(OneShot(m), e, "all", Connection \union Unattended, forgotten)
  BY <1>3, <1>4, OneShotApplied
<1>7. Applied(q, e, "all", (Connection \union Unattended) \union report, forgotten \union also)
  <2>1. {"explicit", "mode"} \intersect report = {}
    OBVIOUS
  <2> HIDE DEF forgotten, report, also
  <2> QED
    BY <1>6, <2>1, ResetApplied
<1>8. Connection \union Unattended \union HistoryTuning \union WebhookTuning \subseteq forgotten \union also
  <2> HIDE DEF also
  <2> QED
    BY <1>5
<1> WITNESS q, forgotten \union also
<1> QED
  BY <1>2, <1>7, <1>8 DEF e

\* deep makes a valid configuration of every valid one.
LEMMA DeepIsValid ==
    ASSUME NEW c, WellFormed(c), Validate(c, {})
    PROVE  Sound(Profile(c, "deep"))
<1> DEFINE p == Profile(c, "deep")
           e == [c EXCEPT !.logs = TRUE]
           values == (Connection \union Unattended) \union {"output", "output_file"}
<1>1. PICK q, cleared :
              /\ Applied(q, e, "all", values, cleared)
              /\ Connection \union Unattended \union HistoryTuning \union WebhookTuning \subseteq cleared
              /\ Profile(c, "deep") = [q EXCEPT !.logs = TRUE, !.unused = TRUE]
  BY DeepCommand
<1>2. e.explicit = c.explicit /\ \A n \in Fields \ {"logs"} : e[n] = c[n]
  BY FieldsOfDefaults DEF WellFormed, Fields
<1>3. /\ DOMAIN p = Fields /\ p.logs = TRUE /\ p.unused = TRUE
      /\ \A n \in Fields \ {"logs", "unused"} : p[n] = q[n]
  <2>1. DOMAIN q = Fields
    BY <1>1 DEF Applied
  <2>2. "logs" \in Fields /\ "unused" \in Fields
    BY FieldsOfDefaults, SettingNames DEF Fields
  <2> QED
    BY <1>1, <2>1, <2>2
<1> HIDE DEF p, e
<1>4. p.explicit = c.explicit \ cleared /\ p.mode = "all"
  <2>1. {"explicit", "mode"} \subseteq Fields \ {"logs", "unused"}
    BY FieldsOfDefaults, SettingNames DEF Fields
  <2>2. p.explicit = q.explicit /\ p.mode = q.mode
    BY <1>3, <2>1
  <2> HIDE DEF values
  <2> QED
    BY <1>1, <1>2, <2>2 DEF Applied
<1>5. \A n \in values : p[n] = Defaults[n]
  <2>1. values \subseteq Fields \ {"explicit", "mode", "logs", "unused"}
    BY FieldsOfDefaults, SettingNames DEF Fields, Connection, Unattended
  <2> HIDE DEF values
  <2> QED
    BY <1>1, <1>3, <2>1 DEF Applied
<1>6. \A n \in Fields \ (values \union {"explicit", "mode", "logs", "unused"}) : p[n] = c[n]
  <2> HIDE DEF values
  <2> QED
    BY <1>1, <1>2, <1>3 DEF Applied
<1>7. /\ ~p.connect /\ p.connect_port = 0 /\ p.connect_path = "" /\ p.watch = 0 /\ p.save_snapshot = ""
      /\ p.diff = "" /\ p.history = "" /\ p.webhook_url_env = "" /\ p.output_file = "" /\ p.output = "text"
  <2>1. {"connect", "connect_port", "connect_path", "watch", "save_snapshot", "diff", "history",
         "webhook_url_env", "output_file", "output"} \subseteq values
    BY DEF Connection, Unattended
  <2> HIDE DEF values
  <2>2. /\ p.connect = Defaults.connect /\ p.connect_port = Defaults.connect_port
        /\ p.connect_path = Defaults.connect_path
        /\ p.watch = Defaults.watch /\ p.save_snapshot = Defaults.save_snapshot
        /\ p.diff = Defaults.diff /\ p.history = Defaults.history
        /\ p.webhook_url_env = Defaults.webhook_url_env /\ p.output_file = Defaults.output_file
        /\ p.output = Defaults.output
    BY <1>5, <2>1
  <2> QED
    BY <2>2, DefaultValues, ZenonT(60)
<1> DEFINE kept == {"debug", "image", "profile", "fail_on", "max_issues", "exit_zero",
                    "webhook_format", "window", "flap_threshold"}
<1>8. /\ p.debug = c.debug /\ p.image = c.image /\ p.profile = c.profile /\ p.fail_on = c.fail_on
      /\ p.max_issues = c.max_issues /\ p.exit_zero = c.exit_zero
      /\ p.webhook_format = c.webhook_format /\ p.window = c.window
      /\ p.flap_threshold = c.flap_threshold
  <2>1. kept \subseteq Fields
    BY FieldsOfDefaults, SettingNames DEF Fields
  <2>2. kept \intersect (values \union {"explicit", "mode", "logs", "unused"}) = {}
    BY DEF Connection, Unattended
  <2> HIDE DEF values
  <2>3. \A n \in kept : p[n] = c[n]
    <3> HIDE DEF kept
    <3> QED
      BY <1>6, <2>1, <2>2
  <2> QED
    BY <2>3
<1> HIDE DEF kept
<1>9. Plainer(p, c)
  <2>1. "watch" \notin p.explicit
    BY <1>1, <1>4 DEF Unattended
  <2>2. \A n \in Fields \ {"explicit", "mode", "logs", "unused", "show_commands", "output"} :
            p[n] \in {c[n], Defaults[n]}
    <3> HIDE DEF values
    <3> QED
      BY <1>5, <1>6
  <2> HIDE DEF values
  <2> QED
    BY <1>3, <1>4, <1>8, <2>1, <2>2 DEF Plainer
<1>10. Ranges(p, {}) /\ DistinctPaths(p) /\ ClusterSnapshots(p, {})
  BY <1>9, PlainerRanges, PlainerPaths, PlainerSnapshots DEF Validate
<1> DEFINE gone == {"window", "flap_threshold", "restart_growth", "retain", "webhook_format",
                    "webhook_timeout"}
<1>11. \A some : some \subseteq gone => ~Configured(p, {}, some)
  <2>1. gone \subseteq HistoryTuning \union WebhookTuning
    BY DEF HistoryTuning, WebhookTuning
  <2> HIDE DEF gone
  <2> QED
    BY <1>1, <1>4, <2>1 DEF Configured
<1> HIDE DEF values
<1>12. p.explicit \subseteq c.explicit
  BY <1>4
<1>13. ConnectOptions(p)
  BY <1>7 DEF ConnectOptions
<1>14. DebugOptions(p, {})
  BY <1>4, <1>7, <1>8, <1>12 DEF DebugOptions, Validate, Configured
<1>15. LogOptions(p, {})
  BY <1>3, <1>4 DEF LogOptions
<1>16. ModeOptions(p, {})
  BY <1>4 DEF ModeOptions, WholeCluster
<1>17. StructuredOutput(p, {})
  BY <1>7 DEF StructuredOutput
<1>18. Documents(p)
  BY <1>7 DEF Documents
<1>19. ~(p.watch > 0)
  <2>1. p.watch = 0
    BY <1>7
  <2> QED
    BY <2>1
<1>20. FailPolicy(p, {})
  BY <1>4, <1>8, <1>12, <1>19 DEF FailPolicy, WholeCluster, Validate, Configured
<1>21. HistoryOptions(p, {})
  BY <1>7, <1>11 DEF HistoryOptions
<1>22. WebhookOptions(p, {})
  BY <1>7, <1>8, <1>11 DEF WebhookOptions, Validate
<1>23. Validate(p, {})
  BY <1>10, <1>13, <1>14, <1>15, <1>16, <1>17, <1>18, <1>20, <1>21, <1>22 DEF Validate
<1>24. p.logs \in BOOLEAN
  BY <1>3
<1>25. Sound(p)
  BY <1>9, <1>23, <1>24, PlainerIsWellFormed DEF Sound
<1> QED
  BY <1>25 DEF p

\* Every item of the root menu makes a valid configuration of a valid one.
LEMMA ProfilesAreValid ==
    ASSUME NEW c, WellFormed(c), Validate(c, {}), NEW command \in DOMAIN ModeOf
    PROVE  Sound(Profile(c, command))
<1>1. command \in PlainCommands \union {"quick", "ci", "deep"}
  BY DEF ModeOf, PlainCommands
<1>2. CASE command \in PlainCommands
  <2>1. /\ ModeOf[command] \in Modes
        /\ Applied(Profile(c, command), c, ModeOf[command], Dismissed(c, ModeOf[command]),
                   Forsaken(c, ModeOf[command]))
    BY <1>2, PlainCommand
  <2> QED
    BY <2>1, AllIsValid, SelectIsValid, ListIsValid, TriageIsValid DEF Modes
<1> QED
  BY <1>1, <1>2, UnattendedIsValid, DeepIsValid

-----------------------------------------------------------------------------
(* Editing one setting. *)

\* One setting has another value; the API trace may have followed the commands.
Edited(d, c, name, value) ==
    /\ DOMAIN d = Fields
    /\ d[name] = value
    /\ \A n \in Fields \ {"explicit", "show_api_requests", name} : d[n] = c[n]
    /\ \/ name = "show_api_requests"
       \/ d.show_api_requests = c.show_api_requests
       \/ d.show_api_requests = Defaults.show_api_requests /\ "show_api_requests" \notin d.explicit

\* The legacy rule takes at most the API trace back to its default, and only when
\* it is not explicit.
LEMMA InheritLegacyIs ==
    ASSUME NEW c, DOMAIN c = Fields
    PROVE  /\ DOMAIN InheritLegacy(c) = Fields
           /\ \A n \in Fields \ {"show_api_requests"} : InheritLegacy(c)[n] = c[n]
           /\ InheritLegacy(c).explicit = c.explicit
           /\ \/ InheritLegacy(c).show_api_requests = c.show_api_requests
              \/ /\ InheritLegacy(c).show_api_requests = Defaults.show_api_requests
                 /\ "show_api_requests" \notin c.explicit
<1>1. {"explicit", "show_api_requests"} \subseteq Fields
  BY FieldsOfDefaults, SettingNames DEF Fields
<1>2. Defaults.show_api_requests = FALSE
  BY DefaultValues, ZenonT(60)
<1> DEFINE e == [c EXCEPT !.show_api_requests = FALSE]
<1>3. /\ DOMAIN e = Fields /\ e.show_api_requests = FALSE /\ e.explicit = c.explicit
      /\ \A n \in Fields \ {"show_api_requests"} : e[n] = c[n]
  BY <1>1
<1>4. \/ InheritLegacy(c) = c
      \/ InheritLegacy(c) = e /\ "show_api_requests" \notin c.explicit
  BY DEF InheritLegacy
<1> HIDE DEF e
<1> QED
  BY <1>2, <1>3, <1>4

\* Config.WithSetting is an edit that makes its setting explicit.
LEMMA WithIs ==
    ASSUME NEW c, DOMAIN c = Fields, NEW name \in Settings, NEW value
    PROVE  /\ Edited(With(c, name, value), c, name, value)
           /\ With(c, name, value).explicit = c.explicit \union {name}
<1> DEFINE e == [c EXCEPT ![name] = value, !.explicit = @ \union {name}]
<1>1. name \in Fields /\ name # "explicit" /\ {"explicit", "show_api_requests"} \subseteq Fields
  BY FieldsOfDefaults, SettingNames DEF Fields
<1>2. /\ DOMAIN e = Fields /\ e[name] = value /\ e.explicit = c.explicit \union {name}
      /\ \A n \in Fields \ {"explicit", name} : e[n] = c[n]
  BY <1>1
<1>3. With(c, name, value) = InheritLegacy(e)
  BY DEF With
<1> HIDE DEF e
<1> DEFINE d == InheritLegacy(e)
<1>4. /\ DOMAIN d = Fields
      /\ \A n \in Fields \ {"show_api_requests"} : d[n] = e[n]
      /\ d.explicit = e.explicit
      /\ \/ d.show_api_requests = e.show_api_requests
         \/ d.show_api_requests = Defaults.show_api_requests /\ "show_api_requests" \notin e.explicit
  BY <1>2, InheritLegacyIs
<1> HIDE DEF d
<1>5. d[name] = value
  BY <1>1, <1>2, <1>4
<1>6. Edited(d, c, name, value)
  BY <1>1, <1>2, <1>4, <1>5 DEF Edited
<1> QED
  BY <1>2, <1>3, <1>4, <1>6 DEF d

\* Config.WithoutSetting is an edit back to the default.
LEMMA WithoutIs ==
    ASSUME NEW c, DOMAIN c = Fields, NEW name \in Settings
    PROVE  /\ Edited(Without(c, name), c, name, Defaults[name])
           /\ Without(c, name).explicit = c.explicit \ {name}
<1> DEFINE r == Reset(c, {name}, {name})
           e == [r EXCEPT !.show_api_requests = FALSE]
<1>1. name \in Fields /\ name # "explicit" /\ {"explicit", "show_api_requests"} \subseteq Fields
  BY FieldsOfDefaults, SettingNames DEF Fields
<1>2. /\ DOMAIN r = Fields /\ r[name] = Defaults[name] /\ r.explicit = c.explicit \ {name}
      /\ \A n \in Fields \ {"explicit", name} : r[n] = c[n]
  <2>1. "explicit" \notin {name}
    BY <1>1
  <2>2. /\ DOMAIN r = Fields /\ r.explicit = c.explicit \ {name}
        /\ \A n \in Fields \ {"explicit"} : r[n] = IF n \in {name} THEN Defaults[n] ELSE c[n]
    <3> DEFINE names == {name}
    <3>1. "explicit" \notin names
      BY <2>1
    <3> HIDE DEF names
    <3>2. /\ DOMAIN Reset(c, names, names) = Fields
          /\ Reset(c, names, names).explicit = c.explicit \ names
          /\ \A n \in Fields \ {"explicit"} :
                 Reset(c, names, names)[n] = IF n \in names THEN Defaults[n] ELSE c[n]
      BY <3>1, ResetIs
    <3> QED
      BY <3>2 DEF names
  <2> HIDE DEF r
  <2> QED
    BY <1>1, <2>2
<1>3. \/ Without(c, name) = InheritLegacy(r)
      \/ Without(c, name) = InheritLegacy(e) /\ "show_api_requests" \notin r.explicit
  BY DEF Without
<1> HIDE DEF r
<1>4. Defaults.show_api_requests = FALSE
  BY DefaultValues, ZenonT(60)
<1>5. /\ DOMAIN e = Fields /\ e.explicit = r.explicit /\ e.show_api_requests = Defaults.show_api_requests
      /\ \A n \in Fields \ {"show_api_requests"} : e[n] = r[n]
  BY <1>1, <1>2, <1>4
<1> HIDE DEF e
<1>6. ASSUME NEW f, f = r \/ (f = e /\ "show_api_requests" \notin r.explicit)
      PROVE  /\ Edited(InheritLegacy(f), c, name, Defaults[name])
             /\ InheritLegacy(f).explicit = c.explicit \ {name}
  <2>1. DOMAIN f = Fields
    BY <1>2, <1>5, <1>6
  <2> DEFINE d == InheritLegacy(f)
  <2>2. /\ DOMAIN d = Fields
        /\ \A n \in Fields \ {"show_api_requests"} : d[n] = f[n]
        /\ d.explicit = f.explicit
        /\ \/ d.show_api_requests = f.show_api_requests
           \/ d.show_api_requests = Defaults.show_api_requests /\ "show_api_requests" \notin f.explicit
    BY <2>1, InheritLegacyIs
  <2> HIDE DEF d
  <2>3. \A n \in Fields \ {"show_api_requests"} : d[n] = r[n]
    BY <1>5, <1>6, <2>2
  <2>4. d.explicit = r.explicit
    BY <1>5, <1>6, <2>2
  <2>5. \/ d.show_api_requests = r.show_api_requests
        \/ d.show_api_requests = Defaults.show_api_requests /\ "show_api_requests" \notin r.explicit
    BY <1>5, <1>6, <2>2
  <2>6. d[name] = Defaults[name]
    BY <1>1, <1>2, <2>3, <2>5
  <2>7. Edited(d, c, name, Defaults[name])
    BY <1>1, <1>2, <2>2, <2>3, <2>4, <2>5, <2>6 DEF Edited
  <2> QED
    BY <1>2, <2>4, <2>7 DEF d
<1> QED
  BY <1>3, <1>6

\* A value that the parser of a setting, or of a prompt, yields.
Fitting(name, value) ==
    /\ name = "logs" => value \in BOOLEAN
    /\ name = "watch" => value \in Int
    /\ name \in Outputs \union Inputs => Known(name, value)

\* Every default fits.
LEMMA DefaultsFit == ASSUME NEW name PROVE Fitting(name, Defaults[name])
<1>1. name = "logs" => Defaults[name] \in BOOLEAN
  BY DefaultValues, ZenonT(60)
<1>2. name = "watch" => Defaults[name] \in Int
  BY DefaultNumbers
<1>3. name \in Outputs \union Inputs => Known(name, Defaults[name])
  BY DefaultPaths DEF Known
<1> QED
  BY <1>1, <1>2, <1>3 DEF Fitting

\* An edit with a fitting value keeps the form.
LEMMA EditsKeepForm ==
    ASSUME NEW c, WellFormed(c), NEW name \in Settings, NEW value, Fitting(name, value),
           NEW d, Edited(d, c, name, value), d.explicit \subseteq Settings
    PROVE  WellFormed(d)
<1>0. \A n \in Fields \ {"explicit", "show_api_requests", name} : d[n] = c[n]
  BY DEF Edited
<1>1. /\ d.save_cluster_snapshot = c.save_cluster_snapshot
      /\ d.load_cluster_snapshot = c.load_cluster_snapshot
  <2>1. {"save_cluster_snapshot", "load_cluster_snapshot"} \subseteq Fields \ {"explicit", "show_api_requests", name}
    BY FieldsOfDefaults, SettingNames DEF Fields
  <2> QED
    BY <1>0, <2>1
<1>2. d.logs \in BOOLEAN
  <2>1. "logs" \in Fields \ {"explicit", "show_api_requests"}
    BY FieldsOfDefaults, SettingNames DEF Fields
  <2>2. CASE name = "logs"
    BY <2>2 DEF Edited, Fitting
  <2>3. CASE name # "logs"
    BY <1>0, <2>1, <2>3 DEF WellFormed
  <2> QED
    BY <2>2, <2>3
<1>3. d.watch \in Int
  <2>1. "watch" \in Fields \ {"explicit", "show_api_requests"}
    BY FieldsOfDefaults, SettingNames DEF Fields
  <2>2. CASE name = "watch"
    <3>1. d.watch = value /\ value \in Int
      BY <2>2 DEF Edited, Fitting
    <3> QED
      BY <3>1
  <2>3. CASE name # "watch"
    <3>1. d.watch = c.watch /\ c.watch \in Int
      BY <1>0, <2>1, <2>3 DEF WellFormed
    <3> QED
      BY <3>1
  <2> QED
    BY <2>2, <2>3
<1>4. \A option \in Outputs \union Inputs : Known(option, d[option])
  <2> TAKE option \in Outputs \union Inputs
  <2>1. option \in Fields \ {"explicit", "show_api_requests"}
    BY DefaultPaths DEF Outputs, Inputs
  <2>2. CASE name = option
    BY <2>2 DEF Edited, Fitting
  <2>3. CASE name # option
    BY <1>0, <2>1, <2>3 DEF WellFormed
  <2> QED
    BY <2>2, <2>3
<1> QED
  BY <1>1, <1>2, <1>3, <1>4 DEF WellFormed, Edited, Fields

\* What is not explicit has its default, among some settings.
Settled(c, S) == \A n \in S \ c.explicit : c[n] = Defaults[n]

\* An edit settles its setting, explicit or at its default.
LEMMA EditsSettle ==
    ASSUME NEW c, NEW S, S \subseteq Settings, NEW name \in Settings, NEW value,
           Settled(c, S \ {name}), NEW d, Edited(d, c, name, value),
           \/ d.explicit = c.explicit \union {name}
           \/ d.explicit = c.explicit \ {name} /\ value = Defaults[name]
    PROVE  Settled(d, S)
<1> SUFFICES ASSUME NEW n \in S, n \notin d.explicit
             PROVE  d[n] = Defaults[n]
  BY DEF Settled
<1>1. n \in Fields \ {"explicit"}
  BY FieldsOfDefaults DEF Fields
<1>2. CASE n = name
  BY <1>2 DEF Edited
<1>3. CASE n # name /\ n # "show_api_requests"
  BY <1>1, <1>3 DEF Edited, Settled
<1>4. CASE n # name /\ n = "show_api_requests"
  <2>1. c.show_api_requests = Defaults.show_api_requests
    BY <1>4 DEF Settled
  <2> QED
    BY <1>4, <2>1 DEF Edited
<1> QED
  BY <1>2, <1>3, <1>4

\* The command word of a mode leaves nothing unsettled but the mode and the tuning
\* it has no use for.
LEMMA ProfileSettles ==
    ASSUME NEW c, WellFormed(c), NEW S, S \subseteq Settings \ Tuning, Settled(c, S),
           NEW command \in PlainCommands
    PROVE  Settled(Profile(c, command), S \ {"mode"})
<1> DEFINE p == Profile(c, command)
           values == Dismissed(c, ModeOf[command])
           cleared == Forsaken(c, ModeOf[command])
<1>1. Applied(p, c, ModeOf[command], values, cleared)
  BY PlainCommand
<1>2. cleared \subseteq {"mode"} \union values \union Tuning
  BY DEF Forsaken
<1> HIDE DEF p, values, cleared
<1>3. ASSUME NEW n \in S \ {"mode"}, n \notin p.explicit
      PROVE  p[n] = Defaults[n]
  <2>1. n \in Fields \ {"explicit", "mode"}
    BY <1>3, FieldsOfDefaults DEF Fields
  <2>2. n \notin c.explicit \/ n \in values
    BY <1>1, <1>2, <1>3 DEF Applied
  <2> QED
    BY <1>1, <2>1, <2>2 DEF Applied, Settled
<1> QED
  BY <1>3 DEF Settled, p

\* All of these configurations are well formed and settled.
Sane(outcomes, S) == \A d \in outcomes : WellFormed(d) /\ Settled(d, S)

\* WithSetting and WithoutSetting leave well-formed and settled configurations.
LEMMA SettingKeeps ==
    ASSUME NEW c, WellFormed(c), NEW S, S \subseteq Settings, NEW name \in Settings,
           Settled(c, S \ {name}), NEW value, Fitting(name, value)
    PROVE  Sane(WithSetting(c, name, value), S) /\ Sane(WithoutSetting(c, name), S)
<1>1. DOMAIN c = Fields /\ c.explicit \subseteq Settings
  BY DEF WellFormed, Fields
<1>2. WellFormed(With(c, name, value)) /\ Settled(With(c, name, value), S)
  <2> DEFINE d == With(c, name, value)
  <2>1. Edited(d, c, name, value) /\ d.explicit = c.explicit \union {name}
    BY <1>1, WithIs
  <2> HIDE DEF d
  <2>2. d.explicit \subseteq Settings
    BY <1>1, <2>1
  <2>3. WellFormed(d) /\ Settled(d, S)
    BY <2>1, <2>2, EditsKeepForm, EditsSettle
  <2> QED
    BY <2>3 DEF d
<1>3. WellFormed(Without(c, name)) /\ Settled(Without(c, name), S)
  <2> DEFINE d == Without(c, name)
  <2>1. Edited(d, c, name, Defaults[name]) /\ d.explicit = c.explicit \ {name}
    BY <1>1, WithoutIs
  <2> HIDE DEF d
  <2>2. d.explicit \subseteq Settings
    BY <1>1, <2>1
  <2>3. WellFormed(d) /\ Settled(d, S)
    BY <2>1, <2>2, DefaultsFit, EditsKeepForm, EditsSettle
  <2> QED
    BY <2>3 DEF d
<1> QED
  BY <1>2, <1>3 DEF Sane, WithSetting, WithoutSetting, Tried

\* Fewer settings are settled all the more.
LEMMA SettledWithout ==
    ASSUME NEW c, NEW S, Settled(c, S), NEW name
    PROVE  Settled(c, S \ {name})
  BY DEF Settled

\* Forgetting a detail keeps form and settings.
LEMMA DroppingKeeps ==
    ASSUME NEW outcomes, NEW S, S \subseteq Settings, Sane(outcomes, S), NEW name \in Settings
    PROVE  Sane(Dropped(outcomes, name), S)
<1>1. ASSUME NEW d \in outcomes
      PROVE  Sane(WithoutSetting(d, name), S)
  <2>1. WellFormed(d) /\ Settled(d, S \ {name})
    BY SettledWithout DEF Sane
  <2> QED
    BY <2>1, SettingKeeps, DefaultsFit
<1> QED
  BY <1>1 DEF Sane, Dropped

\* Switching an option keeps form and settings.
LEMMA SwitchingKeeps ==
    ASSUME NEW outcomes, NEW S, S \subseteq Settings, Sane(outcomes, S), NEW name \in Settings,
           NEW on, Fitting(name, on)
    PROVE  Sane(Switched(outcomes, name, on), S)
<1>1. ASSUME NEW d \in outcomes
      PROVE  Sane(WithSetting(d, name, on), S)
  <2>1. WellFormed(d) /\ Settled(d, S \ {name})
    BY SettledWithout DEF Sane
  <2> QED
    BY <2>1, SettingKeeps
<1> QED
  BY <1>1 DEF Sane, Switched

\* The options of a guided run, switched with their details, keep form and settings.
LEMMA OptionsKeep ==
    ASSUME NEW c, WellFormed(c), NEW S, S \subseteq Settings, Settled(c, S), NEW on \in BOOLEAN
    PROVE  Sane(SetLogs(c, on), S) /\ Sane(SetConnect(c, on), S) /\ Sane(SetDebug(c, on), S)
<1>1. Sane({c}, S)
  BY DEF Sane
<1>2. {"logs", "connect", "debug", "log_signatures_file", "log_signature_lines", "tail",
       "connect_port", "connect_path", "image", "profile"} \subseteq Settings
  BY SettingNames
<1>3. Fitting("logs", on) /\ Fitting("connect", on) /\ Fitting("debug", on)
  BY DEF Fitting, Outputs, Inputs
<1>4. Sane(Dropped(Dropped(Dropped({c}, "log_signatures_file"), "log_signature_lines"), "tail"), S)
  BY <1>1, <1>2, DroppingKeeps
<1>5. Sane(Dropped(Dropped({c}, "connect_port"), "connect_path"), S)
  BY <1>1, <1>2, DroppingKeeps
<1>6. Sane(Dropped(Dropped({c}, "image"), "profile"), S)
  BY <1>1, <1>2, DroppingKeeps
<1>7. Sane(SetLogs(c, on), S)
  BY <1>1, <1>2, <1>3, <1>4, SwitchingKeeps DEF SetLogs
<1>8. Sane(SetConnect(c, on), S)
  BY <1>1, <1>2, <1>3, <1>5, SwitchingKeeps DEF SetConnect
<1>9. Sane(SetDebug(c, on), S)
  BY <1>1, <1>2, <1>3, <1>6, SwitchingKeeps DEF SetDebug
<1> QED
  BY <1>7, <1>8, <1>9

\* What an operator types at a prompt and the parser takes has its form.
LEMMA EntriesFit ==
    ASSUME NEW name \in Settings, NEW value \in Entries[name], Parses(name, value)
    PROVE  Fitting(name, value)
<1>1. name = "logs" => value \in BOOLEAN
  BY GuideAssumption DEF GuideAssumption, BooleanSettings
<1>2. name = "watch" => value \in Int
  BY DEF Parses, Minimum
<1>3. name \in Outputs \union Inputs => Known(name, value)
  BY PathAssumption DEF PathAssumption
<1> QED
  BY <1>1, <1>2, <1>3 DEF Fitting

\* Whatever is typed at a prompt keeps form and settings.
LEMMA TypedKeeps ==
    ASSUME NEW c, WellFormed(c), Validate(c, {}), NEW S, S \subseteq Settings \ Tuning, Settled(c, S),
           NEW name \in Settings, NEW outcomes \in Typed(c, name)
    PROVE  Sane(outcomes, S)
<1>1. ASSUME NEW e, WellFormed(e), Settled(e, S), NEW value, Fitting(name, value)
      PROVE  Sane(WithSetting(e, name, value), S) /\ Sane(WithoutSetting(e, name), S)
  BY <1>1, SettledWithout, SettingKeeps
<1>2. ASSUME NEW command \in PlainCommands, NEW e \in Tried(Profile(c, command)), name = "mode",
             NEW value
      PROVE  Sane(WithSetting(e, name, value), S) /\ Sane(WithoutSetting(e, name), S)
  <2>1. e = Profile(c, command)
    BY DEF Tried
  <2>2. command \in DOMAIN ModeOf
    BY DEF PlainCommands, ModeOf
  <2>3. WellFormed(e)
    BY <2>1, <2>2, ProfilesAreValid DEF Sound
  <2>4. Settled(e, S \ {name})
    BY <1>2, <2>1, ProfileSettles
  <2>5. Fitting(name, value)
    BY <1>2 DEF Fitting, Outputs, Inputs
  <2> QED
    BY <2>3, <2>4, <2>5, SettingKeeps
<1>3. name \in Linked => Sane(Off(c, name), S)
  <2>1. FALSE \in BOOLEAN /\ S \subseteq Settings
    OBVIOUS
  <2>2. Sane(SetLogs(c, FALSE), S) /\ Sane(SetConnect(c, FALSE), S) /\ Sane(SetDebug(c, FALSE), S)
    BY <2>1, OptionsKeep
  <2> QED
    BY <2>2 DEF Off, Linked
<1>4. Sane(Forgotten(c, name), S)
  <2>1. CASE name = "mode"
    <3>1. Forgotten(c, name) = UNION {WithoutSetting(d, name) : d \in Tried(Profile(c, "all"))}
      BY <2>1 DEF Forgotten, Then, Linked
    <3>2. "all" \in PlainCommands
      BY DEF PlainCommands
    <3> QED
      BY <1>2, <2>1, <3>1, <3>2 DEF Then, Sane
  <2>2. CASE name \in Linked
    <3>1. Forgotten(c, name) = UNION {WithoutSetting(d, name) : d \in Off(c, name)}
      BY <2>2 DEF Forgotten, Then, Linked
    <3> QED
      BY <1>1, <1>3, <2>2, <3>1, DefaultsFit DEF Sane
  <2>3. CASE name # "mode" /\ name \notin Linked
    <3>1. Forgotten(c, name) = WithoutSetting(c, name)
      BY <2>3 DEF Forgotten
    <3> QED
      BY <1>1, <3>1, DefaultsFit
  <2> QED
    BY <2>1, <2>2, <2>3
<1>5. ASSUME NEW value \in Entries[name]
      PROVE  Sane(Prompted(c, name, value), S)
  <2> DEFINE parses == Parses(name, value)
  <2>0. /\ ~parses => Prompted(c, name, value) = {}
        /\ parses /\ name = "mode" =>
               Prompted(c, name, value) =
                   UNION {WithSetting(d, name, value) : d \in Tried(Profile(c, CommandOf[value]))}
        /\ parses /\ name # "mode" =>
               \/ Prompted(c, name, value) = WithSetting(c, name, value)
               \/ name \in Linked /\ Prompted(c, name, value) = Off(c, name)
    BY DEF Prompted, Then, Linked
  <2>1. CASE ~Parses(name, value)
    <3>1. Prompted(c, name, value) = {}
      BY <2>0, <2>1
    <3> QED
      BY <3>1 DEF Sane
  <2>2. CASE Parses(name, value) /\ name = "mode"
    <3>1. Prompted(c, name, value) = UNION {WithSetting(d, name, value) : d \in Tried(Profile(c, CommandOf[value]))}
      BY <2>0, <2>2
    <3>2. CommandOf[value] \in PlainCommands
      <4>1. value \in {"all", "select", "list", "triage"}
        BY <2>2 DEF Parses, Minimum
      <4> QED
        BY <4>1 DEF CommandOf, PlainCommands
    <3> QED
      BY <1>2, <2>2, <3>1, <3>2 DEF Sane
  <2>3. CASE Parses(name, value) /\ name # "mode"
    <3>1. Fitting(name, value)
      BY <2>3, EntriesFit
    <3>2. \/ Prompted(c, name, value) = WithSetting(c, name, value)
          \/ name \in Linked /\ Prompted(c, name, value) = Off(c, name)
      BY <2>0, <2>3
    <3> QED
      BY <1>1, <1>3, <3>1, <3>2
  <2> QED
    BY <2>1, <2>2, <2>3
<1> QED
  BY <1>4, <1>5 DEF Typed

-----------------------------------------------------------------------------
(* The options of a guided run. *)

\* The options that a guided run switches, and those that switching off forgets.
Switches == {"logs", "unused", "connect", "debug"}
Details == {"log_signatures_file", "log_signature_lines", "tail", "connect_port", "connect_path",
            "image", "profile"}

\* An option is switched, or a detail of one is forgotten.
Switching(d, c, name, value) ==
    /\ Edited(d, c, name, value)
    /\ \/ name \in Switches /\ value \in BOOLEAN /\ d.explicit = c.explicit \union {name}
       \/ name \in Details /\ value = Defaults[name] /\ d.explicit = c.explicit \ {name}

\* What neither touches.
Untouched == {"mode", "output", "watch", "mask_secrets", "output_file", "save_snapshot", "diff",
              "baseline", "fail_on", "max_issues", "exit_zero", "history", "webhook_url_env",
              "webhook_format", "window", "flap_threshold"}

\* Switching an option, or forgetting a detail, touches nothing else.
LEMMA SwitchingTouches ==
    ASSUME NEW c, NEW d, NEW name, NEW value, Switching(d, c, name, value)
    PROVE  /\ \A n \in Untouched : d[n] = c[n]
           /\ \A n \in (Switches \union Details) \ {name} : d[n] = c[n]
           /\ d[name] = value
<1>1. \A n \in Fields \ {"explicit", "show_api_requests", name} : d[n] = c[n]
  BY DEF Switching, Edited
<1>2. name \in Switches \union Details
  BY DEF Switching
<1>3. Untouched \union Switches \union Details \subseteq Fields \ {"explicit", "show_api_requests"}
  BY FieldsOfDefaults, SettingNames DEF Fields, Untouched, Switches, Details
<1>4. Untouched \intersect (Switches \union Details) = {}
  BY DEF Untouched, Switches, Details
<1>5. \A n \in Untouched : d[n] = c[n]
  BY <1>1, <1>2, <1>3, <1>4
<1>6. \A n \in (Switches \union Details) \ {name} : d[n] = c[n]
  BY <1>1, <1>3
<1>7. d[name] = value
  BY DEF Switching, Edited
<1> QED
  BY <1>5, <1>6, <1>7

\* But for the switches that are now explicit.
LEMMA SwitchingIsPlainer ==
    ASSUME NEW c, WellFormed(c), NEW d, NEW name, NEW value, Switching(d, c, name, value),
           NEW e, DOMAIN e = Fields, e.explicit = c.explicit \union Switches,
           \A n \in Fields \ {"explicit"} : e[n] = c[n]
    PROVE  Plainer(d, e)
<1>1. d.explicit \subseteq e.explicit
  BY DEF Switching
<1>2. DOMAIN d = Fields /\ d[name] = value /\ \A n \in Fields \ {"explicit", "show_api_requests", name} : d[n] = c[n]
  BY DEF Switching, Edited
<1>3. ASSUME NEW n \in Fields \ {"explicit", "mode", "logs", "unused", "connect", "debug",
                                 "show_commands", "output"}
      PROVE  d[n] \in {e[n], Defaults[n]}
  <2>1. e[n] = c[n]
    OBVIOUS
  <2>2. CASE n = name
    <3>1. n \notin Switches
      BY DEF Switches
    <3>2. d[n] = Defaults[n]
      BY <1>2, <2>2, <3>1 DEF Switching
    <3> QED
      BY <3>2
  <2>3. CASE n = "show_api_requests"
    BY <2>1, <2>2, <2>3 DEF Switching, Edited
  <2>4. CASE n # name /\ n # "show_api_requests"
    BY <1>2, <2>1, <2>4
  <2> QED
    BY <2>2, <2>3, <2>4
<1>4. /\ {"window", "flap_threshold", "watch"} \subseteq Untouched
      /\ {"window", "flap_threshold", "watch"} \subseteq Fields \ {"explicit"}
  BY FieldsOfDefaults, SettingNames DEF Fields, Untouched
<1>5. \A n \in Untouched : d[n] = c[n]
  BY SwitchingTouches
<1>6. d.window = e.window /\ d.flap_threshold = e.flap_threshold /\ d.watch = e.watch
  BY <1>4, <1>5
<1> QED
  BY <1>1, <1>2, <1>3, <1>6 DEF Plainer

\* A switched option needs only its own combinations checked: the rest stays valid.
LEMMA SwitchingIsValid ==
    ASSUME NEW c, WellFormed(c), Validate(c, {}), NEW d, NEW name, NEW value,
           Switching(d, c, name, value),
           ConnectOptions(d), DebugOptions(d, {}), LogOptions(d, {})
    PROVE  Validate(d, {})
<1>0. \A n \in Untouched : d[n] = c[n]
  BY SwitchingTouches
<1> DEFINE e == [c EXCEPT !.explicit = @ \union Switches]
<1>2. "explicit" \in Fields /\ DOMAIN c = Fields
  BY FieldsOfDefaults DEF Fields, WellFormed
<1>3. DOMAIN e = Fields /\ e.explicit = c.explicit \union Switches /\ \A n \in Fields \ {"explicit"} : e[n] = c[n]
  BY <1>2
<1>4. Plainer(d, e)
  <2> HIDE DEF e
  <2> QED
    BY <1>3, SwitchingIsPlainer
<1>5. /\ d.mode = c.mode /\ d.output = c.output /\ d.watch = c.watch /\ d.mask_secrets = c.mask_secrets
      /\ d.output_file = c.output_file /\ d.save_snapshot = c.save_snapshot /\ d.diff = c.diff
      /\ d.baseline = c.baseline /\ d.fail_on = c.fail_on /\ d.max_issues = c.max_issues
      /\ d.exit_zero = c.exit_zero /\ d.history = c.history /\ d.webhook_url_env = c.webhook_url_env
      /\ d.webhook_format = c.webhook_format
  BY <1>0 DEF Untouched
<1>6. d.explicit \subseteq c.explicit \union Switches
  BY DEF Switching
<1> DEFINE names == {"namespace", "timeout", "events_limit", "tail", "log_signature_lines", "workers", "burst",
                     "node_heartbeat_timeout", "window", "flap_threshold", "restart_growth",
                     "retain", "webhook_timeout", "page_size", "qps", "restart_threshold", "watch"}
<1>7. names \subseteq Fields \ {"explicit"}
  BY FieldsOfDefaults, SettingNames DEF Fields
<1>8. Ranges(e, {})
  <2>1. \A n \in names : e[n] = c[n]
    <3> HIDE DEF e, names
    <3> QED
      BY <1>3, <1>7
  <2>2. Configured(e, {}, {"watch"}) => Configured(c, {}, {"watch"})
    <3>1. "watch" \notin Switches
      BY DEF Switches
    <3> HIDE DEF e
    <3> QED
      BY <1>3, <3>1 DEF Configured
  <2>3. /\ e.namespace = c.namespace /\ e.workers = c.workers /\ e.log_signature_lines = c.log_signature_lines
        /\ e.page_size = c.page_size /\ e.restart_threshold = c.restart_threshold /\ e.watch = c.watch
        /\ e.window = c.window /\ e.flap_threshold = c.flap_threshold
    BY <2>1
  <2>4. Ranges(c, {})
    BY DEF Validate
  <2> DEFINE least == {"timeout", "events_limit", "tail", "log_signature_lines", "workers", "burst",
                       "node_heartbeat_timeout", "window", "flap_threshold", "restart_growth",
                       "retain", "webhook_timeout", "page_size", "qps"}
  <2>5. \A n \in least : e[n] >= 1
    <3>1. \A n \in least : c[n] >= 1
      BY <2>4 DEF Ranges
    <3>2. least \subseteq names
      OBVIOUS
    <3> HIDE DEF e, names, least
    <3> QED
      BY <2>1, <3>1, <3>2
  <2> HIDE DEF e, names
  <2> QED
    BY <2>2, <2>3, <2>4, <2>5 DEF Ranges
<1>9. DistinctPaths(e)
  <2>1. \A option \in Outputs \union Inputs : e[option] = c[option]
    <3>1. "explicit" \notin Outputs \union Inputs
      BY DEF Outputs, Inputs
    <3> HIDE DEF e
    <3> QED
      BY <1>3, <3>1, DefaultPaths
  <2>2. DistinctPaths(c)
    BY DEF Validate
  <2> HIDE DEF e
  <2>3. ASSUME NEW left \in Outputs, NEW right \in Outputs \union Inputs,
               left # right, e[left] # "", e[right] # ""
        PROVE  ~SamePath(e, left, right)
    <3>1. e[left] = c[left] /\ e[right] = c[right]
      BY <2>1
    <3>2. ~SamePath(c, left, right)
      BY <2>2, <2>3, <3>1 DEF DistinctPaths
    <3> QED
      BY <3>1, <3>2 DEF SamePath
  <2> QED
    BY <2>3 DEF DistinctPaths
<1> HIDE DEF e
<1>10. Ranges(d, {}) /\ DistinctPaths(d)
  BY <1>4, <1>8, <1>9, PlainerRanges, PlainerPaths
<1>11. ClusterSnapshots(d, {})
  <2>1. {"save_cluster_snapshot", "load_cluster_snapshot"}
            \subseteq Fields \ {"explicit", "mode", "logs", "unused", "connect", "debug", "show_commands", "output"}
    BY FieldsOfDefaults, SettingNames DEF Fields
  <2>2. /\ d.save_cluster_snapshot \in {e.save_cluster_snapshot, Defaults.save_cluster_snapshot}
        /\ d.load_cluster_snapshot \in {e.load_cluster_snapshot, Defaults.load_cluster_snapshot}
    BY <1>4, <2>1 DEF Plainer
  <2>3. e.save_cluster_snapshot = c.save_cluster_snapshot /\ e.load_cluster_snapshot = c.load_cluster_snapshot
    BY <1>3, <2>1
  <2>4. d.save_cluster_snapshot = "" /\ d.load_cluster_snapshot = ""
    BY <2>2, <2>3, DefaultValues, ZenonT(60) DEF WellFormed
  <2> QED
    BY <2>4 DEF ClusterSnapshots
<1>12. ASSUME NEW some, some \intersect Switches = {}, Configured(d, {}, some)
       PROVE  Configured(c, {}, some)
  BY <1>6, <1>12 DEF Configured
<1>13. ModeOptions(d, {})
  <2>1. /\ {"events_limit", "restart_threshold", "exit_zero"} \intersect Switches = {}
        /\ {"node_heartbeat_timeout"} \intersect Switches = {}
    BY DEF Switches
  <2>2. /\ Configured(d, {}, {"events_limit", "restart_threshold", "exit_zero"})
               => Configured(c, {}, {"events_limit", "restart_threshold", "exit_zero"})
        /\ Configured(d, {}, {"node_heartbeat_timeout"}) => Configured(c, {}, {"node_heartbeat_timeout"})
    BY <1>12, <2>1
  <2> QED
    BY <1>5, <2>2 DEF ModeOptions, WholeCluster, Validate
<1>14. StructuredOutput(d, {})
  <2>1. {"show_commands", "show_api_requests", "tail", "events_limit"} \intersect Switches = {}
    BY DEF Switches
  <2>2. Configured(d, {}, {"show_commands", "show_api_requests", "tail", "events_limit"})
            => Configured(c, {}, {"show_commands", "show_api_requests", "tail", "events_limit"})
    BY <1>12, <2>1
  <2> QED
    BY <1>5, <2>2 DEF StructuredOutput, WholeCluster, Validate
<1>15. Documents(d)
  BY <1>5 DEF Documents, WholeCluster, Validate
<1>16. FailPolicy(d, {})
  <2>1. {"fail_on", "max_issues"} \intersect Switches = {}
    BY DEF Switches
  <2>2. Configured(d, {}, {"fail_on", "max_issues"}) => Configured(c, {}, {"fail_on", "max_issues"})
    BY <1>12, <2>1
  <2> QED
    BY <1>5, <2>2 DEF FailPolicy, WholeCluster, Validate
<1>17. HistoryOptions(d, {}) /\ WebhookOptions(d, {})
  <2>1. /\ {"window", "flap_threshold", "restart_growth"} \intersect Switches = {}
        /\ {"retain"} \intersect Switches = {} /\ {"webhook_format", "webhook_timeout"} \intersect Switches = {}
    BY DEF Switches
  <2>2. /\ Configured(d, {}, {"window", "flap_threshold", "restart_growth"})
               => Configured(c, {}, {"window", "flap_threshold", "restart_growth"})
        /\ Configured(d, {}, {"retain"}) => Configured(c, {}, {"retain"})
        /\ Configured(d, {}, {"webhook_format", "webhook_timeout"})
               => Configured(c, {}, {"webhook_format", "webhook_timeout"})
    BY <1>12, <2>1
  <2> QED
    BY <1>5, <2>2 DEF HistoryOptions, WebhookOptions, WholeCluster, Validate
<1> QED
  BY <1>10, <1>11, <1>13, <1>14, <1>15, <1>16, <1>17 DEF Validate

\* A detail can always be forgotten.
LEMMA DroppedIsValid ==
    ASSUME NEW c, Sound(c), NEW name \in Details
    PROVE  /\ WithoutSetting(c, name) = {Without(c, name)}
           /\ Switching(Without(c, name), c, name, Defaults[name])
           /\ Sound(Without(c, name))
<1> DEFINE d == Without(c, name)
<1>1. name \in Settings /\ DOMAIN c = Fields /\ WellFormed(c) /\ Validate(c, {})
  BY SettingNames DEF Details, Sound, WellFormed, Fields
<1>0. Edited(d, c, name, Defaults[name]) /\ d.explicit = c.explicit \ {name}
  BY <1>1, WithoutIs
<1>2. Switching(d, c, name, Defaults[name])
  BY <1>0 DEF Switching
<1>3. WellFormed(d)
  <2> HIDE DEF d
  <2>1. Edited(d, c, name, Defaults[name]) /\ d.explicit \subseteq Settings
    BY <1>0, <1>1 DEF WellFormed
  <2> QED
    BY <1>1, <2>1, DefaultsFit, EditsKeepForm
<1> HIDE DEF d
<1>4. /\ \A n \in Untouched : d[n] = c[n]
      /\ \A n \in (Switches \union Details) \ {name} : d[n] = c[n]
      /\ d[name] = Defaults[name] /\ d.explicit \subseteq c.explicit
  BY <1>0, <1>2, SwitchingTouches
<1>5. /\ d.mode = c.mode /\ d.output = c.output /\ d.watch = c.watch
      /\ d.logs = c.logs /\ d.unused = c.unused /\ d.connect = c.connect /\ d.debug = c.debug
  <2>1. name \notin Switches
    BY DEF Switches, Details
  <2> QED
    BY <1>4, <2>1 DEF Untouched, Switches
<1>6. /\ d.connect_port = c.connect_port \/ d.connect_port = Defaults.connect_port
      /\ d.connect_path = c.connect_path \/ d.connect_path = Defaults.connect_path
      /\ d.image = c.image \/ d.image = Defaults.image
      /\ d.profile = c.profile \/ d.profile = Defaults.profile
      /\ d.log_signatures_file = c.log_signatures_file
             \/ d.log_signatures_file = Defaults.log_signatures_file
  BY <1>4 DEF Details
<1>7. ConnectOptions(d)
  <2>1. d.connect_port = c.connect_port \/ d.connect_port = 0
    BY <1>6, DefaultValues, ZenonT(60)
  <2>2. d.connect_path = c.connect_path \/ d.connect_path = ""
    BY <1>6, DefaultValues, ZenonT(60)
  <2>3. ConnectOptions(c)
    BY <1>1 DEF Validate
  <2> QED
    BY <1>5, <2>1, <2>2, <2>3 DEF ConnectOptions
<1>8. DebugOptions(d, {})
  <2>1. Configured(d, {}, {"image", "profile"}) => Configured(c, {}, {"image", "profile"})
    BY <1>4 DEF Configured
  <2>2. d.image = c.image \/ d.image # "bad"
    BY <1>6, DefaultValues, ZenonT(60)
  <2>3. d.profile = c.profile \/ d.profile # "bad"
    BY <1>6, DefaultValues, ZenonT(60)
  <2>4. DebugOptions(c, {})
    BY <1>1 DEF Validate
  <2> QED
    BY <1>5, <2>1, <2>2, <2>3, <2>4 DEF DebugOptions
<1>9. LogOptions(d, {})
  <2>1. Configured(d, {}, {"log_signature_lines", "tail"}) => Configured(c, {}, {"log_signature_lines", "tail"})
    BY <1>4 DEF Configured
  <2>2. d.log_signatures_file = c.log_signatures_file \/ d.log_signatures_file = ""
    BY <1>6, DefaultValues, ZenonT(60)
  <2>3. LogOptions(c, {})
    BY <1>1 DEF Validate
  <2> QED
    BY <1>5, <2>1, <2>2, <2>3 DEF LogOptions
<1>10. Validate(d, {})
  BY <1>1, <1>2, <1>7, <1>8, <1>9, SwitchingIsValid
<1>11. WithoutSetting(c, name) = {d}
  BY <1>10 DEF WithoutSetting, Tried, d
<1> QED
  BY <1>2, <1>3, <1>10, <1>11 DEF Sound, d

\* What an option that is switched asks of the rest of the configuration.
Switchable(c, name, on) ==
    /\ name = "logs" => /\ c.mode = "all"
                        /\ ~on => /\ c.log_signatures_file = ""
                                  /\ {"log_signature_lines", "tail"} \intersect c.explicit = {}
    /\ name = "unused" => c.mode = "all"
    /\ name = "connect" => IF on THEN c.mode = "select" ELSE c.connect_port = 0 /\ c.connect_path = ""
    /\ name = "debug" =>
           IF on THEN /\ c.mode \in {"all", "select"} /\ c.output = "text" /\ c.watch = 0
                      /\ c.image # "bad" /\ c.profile # "bad"
           ELSE {"image", "profile"} \intersect c.explicit = {}

\* An option that finds what it asks for can be switched.
LEMMA SwitchedIsValid ==
    ASSUME NEW c, Sound(c), NEW name \in Switches, NEW on \in BOOLEAN, Switchable(c, name, on)
    PROVE  /\ WithSetting(c, name, on) = {With(c, name, on)}
           /\ Switching(With(c, name, on), c, name, on)
           /\ Sound(With(c, name, on))
<1> DEFINE d == With(c, name, on)
<1>1. name \in Settings /\ DOMAIN c = Fields /\ WellFormed(c) /\ Validate(c, {})
  BY SettingNames DEF Switches, Sound, WellFormed, Fields
<1>0. Edited(d, c, name, on) /\ d.explicit = c.explicit \union {name}
  BY <1>1, WithIs
<1>2. Switching(d, c, name, on)
  BY <1>0 DEF Switching
<1>3. WellFormed(d)
  <2>1. Edited(d, c, name, on) /\ d.explicit \subseteq Settings
    <3> HIDE DEF d
    <3> QED
      BY <1>0, <1>1 DEF WellFormed
  <2>2. Fitting(name, on)
    BY DEF Fitting, Switches, Outputs, Inputs
  <2> HIDE DEF d
  <2> QED
    BY <1>1, <2>1, <2>2, EditsKeepForm
<1>4. d.explicit = c.explicit \union {name}
  BY <1>0
<1> HIDE DEF d
<1>5. /\ \A n \in Untouched : d[n] = c[n]
      /\ \A n \in (Switches \union Details) \ {name} : d[n] = c[n]
      /\ d[name] = on
  BY <1>2, SwitchingTouches
<1>6. name \notin Details
  BY DEF Switches, Details
<1>7. /\ d.mode = c.mode /\ d.output = c.output /\ d.watch = c.watch
      /\ d.connect_port = c.connect_port /\ d.connect_path = c.connect_path
      /\ d.image = c.image /\ d.profile = c.profile /\ d.log_signatures_file = c.log_signatures_file
  BY <1>5, <1>6 DEF Untouched, Details
<1>8. /\ Configured(d, {}, {"image", "profile"}) => Configured(c, {}, {"image", "profile"})
      /\ Configured(d, {}, {"log_signature_lines", "tail"})
             => Configured(c, {}, {"log_signature_lines", "tail"})
  BY <1>4, <1>6 DEF Configured, Details
<1>9. ConnectOptions(c) /\ DebugOptions(c, {}) /\ LogOptions(c, {})
  BY <1>1 DEF Validate
<1>10. ConnectOptions(d)
  <2>1. CASE name = "connect"
    BY <1>5, <1>7, <1>9, <2>1 DEF ConnectOptions, Switchable
  <2>2. CASE name # "connect"
    <3>1. d.connect = c.connect
      BY <1>5, <2>2 DEF Switches
    <3> QED
      BY <1>7, <1>9, <3>1 DEF ConnectOptions
  <2> QED
    BY <2>1, <2>2
<1>11. DebugOptions(d, {})
  <2>1. CASE name = "debug"
    <3>1. Configured(c, {}, {"image", "profile"}) = (({"image", "profile"} \intersect c.explicit) # {})
      BY DEF Configured
    <3> QED
      BY <1>5, <1>7, <1>8, <2>1, <3>1 DEF DebugOptions, Switchable
  <2>2. CASE name # "debug"
    <3>1. d.debug = c.debug
      BY <1>5, <2>2 DEF Switches
    <3> QED
      BY <1>7, <1>8, <1>9, <3>1 DEF DebugOptions
  <2> QED
    BY <2>1, <2>2
<1>12. LogOptions(d, {})
  <2>1. CASE name = "logs"
    <3>1. Configured(c, {}, {"log_signature_lines", "tail"})
              = (({"log_signature_lines", "tail"} \intersect c.explicit) # {})
      BY DEF Configured
    <3>2. d.unused = c.unused /\ d.logs = on
      BY <1>5, <2>1 DEF Switches
    <3> QED
      BY <1>7, <1>8, <1>9, <2>1, <3>1, <3>2 DEF LogOptions, Switchable
  <2>2. CASE name # "logs"
    <3>1. d.logs = c.logs /\ (name = "unused" \/ d.unused = c.unused)
      BY <1>5, <2>2 DEF Switches
    <3> QED
      BY <1>7, <1>8, <1>9, <3>1 DEF LogOptions, Switchable
  <2> QED
    BY <2>1, <2>2
<1>13. Validate(d, {})
  BY <1>1, <1>2, <1>10, <1>11, <1>12, SwitchingIsValid
<1>14. WithSetting(c, name, on) = {d}
  BY <1>13 DEF WithSetting, Tried, d
<1> QED
  BY <1>2, <1>3, <1>13, <1>14 DEF Sound, d

\* Some configuration comes out, and each is valid and of the same run.
Leads(outcomes, c) ==
    /\ outcomes # {}
    /\ \A d \in outcomes : Sound(d) /\ \A n \in Untouched : d[n] = c[n]

\* Forgetting a detail of c leaves d and nothing else.
DroppedTo(d, c, name) ==
    /\ Dropped({c}, name) = {d}
    /\ \A n \in Untouched : d[n] = c[n]
    /\ \A n \in Details \ {name} : d[n] = c[n]
    /\ d[name] = Defaults[name]
    /\ d.explicit = c.explicit \ {name}

\* Forgetting a detail has one result.
LEMMA OneDropped ==
    ASSUME NEW c, Sound(c), NEW name \in Details
    PROVE  \E d : Sound(d) /\ DroppedTo(d, c, name)
<1> DEFINE d == Without(c, name)
<1>1. WithoutSetting(c, name) = {d} /\ Switching(d, c, name, Defaults[name]) /\ Sound(d)
  BY DroppedIsValid
<1>2. name \notin Switches
  BY DEF Switches, Details
<1> HIDE DEF d
<1>3. Dropped({c}, name) = {d}
  BY <1>1 DEF Dropped
<1>4. /\ \A n \in Untouched : d[n] = c[n]
      /\ \A n \in Details \ {name} : d[n] = c[n]
      /\ d[name] = Defaults[name]
  BY <1>1, SwitchingTouches
<1>5. DroppedTo(d, c, name)
  BY <1>1, <1>2, <1>3, <1>4 DEF DroppedTo, Switching
<1> QED
  BY <1>1, <1>5

\* Switching an option that finds what it asks for has a result.
LEMMA OneSwitched ==
    ASSUME NEW c, Sound(c), NEW name \in Switches, NEW on \in BOOLEAN, Switchable(c, name, on)
    PROVE  Leads(Switched({c}, name, on), c) /\ Leads(Tried(With(c, name, on)), c)
<1> DEFINE d == With(c, name, on)
<1>1. WithSetting(c, name, on) = {d} /\ Switching(d, c, name, on) /\ Sound(d)
  BY SwitchedIsValid
<1>2. Tried(d) = {d}
  BY <1>1 DEF WithSetting
<1> HIDE DEF d
<1>3. Switched({c}, name, on) = {d}
  BY <1>1 DEF Switched
<1>4. Leads({d}, c)
  BY <1>1, SwitchingTouches DEF Leads
<1> QED
  BY <1>2, <1>3, <1>4 DEF d

\* What is of the same run as d is of the same run as c.
LEMMA LeadsOn ==
    ASSUME NEW c, NEW d, NEW outcomes, Leads(outcomes, d), \A n \in Untouched : d[n] = c[n]
    PROVE  Leads(outcomes, c)
  BY DEF Leads

\* In a run over the whole cluster the logs can be switched on and off, whatever
\* log settings there are.
LEMMA LogsSwitch ==
    ASSUME NEW c, Sound(c), c.mode = "all", NEW on \in BOOLEAN
    PROVE  Leads(SetLogs(c, on), c)
<1>1. CASE on
  <2>1. Switchable(c, "logs", on) /\ "logs" \in Switches
    BY <1>1 DEF Switchable, Switches
  <2>2. SetLogs(c, on) = Switched({c}, "logs", on)
    BY <1>1 DEF SetLogs
  <2> QED
    BY <2>1, <2>2, OneSwitched
<1>2. CASE ~on
  <2>1. {"log_signatures_file", "log_signature_lines", "tail"} \subseteq Details
    BY DEF Details
  <2>2. PICK d1 : Sound(d1) /\ DroppedTo(d1, c, "log_signatures_file")
    BY <2>1, OneDropped
  <2>3. PICK d2 : Sound(d2) /\ DroppedTo(d2, d1, "log_signature_lines")
    BY <2>1, <2>2, OneDropped
  <2>4. PICK d3 : Sound(d3) /\ DroppedTo(d3, d2, "tail")
    BY <2>1, <2>3, OneDropped
  <2>5. \A n \in Untouched : d3[n] = c[n]
    BY <2>2, <2>3, <2>4 DEF DroppedTo
  <2>6. d3.log_signatures_file = ""
    <3>1. d1.log_signatures_file = Defaults.log_signatures_file
      BY <2>2 DEF DroppedTo
    <3>2. d2.log_signatures_file = d1.log_signatures_file
      BY <2>3 DEF DroppedTo, Details
    <3>3. d3.log_signatures_file = d2.log_signatures_file
      BY <2>4 DEF DroppedTo, Details
    <3> QED
      BY <3>1, <3>2, <3>3, DefaultValues, ZenonT(60)
  <2>7. {"log_signature_lines", "tail"} \intersect d3.explicit = {}
    BY <2>3, <2>4 DEF DroppedTo
  <2>8. d3.mode = "all"
    BY <2>5 DEF Untouched
  <2>9. Switchable(d3, "logs", on) /\ "logs" \in Switches
    BY <1>2, <2>6, <2>7, <2>8 DEF Switchable, Switches
  <2>10. SetLogs(c, on) = Switched({d3}, "logs", on)
    BY <1>2, <2>2, <2>3, <2>4 DEF SetLogs, DroppedTo
  <2> QED
    BY <2>4, <2>5, <2>9, <2>10, OneSwitched, LeadsOn
<1> QED
  BY <1>1, <1>2

\* For one Pod the connection checks can be switched on and off, whatever port and
\* path there are.
LEMMA ConnectSwitch ==
    ASSUME NEW c, Sound(c), c.mode = "select", NEW on \in BOOLEAN
    PROVE  Leads(SetConnect(c, on), c)
<1>1. CASE on
  <2>1. Switchable(c, "connect", on) /\ "connect" \in Switches
    BY <1>1 DEF Switchable, Switches
  <2>2. SetConnect(c, on) = Switched({c}, "connect", on)
    BY <1>1 DEF SetConnect
  <2> QED
    BY <2>1, <2>2, OneSwitched
<1>2. CASE ~on
  <2>1. {"connect_port", "connect_path"} \subseteq Details
    BY DEF Details
  <2>2. PICK d1 : Sound(d1) /\ DroppedTo(d1, c, "connect_port")
    BY <2>1, OneDropped
  <2>3. PICK d2 : Sound(d2) /\ DroppedTo(d2, d1, "connect_path")
    BY <2>1, <2>2, OneDropped
  <2>4. \A n \in Untouched : d2[n] = c[n]
    BY <2>2, <2>3 DEF DroppedTo
  <2>5. d2.connect_port = 0
    BY <2>1, <2>2, <2>3, DefaultValues, ZenonT(60) DEF DroppedTo
  <2>6. d2.connect_path = ""
    BY <2>3, DefaultValues, ZenonT(60) DEF DroppedTo
  <2>7. Switchable(d2, "connect", on) /\ "connect" \in Switches
    BY <1>2, <2>5, <2>6 DEF Switchable, Switches
  <2>8. SetConnect(c, on) = Switched({d2}, "connect", on)
    BY <1>2, <2>2, <2>3 DEF SetConnect, DroppedTo
  <2> QED
    BY <2>3, <2>4, <2>7, <2>8, OneSwitched, LeadsOn
<1> QED
  BY <1>1, <1>2

\* kubectl debug can be switched on where it has a terminal to itself, and off
\* everywhere, whatever image and profile there are.
LEMMA DebugSwitch ==
    ASSUME NEW c, Sound(c), Settled(c, {"image", "profile"}), NEW on \in BOOLEAN,
           on => c.mode \in {"all", "select"} /\ c.output = "text" /\ c.watch = 0
    PROVE  Leads(SetDebug(c, on), c)
<1>1. CASE on
  <2>1. c.image # "bad" /\ c.profile # "bad"
    <3>1. DebugOptions(c, {})
      BY DEF Sound, Validate
    <3>2. CASE c.debug
      BY <3>1, <3>2 DEF DebugOptions
    <3>3. CASE ~c.debug
      <4>1. {"image", "profile"} \intersect c.explicit = {}
        BY <3>1, <3>3 DEF DebugOptions, Configured
      <4>2. c.image = Defaults.image /\ c.profile = Defaults.profile
        BY <4>1 DEF Settled
      <4> QED
        BY <4>2, DefaultValues, ZenonT(60)
    <3> QED
      BY <3>2, <3>3
  <2>2. Switchable(c, "debug", on) /\ "debug" \in Switches
    BY <1>1, <2>1 DEF Switchable, Switches
  <2>3. SetDebug(c, on) = Switched({c}, "debug", on)
    BY <1>1 DEF SetDebug
  <2> QED
    BY <2>2, <2>3, OneSwitched
<1>2. CASE ~on
  <2>1. {"image", "profile"} \subseteq Details
    BY DEF Details
  <2>2. PICK d1 : Sound(d1) /\ DroppedTo(d1, c, "image")
    BY <2>1, OneDropped
  <2>3. PICK d2 : Sound(d2) /\ DroppedTo(d2, d1, "profile")
    BY <2>1, <2>2, OneDropped
  <2>4. \A n \in Untouched : d2[n] = c[n]
    BY <2>2, <2>3 DEF DroppedTo
  <2>5. {"image", "profile"} \intersect d2.explicit = {}
    BY <2>2, <2>3 DEF DroppedTo
  <2>6. Switchable(d2, "debug", on) /\ "debug" \in Switches
    BY <1>2, <2>5 DEF Switchable, Switches
  <2>7. SetDebug(c, on) = Switched({d2}, "debug", on)
    BY <1>2, <2>2, <2>3 DEF SetDebug, DroppedTo
  <2> QED
    BY <2>3, <2>4, <2>6, <2>7, OneSwitched, LeadsOn
<1> QED
  BY <1>1, <1>2

\* The details of kubectl debug.
Ways == {"image", "profile"}

\* What a step makes of each of some configurations.
LEMMA LeadsThrough ==
    ASSUME NEW c, NEW outcomes, Leads(outcomes, c), NEW results,
           \A d \in outcomes : \E some \in results : Leads(some, d),
           \A some \in results : \E d \in outcomes : Leads(some, d)
    PROVE  Leads(UNION results, c)
  BY DEF Leads

\* kubectl debug can be switched in each of some configurations.
LEMMA DebugApplies ==
    ASSUME NEW c, NEW outcomes, Leads(outcomes, c), Sane(outcomes, Ways), NEW on \in BOOLEAN,
           on => c.mode \in {"all", "select"} /\ c.output = "text" /\ c.watch = 0
    PROVE  Leads(UNION {SetDebug(d, on) : d \in outcomes}, c)
<1>1. ASSUME NEW d \in outcomes
      PROVE  Leads(SetDebug(d, on), d)
  <2>1. Sound(d) /\ d.mode = c.mode /\ d.output = c.output /\ d.watch = c.watch
    BY DEF Leads, Untouched
  <2>2. Settled(d, {"image", "profile"})
    BY DEF Sane, Ways
  <2> QED
    BY <2>1, <2>2, DebugSwitch
<1> DEFINE results == {SetDebug(d, on) : d \in outcomes}
<1>2. /\ \A d \in outcomes : \E some \in results : Leads(some, d)
      /\ \A some \in results : \E d \in outcomes : Leads(some, d)
  BY <1>1
<1> HIDE DEF results
<1>3. Leads(UNION results, c)
  BY <1>2, LeadsThrough
<1> QED
  BY <1>3 DEF results

\* The search for unused resources can be switched in each of some configurations.
LEMMA UnusedApplies ==
    ASSUME NEW c, NEW outcomes, Leads(outcomes, c), c.mode = "all", NEW on \in BOOLEAN
    PROVE  Leads(UNION {Tried(With(d, "unused", on)) : d \in outcomes}, c)
<1>1. ASSUME NEW d \in outcomes
      PROVE  Leads(Tried(With(d, "unused", on)), d)
  <2>1. Sound(d) /\ d.mode = c.mode
    BY DEF Leads, Untouched
  <2>2. Switchable(d, "unused", on) /\ "unused" \in Switches
    BY <2>1 DEF Switchable, Switches
  <2> QED
    BY <2>1, <2>2, OneSwitched
<1> DEFINE results == {Tried(With(d, "unused", on)) : d \in outcomes}
<1>2. /\ \A d \in outcomes : \E some \in results : Leads(some, d)
      /\ \A some \in results : \E d \in outcomes : Leads(some, d)
  BY <1>1
<1> HIDE DEF results
<1>3. Leads(UNION results, c)
  BY <1>2, LeadsThrough
<1> QED
  BY <1>3 DEF results

\* Each step of a chain of edits keeps the form.
LEMMA ChainKeeps ==
    ASSUME NEW outcomes, NEW S, S \subseteq Settings, Sane(outcomes, S), NEW on \in BOOLEAN
    PROVE  /\ Sane(UNION {SetDebug(d, on) : d \in outcomes}, S)
           /\ Sane(UNION {Tried(With(d, "unused", on)) : d \in outcomes}, S)
<1>1. ASSUME NEW d \in outcomes
      PROVE  Sane(SetDebug(d, on), S) /\ Sane(Tried(With(d, "unused", on)), S)
  <2>1. WellFormed(d) /\ Settled(d, S)
    BY DEF Sane
  <2>2. "unused" \in Settings /\ Fitting("unused", on) /\ Settled(d, S \ {"unused"})
    BY <2>1, SettingNames, SettledWithout DEF Fitting, Outputs, Inputs
  <2>3. Sane(WithSetting(d, "unused", on), S)
    BY <2>1, <2>2, SettingKeeps
  <2> QED
    BY <2>1, <2>3, OptionsKeep DEF WithSetting
<1> QED
  BY <1>1 DEF Sane

\* Whatever is switched on the screen of the options, the run goes on.
LEMMA OptionsApply ==
    ASSUME NEW c, Sound(c), NEW S, S \subseteq Settings, Settled(c, S), Ways \subseteq S,
           profile \in {"all", "pod"}, c.mode = ModeOf[profile]
    PROVE  Leads(WithOptions(c), c) /\ Sane(WithOptions(c), S)
<1> DEFINE connect == "connect" \in toggles
           logs == "logs" \in toggles
           unused == "unused" \in toggles
           debug == "debug" \in toggles
<1>0. WellFormed(c) /\ connect \in BOOLEAN /\ logs \in BOOLEAN /\ unused \in BOOLEAN /\ debug \in BOOLEAN
  BY DEF Sound
<1>1. CASE profile = "pod"
  <2> DEFINE first == SetConnect(c, connect)
  <2>1. c.mode = "select"
    BY <1>1 DEF ModeOf
  <2>2. c.output = "text"
    BY <2>1 DEF Sound, Validate, StructuredOutput, WholeCluster
  <2>3. c.watch = 0
    <3>1. ~(c.watch > 0)
      BY <2>1 DEF Sound, Validate, ModeOptions, WholeCluster
    <3>2. c.watch \in Int
      BY <1>0 DEF WellFormed
    <3>3. c.watch >= 0
      <4>1. Ranges(c, {})
        BY DEF Sound, Validate
      <4> QED
        BY <4>1 DEF Ranges
    <3> QED
      BY <3>1, <3>2, <3>3
  <2>4. Leads(first, c) /\ Sane(first, S)
    BY <1>0, <2>1, ConnectSwitch, OptionsKeep
  <2>5. WithOptions(c) = UNION {SetDebug(d, debug) : d \in first}
    <3>1. "debug" \in Options(c)
      BY <1>1 DEF Options
    <3> QED
      BY <1>1, <3>1 DEF WithOptions, Then
  <2> HIDE DEF first, debug
  <2>6. Sane(first, Ways)
    BY <2>4 DEF Sane, Settled
  <2>7. Leads(UNION {SetDebug(d, debug) : d \in first}, c)
    BY <1>0, <2>1, <2>2, <2>3, <2>4, <2>6, DebugApplies
  <2>8. Sane(UNION {SetDebug(d, debug) : d \in first}, S)
    BY <1>0, <2>4, ChainKeeps
  <2> QED
    BY <2>5, <2>7, <2>8
<1>2. CASE profile = "all"
  <2> DEFINE first == SetLogs(c, logs)
             second == UNION {Tried(With(d, "unused", unused)) : d \in first}
  <2>1. c.mode = "all"
    BY <1>2 DEF ModeOf
  <2>2. Leads(first, c) /\ Sane(first, S)
    BY <1>0, <2>1, LogsSwitch, OptionsKeep
  <2>3. Leads(second, c) /\ Sane(second, S)
    <3> HIDE DEF first, unused
    <3> QED
      BY <1>0, <2>1, <2>2, UnusedApplies, ChainKeeps
  <2>4. WithOptions(c) = IF "debug" \in Options(c) THEN UNION {SetDebug(d, debug) : d \in second}
                         ELSE second
    <3>1. profile # "pod"
      BY <1>2
    <3> HIDE DEF logs, unused, debug
    <3>2. CASE "debug" \in Options(c)
      BY <3>1, <3>2 DEF WithOptions, Then, logs, unused, debug
    <3>3. CASE "debug" \notin Options(c)
      <4>1. WithOptions(c) = UNION {{d} : d \in second}
        BY <3>1, <3>3 DEF WithOptions, Then, logs, unused
      <4> HIDE DEF second
      <4> QED
        BY <3>3, <4>1
    <3> QED
      BY <3>2, <3>3
  <2>5. "debug" \in Options(c) => c.output = "text" /\ c.watch = 0
    BY <1>2 DEF Options
  <2> HIDE DEF second, debug
  <2>6. Sane(second, Ways)
    BY <2>3 DEF Sane, Settled
  <2>7. "debug" \in Options(c) => Leads(UNION {SetDebug(d, debug) : d \in second}, c)
    BY <1>0, <2>1, <2>3, <2>5, <2>6, DebugApplies
  <2>8. Sane(UNION {SetDebug(d, debug) : d \in second}, S)
    BY <1>0, <2>3, ChainKeeps
  <2> QED
    BY <2>3, <2>4, <2>7, <2>8
<1> QED
  BY <1>1, <1>2

\* The settings that the guide asks for.
Asked == {"tail", "connect_port", "connect_path", "image", "profile"}

\* Their values change nothing else.
LEMMA AskedKeepMode ==
    ASSUME NEW c, WellFormed(c), NEW name \in Asked, NEW outcomes \in Typed(c, name), NEW d \in outcomes
    PROVE  d.mode = c.mode
<1>1. name \in Settings /\ name # "mode" /\ name \notin Linked
  BY SettingNames DEF Asked, Linked
<1>2. "mode" \in Fields \ {"explicit", "show_api_requests", name}
  BY <1>1, FieldsOfDefaults, SettingNames DEF Fields
<1>3. DOMAIN c = Fields
  BY DEF WellFormed, Fields
<1>4. Without(c, name).mode = c.mode
  BY <1>1, <1>2, <1>3, WithoutIs DEF Edited
<1>5. \A value : With(c, name, value).mode = c.mode
  BY <1>1, <1>2, <1>3, WithIs DEF Edited
<1>6. Forgotten(c, name) \subseteq {Without(c, name)}
  <2>1. Forgotten(c, name) = WithoutSetting(c, name)
    BY <1>1 DEF Forgotten
  <2> QED
    BY <2>1 DEF WithoutSetting, Tried
<1>7. \A value : Prompted(c, name, value) \subseteq {With(c, name, value)}
  <2> TAKE value
  <2>1. Prompted(c, name, value) = {} \/ Prompted(c, name, value) = WithSetting(c, name, value)
    BY <1>1 DEF Prompted
  <2> QED
    BY <2>1 DEF WithSetting, Tried
<1> QED
  BY <1>4, <1>5, <1>6, <1>7 DEF Typed

-----------------------------------------------------------------------------
(* The settings file, and what is on the screens. *)

\* The settings that every mode has a use for.
Lasting == Settings \ Tuning

\* A settings file says all there is to say about the settings.
LEMMA LoadedIs ==
    ASSUME NEW values, DOMAIN values \subseteq Settings, NEW path
    PROVE  /\ DOMAIN Loaded(values, path) = Fields
           /\ Loaded(values, path).explicit = DOMAIN values
           /\ Loaded(values, path).file = path
           /\ \A n \in Settings :
                  Loaded(values, path)[n] = IF n \in DOMAIN values THEN values[n] ELSE Defaults[n]
           /\ Loaded(values, path).save_cluster_snapshot = Defaults.save_cluster_snapshot
           /\ Loaded(values, path).load_cluster_snapshot = Defaults.load_cluster_snapshot
<1> DEFINE r == [n \in DOMAIN Defaults |->
                    IF n = "explicit" THEN Defaults.explicit \union DOMAIN values
                    ELSE IF n \in DOMAIN values THEN values[n] ELSE Defaults[n]]
           i == InheritLegacy(r)
           d == [i EXCEPT !.file = path]
<1>1. /\ {"explicit", "file", "save_cluster_snapshot", "load_cluster_snapshot"} \subseteq Fields
      /\ Settings \subseteq Fields
      /\ Settings \intersect {"explicit", "file", "save_cluster_snapshot", "load_cluster_snapshot"} = {}
  BY FieldsOfDefaults DEF Fields
<1>2. Loaded(values, path) = d
  BY DEF Loaded, LoadINI
<1>3. Defaults.explicit = {}
  BY DefaultValues, ZenonT(60)
<1>4. /\ DOMAIN r = Fields /\ r.explicit = DOMAIN values
      /\ \A n \in Fields \ {"explicit"} : r[n] = IF n \in DOMAIN values THEN values[n] ELSE Defaults[n]
  BY <1>1, <1>3 DEF Fields
<1> HIDE DEF r
<1>5. /\ DOMAIN i = Fields
      /\ \A n \in Fields \ {"show_api_requests"} : i[n] = r[n]
      /\ i.explicit = r.explicit
      /\ \/ i.show_api_requests = r.show_api_requests
         \/ i.show_api_requests = Defaults.show_api_requests /\ "show_api_requests" \notin r.explicit
  BY <1>4, InheritLegacyIs
<1> HIDE DEF i
<1>6. /\ DOMAIN d = Fields /\ d.file = path /\ \A n \in Fields \ {"file"} : d[n] = i[n]
  BY <1>1, <1>5
<1> HIDE DEF d
<1>7. d.explicit = DOMAIN values
  BY <1>1, <1>4, <1>5, <1>6
<1>8. ASSUME NEW n \in Settings
      PROVE  d[n] = IF n \in DOMAIN values THEN values[n] ELSE Defaults[n]
  <2>1. n \in Fields \ {"explicit", "file"}
    BY <1>1
  <2>2. d[n] = i[n]
    BY <1>6, <2>1
  <2>3. r[n] = IF n \in DOMAIN values THEN values[n] ELSE Defaults[n]
    BY <1>4, <2>1
  <2>4. CASE n # "show_api_requests"
    BY <1>5, <2>1, <2>2, <2>3, <2>4
  <2>5. CASE n = "show_api_requests"
    BY <1>4, <1>5, <2>2, <2>3, <2>5
  <2> QED
    BY <2>4, <2>5
<1>9. ASSUME NEW n \in {"save_cluster_snapshot", "load_cluster_snapshot"}
      PROVE  d[n] = Defaults[n]
  <2>1. n \in Fields \ {"explicit", "file", "show_api_requests"} /\ n \notin DOMAIN values
    BY <1>1, SettingNames
  <2> QED
    BY <1>4, <1>5, <1>6, <2>1
<1>10. /\ d.save_cluster_snapshot = Defaults.save_cluster_snapshot
       /\ d.load_cluster_snapshot = Defaults.load_cluster_snapshot
  BY <1>9
<1> QED
  BY <1>2, <1>6, <1>7, <1>8, <1>10

\* What the editor has and what the next start would read of the file.
Agree(c) == ini.exists /\ c.file # "" => ReadsAs(ini.values, c)

\* The defaults have the form and are settled.
LEMMA DefaultsAreWellFormed == WellFormed(Defaults) /\ Settled(Defaults, Lasting)
<1>1. DOMAIN Defaults = DOMAIN Defaults /\ Defaults.explicit \subseteq Settings
  BY DefaultValues, ZenonT(60)
<1>2. Defaults.save_cluster_snapshot = "" /\ Defaults.load_cluster_snapshot = ""
  BY DefaultValues, ZenonT(60)
<1>3. Defaults.logs \in BOOLEAN
  BY DefaultValues, ZenonT(60)
<1>4. Defaults.watch \in Int
  BY DefaultNumbers
<1>5. \A option \in Outputs \union Inputs : Known(option, Defaults[option])
  BY DefaultPaths DEF Known
<1> QED
  BY <1>1, <1>2, <1>3, <1>4, <1>5 DEF WellFormed, Settled

\* A file that could be parsed.
Legible(values, path) ==
    /\ DOMAIN values \subseteq Settings
    /\ \A name \in DOMAIN values : Fitting(name, values[name])
    /\ Known("file", path)

\* What a legible settings file makes has the form and is settled.
LEMMA LoadedIsWellFormed ==
    ASSUME NEW values, NEW path, Legible(values, path)
    PROVE  WellFormed(Loaded(values, path)) /\ Settled(Loaded(values, path), Lasting)
<1> DEFINE d == Loaded(values, path)
<1>1. /\ DOMAIN d = Fields /\ d.explicit = DOMAIN values /\ d.file = path
      /\ \A n \in Settings : d[n] = IF n \in DOMAIN values THEN values[n] ELSE Defaults[n]
      /\ d.save_cluster_snapshot = Defaults.save_cluster_snapshot
      /\ d.load_cluster_snapshot = Defaults.load_cluster_snapshot
  BY LoadedIs DEF Legible
<1> HIDE DEF d
<1>2. \A n \in Settings : Fitting(n, d[n])
  BY <1>1, DefaultsFit DEF Legible
<1>3. "logs" \in Settings /\ "watch" \in Settings
  BY SettingNames
<1>4. d.logs \in BOOLEAN /\ d.watch \in Int
  BY <1>2, <1>3 DEF Fitting
<1>5. \A option \in Outputs \union Inputs : Known(option, d[option])
  <2> TAKE option \in Outputs \union Inputs
  <2>1. CASE option \in Settings
    BY <1>2, <2>1 DEF Fitting
  <2>2. CASE option \notin Settings
    <3>1. option \in {"file", "save_cluster_snapshot", "load_cluster_snapshot"}
      BY <2>2, FieldsOfDefaults, SettingNames DEF Outputs, Inputs
    <3>2. CASE option = "file"
      BY <1>1, <3>2 DEF Legible
    <3>3. CASE option # "file"
      BY <1>1, <3>1, <3>3, DefaultValues, ZenonT(60) DEF Known
    <3> QED
      BY <3>2, <3>3
  <2> QED
    BY <2>1, <2>2
<1>6. d.save_cluster_snapshot = "" /\ d.load_cluster_snapshot = ""
  BY <1>1, DefaultValues, ZenonT(60)
<1>7. d.explicit \subseteq Settings /\ DOMAIN d = DOMAIN Defaults
  BY <1>1 DEF Legible, Fields
<1>8. WellFormed(d)
  BY <1>4, <1>5, <1>6, <1>7 DEF WellFormed
<1>9. Settled(d, Lasting)
  BY <1>1 DEF Settled, Lasting
<1> QED
  BY <1>8, <1>9 DEF d

\* What was written is what the next start reads.
LEMMA SavesAgree ==
    ASSUME NEW c, WellFormed(c), Settled(c, Lasting), NEW d \in Save(c),
           ini' = [exists |-> TRUE, values |-> Render(d)]
    PROVE  /\ WellFormed(d) /\ Settled(d, Lasting) /\ Validate(d, {})
           /\ ReadsAs(ini'.values, d)
<1> DEFINE path == Canonical[IF c.file = "" THEN DefaultFile ELSE c.file]
           values == Render(d)
<1>1. d = [c EXCEPT !.file = path] /\ Validate(d, {})
  BY DEF Save, Tried
<1>2. "file" \in Fields /\ "explicit" \in Fields /\ Settings \subseteq Fields /\ "file" \notin Settings
  BY FieldsOfDefaults DEF Fields
<1>3. Known("file", path)
  <2>1. Known("file", c.file)
    BY DEF WellFormed, Inputs
  <2> QED
    BY <2>1, PathAssumption DEF PathAssumption, Known
<1> HIDE DEF path
<1>4. DOMAIN d = Fields /\ d.file = path /\ \A n \in Fields \ {"file"} : d[n] = c[n]
  BY <1>1, <1>2 DEF WellFormed, Fields
<1>5. {"explicit", "save_cluster_snapshot", "load_cluster_snapshot", "logs", "watch"} \subseteq Fields \ {"file"}
  BY FieldsOfDefaults, SettingNames DEF Fields
<1>6. /\ d.explicit = c.explicit /\ d.save_cluster_snapshot = c.save_cluster_snapshot
      /\ d.load_cluster_snapshot = c.load_cluster_snapshot /\ d.logs = c.logs /\ d.watch = c.watch
  BY <1>4, <1>5
<1>7. \A option \in Outputs \union Inputs : Known(option, d[option])
  <2> TAKE option \in Outputs \union Inputs
  <2>1. CASE option = "file"
    BY <1>3, <1>4, <2>1
  <2>2. CASE option # "file"
    BY <1>4, <2>2, DefaultPaths DEF WellFormed
  <2> QED
    BY <2>1, <2>2
<1>8. WellFormed(d)
  BY <1>4, <1>6, <1>7 DEF WellFormed, Fields
<1>9. Settled(d, Lasting)
  BY <1>2, <1>4, <1>6 DEF Settled, Lasting
<1>10. DOMAIN values = d.explicit /\ \A n \in d.explicit : values[n] = d[n]
  BY DEF Render
<1> HIDE DEF values
<1> DEFINE next == Loaded(values, d.file)
<1>11. /\ next.explicit = DOMAIN values
       /\ \A n \in Settings : next[n] = IF n \in DOMAIN values THEN values[n] ELSE Defaults[n]
  <2>1. DOMAIN values \subseteq Settings
    BY <1>8, <1>10 DEF WellFormed
  <2> QED
    BY <2>1, LoadedIs
<1> HIDE DEF next
<1>12. next.explicit = d.explicit /\ \A name \in Settings : next[name] = d[name] \/ name \in Tuning
  BY <1>9, <1>10, <1>11 DEF Settled, Lasting
<1>13. ini'.values = values
  BY DEF values
<1> QED
  BY <1>1, <1>8, <1>9, <1>12, <1>13 DEF next, ReadsAs

\* The command line and the settings file that a start meets.
Met == \E start \in Starts : line = start.line /\ ini = start.ini /\ terminal = start.terminal

\* The settings file of a start, if there is one, is legible.
LEMMA FilesAreLegible ==
    ASSUME Met, ini.exists
    PROVE  Legible(ini.values, SettingsFile(line))
<1>1. PICK start \in Starts : line = start.line /\ ini = start.ini
  BY DEF Met
<1>2. DOMAIN ini.values \subseteq Settings
  BY <1>1, StartAssumption DEF StartAssumption
<1>3. ASSUME NEW name \in DOMAIN ini.values
      PROVE  Fitting(name, ini.values[name])
  <2>1. Parses(name, ini.values[name])
    BY <1>1, StartAssumption DEF StartAssumption
  <2>2. name = "logs" => ini.values[name] \in BOOLEAN
    BY <1>1, StartAssumption DEF StartAssumption, BooleanSettings
  <2>3. name = "watch" => ini.values[name] \in Int
    BY <2>1 DEF Parses, Minimum
  <2>4. name \in Outputs \union Inputs => Known(name, ini.values[name])
    BY <1>1, PathAssumption DEF PathAssumption
  <2> QED
    BY <2>2, <2>3, <2>4 DEF Fitting
<1>4. Known("file", SettingsFile(line))
  <2>1. Known("file", line.config)
    BY <1>1, PathAssumption DEF PathAssumption
  <2> QED
    BY <2>1, PathAssumption DEF PathAssumption, Known, SettingsFile
<1> QED
  BY <1>2, <1>3, <1>4 DEF Legible

\* A configuration with the same fields.
LEMMA SameFields ==
    ASSUME NEW b, NEW w, WellFormed(b), Settled(b, Lasting), Agree(b),
           w = [n \in DOMAIN b |-> b[n]]
    PROVE  WellFormed(w) /\ Settled(w, Lasting) /\ Agree(w)
<1>1. DOMAIN b = Fields
  BY DEF WellFormed, Fields
<1>2. DOMAIN w = Fields /\ \A n \in Fields : w[n] = b[n]
  BY <1>1
<1>3. /\ {"explicit", "file", "save_cluster_snapshot", "load_cluster_snapshot", "logs", "watch"} \subseteq Fields
      /\ Settings \subseteq Fields
  BY FieldsOfDefaults, SettingNames DEF Fields
<1>4. /\ w.explicit = b.explicit /\ w.file = b.file /\ w.logs = b.logs /\ w.watch = b.watch
      /\ w.save_cluster_snapshot = b.save_cluster_snapshot
      /\ w.load_cluster_snapshot = b.load_cluster_snapshot
  BY <1>2, <1>3
<1>5. \A option \in Outputs \union Inputs : Known(option, w[option])
  BY <1>2, DefaultPaths DEF WellFormed
<1>6. WellFormed(w)
  BY <1>2, <1>4, <1>5 DEF WellFormed, Fields
<1>7. Settled(w, Lasting)
  BY <1>2, <1>3, <1>4 DEF Settled, Lasting
<1>8. Agree(w)
  BY <1>2, <1>3, <1>4 DEF Agree, ReadsAs
<1> QED
  BY <1>6, <1>7, <1>8

\* What the screens start from.
LEMMA ParsedOnScreens ==
    ASSUME Met, Screened, Accepted(line, ini)
    PROVE  /\ WellFormed(Parsed(line, ini)) /\ Settled(Parsed(line, ini), Lasting)
           /\ Agree(Parsed(line, ini))
<1> DEFINE values == IF ini.exists THEN ini.values ELSE <<>>
           b == IF line.no_config \/ (line.config = "" /\ ~ini.exists) THEN Defaults
                ELSE Loaded(values, SettingsFile(line))
<1>1. DOMAIN line.flags = {} /\ line.command \in {"", "config"}
  BY DEF Screened, Interactive, Accepted, Contradicts
<1>2. line.command \notin DOMAIN ModeOf
  BY <1>1 DEF ModeOf
<1>3. Parsed(line, ini) = WithFlags(b, line.flags)
  BY <1>2 DEF Parsed
<1> HIDE DEF b
<1>4. WithFlags(b, line.flags) = [n \in DOMAIN b |-> b[n]]
  BY <1>1 DEF WithFlags
<1>5. \/ b = Defaults
      \/ b = Loaded(values, SettingsFile(line)) /\ ~(line.no_config \/ (line.config = "" /\ ~ini.exists))
  BY DEF b
<1>6. CASE b = Defaults
  <2>1. Agree(Defaults)
    BY DefaultValues, ZenonT(60) DEF Agree, ReadsAs
  <2> QED
    BY <1>3, <1>4, <1>6, <2>1, DefaultsAreWellFormed, SameFields
<1>7. CASE b = Loaded(values, SettingsFile(line)) /\ ini.exists
  <2>1. Legible(values, SettingsFile(line))
    BY <1>7, FilesAreLegible
  <2>2. WellFormed(b) /\ Settled(b, Lasting)
    BY <1>7, <2>1, LoadedIsWellFormed
  <2>4. b.file = SettingsFile(line)
    BY <1>7, <2>1, LoadedIs DEF Legible
  <2>5. values = ini.values
    BY <1>7
  <2>6. Agree(b)
    BY <1>7, <2>4, <2>5 DEF Agree, ReadsAs
  <2> QED
    BY <1>3, <1>4, <2>2, <2>6, SameFields
<1>8. CASE b = Loaded(values, SettingsFile(line)) /\ ~ini.exists
  <2>1. values = <<>> /\ DOMAIN values = {}
    BY <1>8
  <2>2. Known("file", SettingsFile(line))
    <3>1. PICK start \in Starts : line = start.line /\ ini = start.ini
      BY DEF Met
    <3>2. Known("file", line.config)
      BY <3>1, PathAssumption DEF PathAssumption
    <3> QED
      BY <3>2, PathAssumption DEF PathAssumption, Known, SettingsFile
  <2>3. Legible(values, SettingsFile(line))
    BY <2>1, <2>2 DEF Legible
  <2>4. WellFormed(b) /\ Settled(b, Lasting)
    BY <1>8, <2>3, LoadedIsWellFormed
  <2>6. Agree(b)
    BY <1>8 DEF Agree, ReadsAs
  <2> QED
    BY <1>3, <1>4, <2>4, <2>6, SameFields
<1> QED
  BY <1>5, <1>6, <1>7, <1>8

\* What the screens are about: the option or the detail they are at.
ScreensInv ==
    /\ screen \in Menus \union Prompts \union Ends
    /\ screen \in {"options", "detail"} => profile \in {"all", "pod"}
    /\ toggles \subseteq Settings
    /\ details \in Seq(Asked) /\ at \in 0..Len(details)
    /\ details # <<>> => at > 0
    /\ screen = "detail" => details # <<>>
    /\ section \in DOMAIN Catalog
    /\ saves \in 0..MaxSaves
    /\ screen \in {"value", "switch"} => saves < MaxSaves /\ editing \in Settings

\* The guide asks for settings it knows.
LEMMA DetailsAreAsked ==
    ASSUME NEW c
    PROVE  DetailsOf(c) \in Seq(Asked)
<1> DEFINE tail == IF "tail" \in toggles THEN <<"tail">> ELSE <<>>
           tailAll == IF "logs" \in toggles /\ c.output = "text" THEN <<"tail">> ELSE <<>>
           connect == IF "connect" \in toggles THEN <<"connect_port", "connect_path">> ELSE <<>>
           debug == IF "debug" \in toggles \intersect Options(c) THEN <<"image", "profile">> ELSE <<>>
<1>1. <<>> \in Seq(Asked) /\ <<"tail">> \in Seq(Asked)
  BY DEF Asked
<1>2. <<"connect_port", "connect_path">> \in Seq(Asked) /\ <<"image", "profile">> \in Seq(Asked)
  BY DEF Asked
<1>3. tail \in Seq(Asked) /\ tailAll \in Seq(Asked) /\ connect \in Seq(Asked) /\ debug \in Seq(Asked)
  BY <1>1, <1>2
<1>4. DetailsOf(c) = IF profile = "pod" THEN tail \o connect \o debug ELSE tailAll \o debug
  BY DEF DetailsOf
<1> HIDE DEF tail, tailAll, connect, debug
<1>5. tail \o connect \in Seq(Asked) /\ tailAll \o debug \in Seq(Asked)
  BY <1>3
<1>6. (tail \o connect) \o debug \in Seq(Asked)
  BY <1>3, <1>5
<1> QED
  BY <1>4, <1>5, <1>6

\* Every answer leads to a screen of the guide, about an option or detail there is.
LEMMA AnswersKeepScreens ==
    ASSUME ScreensInv, Answer
    PROVE  ScreensInv' \/ screen' = "failed"
<1> USE DEF Show, Menus, Prompts, Ends
<1>0. "tail" \in Settings /\ {"connect", "debug", "logs", "unused"} \subseteq Settings /\ MaxSaves \in Nat
  BY SettingNames, GuideAssumption DEF GuideAssumption
<1>1. \A c, word : SwitchedOn(c, word) \subseteq Settings
  BY <1>0 DEF SwitchedOn
<1>14. Forget => /\ toggles' \subseteq Settings /\ details' \in Seq(Asked)
                 /\ at' \in 0..Len(details') /\ details' = <<>>
  BY DEF Forget
<1>2. CASE ChooseProfile
  <2>1. PICK command \in {"all", "pod", "list", "quick", "ci", "deep"} :
            IF Tried(Profile(base, command)) = {}
            THEN UNCHANGED <<candidate, toggles, screen, profile>>
            ELSE /\ candidate' = Profile(base, command)
                 /\ profile' = command
                 /\ toggles' = SwitchedOn(candidate', command)
                 /\ Show(IF command \in {"all", "pod"} THEN "options" ELSE "confirm")
    BY <1>2 DEF ChooseProfile
  <2>2. /\ screen = "root" /\ details' = <<>> /\ at' = 0 /\ UNCHANGED <<section, editing, saves>>
    BY <1>2 DEF ChooseProfile
  <2>3. toggles' \subseteq Settings
    BY <1>1, <2>1 DEF ScreensInv
  <2>4. \/ screen' = "root"
        \/ screen' = "options" /\ profile' \in {"all", "pod"}
        \/ screen' = "confirm"
    BY <2>1, <2>2
  <2> QED
    BY <2>2, <2>3, <2>4 DEF ScreensInv
<1>3. CASE Toggle
  <2>1. toggles' \subseteq Settings
    BY <1>0, <1>3 DEF Toggle, Options, ScreensInv
  <2> QED
    BY <1>3, <2>1 DEF Toggle, ScreensInv
<1>4. CASE Proceed
  <2>1. CASE WithOptions(candidate) = {}
    BY <1>4, <2>1 DEF Proceed
  <2>2. CASE WithOptions(candidate) # {}
    <3>1. /\ details' = DetailsOf(candidate')
          /\ at' = IF details' = <<>> THEN 0 ELSE 1
          /\ screen' = IF details' = <<>> THEN "confirm" ELSE "detail"
          /\ screen = "options" /\ UNCHANGED <<profile, toggles, section, editing, saves>>
      BY <1>4, <2>2 DEF Proceed
    <3>2. details' \in Seq(Asked)
      BY <3>1, DetailsAreAsked
    <3>3. at' \in 0..Len(details') /\ (details' # <<>> => at' > 0)
      BY <3>1, <3>2
    <3> QED
      BY <3>1, <3>2, <3>3 DEF ScreensInv
  <2> QED
    BY <2>1, <2>2
<1>5. CASE EnterDetail
  <2>1. /\ screen = "detail" /\ UNCHANGED <<profile, toggles, details, section, editing, saves>>
        /\ \/ UNCHANGED <<at, screen>>
           \/ at = Len(details) /\ screen' = "confirm" /\ UNCHANGED at
           \/ at # Len(details) /\ at' = at + 1 /\ UNCHANGED screen
    BY <1>5 DEF EnterDetail
  <2>2. at' \in 0..Len(details) /\ (details # <<>> => at' > 0)
    BY <2>1 DEF ScreensInv
  <2> QED
    BY <2>1, <2>2 DEF ScreensInv
<1>6. CASE LeaveDetail
  <2>1. /\ screen = "detail" /\ at' = at - 1
        /\ screen' = IF at = 1 THEN "options" ELSE "detail"
        /\ details' = IF at = 1 THEN <<>> ELSE details
        /\ UNCHANGED <<profile, section, editing, saves>>
    BY <1>6 DEF LeaveDetail
  <2>2. toggles' \subseteq Settings
    BY <1>1, <1>6 DEF LeaveDetail, ScreensInv
  <2>3. /\ details' \in Seq(Asked) /\ at' \in 0..Len(details') /\ (details' # <<>> => at' > 0)
        /\ (screen' = "detail" => details' # <<>>)
    BY <2>1 DEF ScreensInv
  <2> QED
    BY <2>1, <2>2, <2>3 DEF ScreensInv
<1>7. CASE LeaveOptions
  <2>1. screen' = "root" /\ Forget /\ UNCHANGED <<section, editing, saves>>
    BY <1>7 DEF LeaveOptions
  <2> QED
    BY <1>14, <2>1 DEF ScreensInv
<1>8. CASE LeaveConfirm
  <2>1. CASE profile \notin {"all", "pod"}
    <3>1. screen' = "root" /\ Forget /\ UNCHANGED <<section, editing, saves>>
      BY <1>8, <2>1 DEF LeaveConfirm
    <3> QED
      BY <1>14, <3>1 DEF ScreensInv
  <2>2. CASE profile \in {"all", "pod"}
    <3>1. /\ screen = "confirm"
          /\ screen' = IF details # <<>> THEN "detail" ELSE "options"
          /\ UNCHANGED <<profile, details, at, section, editing, saves>>
      BY <1>8, <2>2 DEF LeaveConfirm
    <3>2. toggles' \subseteq Settings
      BY <1>1, <1>8, <2>2 DEF LeaveConfirm
    <3> QED
      BY <2>2, <3>1, <3>2 DEF ScreensInv
  <2> QED
    BY <2>1, <2>2
<1>9. CASE ChooseSetting
  <2>1. PICK name \in ToSet(Catalog[section]) :
            editing' = name /\ screen' = IF name \in BooleanSettings THEN "switch" ELSE "value"
    BY <1>9 DEF ChooseSetting
  <2>2. name \in Settings
    BY DEF Settings, ScreensInv
  <2> QED
    BY <1>9, <2>1, <2>2 DEF ChooseSetting, ScreensInv
<1>10. CASE EnterSetting
  <2>1. /\ saves' = saves \/ saves' = saves + 1
        /\ screen \in {"value", "switch"} /\ screen' = "settings"
        /\ UNCHANGED <<profile, toggles, details, at, section>>
    BY <1>10 DEF EnterSetting
  <2>2. saves' \in 0..MaxSaves
    BY <1>0, <2>1 DEF ScreensInv
  <2> QED
    BY <2>1, <2>2 DEF ScreensInv
<1>11. CASE Confirm \/ EditSettings \/ LeaveSections \/ LeaveSetting
  BY <1>11 DEF Confirm, EditSettings, LeaveSections, LeaveSetting, ScreensInv
<1>12. CASE ChooseSection
  BY <1>12 DEF ChooseSection, ScreensInv
<1>13. CASE LeaveSettings \/ Quit \/ Interrupt
  <2>1. 1 \in DOMAIN Catalog
    BY DEF Catalog
  <2>2. CASE LeaveSettings
    BY <2>1, <2>2 DEF LeaveSettings, ScreensInv
  <2>3. CASE Quit \/ Interrupt
    <3>1. /\ screen' \in {"closed", "quit", "interrupted"}
          /\ Forget /\ section' = 1 /\ UNCHANGED <<profile, saves>>
      BY <2>3 DEF Quit, Interrupt
    <3> QED
      BY <1>14, <2>1, <3>1 DEF ScreensInv
  <2> QED
    BY <1>13, <2>2, <2>3
<1> QED
  BY <1>2, <1>3, <1>4, <1>5, <1>6, <1>7, <1>8, <1>9, <1>10, <1>11, <1>12, <1>13 DEF Answer

\* The screens of the editor, and those of a run.
Editors == {"sections", "settings", "value", "switch"}
Runs == {"root", "options", "detail", "confirm"}

\* The configurations of the guide have the form that the profiles and the editor
\* leave: what was started from and what is edited is settled; a guided run is in
\* the mode of its profile.
FormInv ==
    /\ WellFormed(base) /\ WellFormed(candidate)
    /\ Settled(base, Lasting)
    /\ screen \in Editors => Settled(candidate, Lasting)
    /\ screen \in {"options", "detail", "confirm"} /\ profile \in {"all", "pod"} =>
           candidate.mode = ModeOf[profile] /\ Settled(candidate, Ways)
    /\ screen # "failed"

\* The details of kubectl debug are settings that no mode has for tuning.
LEMMA WaysLast == Ways \subseteq Lasting /\ Lasting \subseteq Settings /\ Ways \subseteq Settings
  BY SettingNames DEF Ways, Lasting, Tuning, HistoryTuning, WebhookTuning

\* Every answer keeps the form, and none is refused.
LEMMA AnswersKeepForm ==
    ASSUME FormInv, ScreensInv, Validate(base, {}), Validate(candidate, {}), Answer
    PROVE  FormInv'
<1> USE DEF Show, Editors
<1>1. CASE ChooseProfile
  <2>1. PICK command \in {"all", "pod", "list", "quick", "ci", "deep"} :
            IF Tried(Profile(base, command)) = {}
            THEN UNCHANGED <<candidate, toggles, screen, profile>>
            ELSE /\ candidate' = Profile(base, command)
                 /\ profile' = command
                 /\ toggles' = SwitchedOn(candidate', command)
                 /\ Show(IF command \in {"all", "pod"} THEN "options" ELSE "confirm")
    BY <1>1 DEF ChooseProfile
  <2>2. screen = "root" /\ UNCHANGED base
    BY <1>1 DEF ChooseProfile
  <2>3. CASE Tried(Profile(base, command)) = {}
    BY <2>1, <2>2, <2>3 DEF FormInv
  <2>4. CASE Tried(Profile(base, command)) # {}
    <3>1. /\ candidate' = Profile(base, command) /\ profile' = command
          /\ screen' \in {"options", "confirm"}
      BY <2>1, <2>4
    <3>2. WellFormed(candidate')
      <4>1. command \in DOMAIN ModeOf
        BY DEF ModeOf
      <4> QED
        BY <3>1, <4>1, ProfilesAreValid DEF FormInv, Sound
    <3>3. ASSUME command \in {"all", "pod"}
          PROVE  candidate'.mode = ModeOf[command] /\ Settled(candidate', Ways)
      <4>1. command \in PlainCommands
        BY <3>3 DEF PlainCommands
      <4>2. candidate'.mode = ModeOf[command]
        BY <3>1, <4>1, PlainCommand DEF FormInv, Applied
      <4>3. Settled(candidate', Lasting \ {"mode"})
        BY <3>1, <4>1, ProfileSettles DEF FormInv, Lasting
      <4>4. Ways \subseteq Lasting \ {"mode"}
        BY WaysLast DEF Ways
      <4> QED
        BY <4>2, <4>3, <4>4 DEF Settled
    <3> QED
      BY <2>2, <3>1, <3>2, <3>3 DEF FormInv
  <2> QED
    BY <2>3, <2>4
<1>2. CASE Proceed
  <2>1. screen = "options" /\ profile \in {"all", "pod"} /\ UNCHANGED <<base, profile>>
    BY <1>2 DEF Proceed, ScreensInv
  <2>2. Sound(candidate) /\ candidate.mode = ModeOf[profile] /\ Settled(candidate, Ways)
    BY <2>1 DEF FormInv, Sound
  <2>3. Leads(WithOptions(candidate), candidate) /\ Sane(WithOptions(candidate), Ways)
    BY <2>1, <2>2, WaysLast, OptionsApply
  <2>4. candidate' \in WithOptions(candidate) /\ screen' \in {"confirm", "detail"}
    BY <1>2, <2>3 DEF Proceed, Leads
  <2>5. WellFormed(candidate') /\ Settled(candidate', Ways) /\ candidate'.mode = candidate.mode
    BY <2>3, <2>4 DEF Leads, Sane, Untouched
  <2> QED
    BY <2>1, <2>2, <2>4, <2>5 DEF FormInv
<1>3. CASE EnterDetail
  <2>1. PICK outcomes \in Typed(candidate, details[at]) \union {{candidate}} :
            (outcomes = {} /\ UNCHANGED <<candidate, screen>>)
              \/ (candidate' \in outcomes /\ screen' \in {"confirm", "detail"})
    BY <1>3 DEF EnterDetail
  <2>2. screen = "detail" /\ profile \in {"all", "pod"} /\ UNCHANGED <<base, profile>>
    BY <1>3 DEF EnterDetail, ScreensInv
  <2>3. details[at] \in Asked /\ details[at] \in Settings
    <3>1. at \in 1..Len(details)
      BY <2>2 DEF ScreensInv
    <3>2. details[at] \in Asked
      BY <3>1 DEF ScreensInv
    <3> QED
      BY <3>2, SettingNames DEF Asked
  <2>4. screen' \in {"confirm", "detail"}
    BY <2>1, <2>2
  <2>5. CASE UNCHANGED candidate
    BY <2>2, <2>4, <2>5 DEF FormInv
  <2>6. CASE candidate' \in outcomes /\ outcomes \in Typed(candidate, details[at])
    <3>1. Ways \subseteq Settings \ Tuning
      BY WaysLast DEF Lasting
    <3>2. WellFormed(candidate) /\ Settled(candidate, Ways) /\ candidate.mode = ModeOf[profile]
      BY <2>2 DEF FormInv
    <3>3. Sane(outcomes, Ways)
      BY <2>3, <2>6, <3>1, <3>2, TypedKeeps
    <3>4. candidate'.mode = candidate.mode
      BY <2>3, <2>6, <3>2, AskedKeepMode
    <3> QED
      BY <2>2, <2>4, <2>6, <3>2, <3>3, <3>4 DEF FormInv, Sane
  <2> QED
    BY <2>1, <2>5, <2>6
<1>4. CASE LeaveDetail
  BY <1>4 DEF LeaveDetail, FormInv, ScreensInv
<1>5. CASE LeaveConfirm
  <2>1. CASE profile \notin {"all", "pod"}
    <3>1. screen' = "root" /\ candidate' = base /\ base' = base
      BY <1>5, <2>1 DEF LeaveConfirm
    <3> QED
      BY <3>1 DEF FormInv
  <2>2. CASE profile \in {"all", "pod"}
    <3>1. /\ screen = "confirm" /\ screen' \in {"detail", "options"}
          /\ UNCHANGED <<base, candidate, profile>>
      BY <1>5, <2>2 DEF LeaveConfirm
    <3> QED
      BY <2>2, <3>1 DEF FormInv
  <2> QED
    BY <2>1, <2>2
<1>6. CASE EnterSetting
  <2>1. PICK outcomes \in Typed(candidate, editing) :
            UNCHANGED candidate
              \/ (candidate' \in Then(outcomes, Save)
                    /\ ini' = [exists |-> TRUE, values |-> Render(candidate')])
    BY <1>6 DEF EnterSetting
  <2>2. screen \in {"value", "switch"} /\ screen' = "settings" /\ UNCHANGED base
    BY <1>6 DEF EnterSetting
  <2>3. editing \in Settings /\ WellFormed(candidate) /\ Settled(candidate, Lasting)
    BY <2>2 DEF FormInv, ScreensInv
  <2>4. CASE UNCHANGED candidate
    BY <2>2, <2>3, <2>4 DEF FormInv
  <2>5. CASE /\ candidate' \in Then(outcomes, Save)
             /\ ini' = [exists |-> TRUE, values |-> Render(candidate')]
    <3>1. Sane(outcomes, Lasting)
      BY <2>3, TypedKeeps DEF Lasting
    <3>2. PICK d \in outcomes : candidate' \in Save(d)
      BY <2>5 DEF Then
    <3>3. WellFormed(d) /\ Settled(d, Lasting)
      BY <3>1 DEF Sane
    <3>4. WellFormed(candidate') /\ Settled(candidate', Lasting)
      BY <2>5, <3>2, <3>3, SavesAgree
    <3> QED
      BY <2>2, <3>4 DEF FormInv
  <2> QED
    BY <2>1, <2>4, <2>5
<1>7. CASE LeaveOptions \/ Quit \/ Interrupt
  <2>1. candidate' = base /\ base' = base /\ screen' \in {"root", "closed", "quit", "interrupted"}
    BY <1>7 DEF LeaveOptions, Quit, Interrupt
  <2> QED
    BY <2>1 DEF FormInv
<1>8. CASE Confirm \/ Toggle
  BY <1>8 DEF Confirm, Toggle, FormInv
<1>9. CASE EditSettings
  BY <1>9 DEF EditSettings, FormInv
<1>10. CASE LeaveSections
  BY <1>10 DEF LeaveSections, FormInv
<1>11. CASE ChooseSection \/ ChooseSetting \/ LeaveSettings \/ LeaveSetting
  <2>1. UNCHANGED <<base, candidate>> /\ screen \in Editors /\ screen' \in Editors
    BY <1>11 DEF ChooseSection, ChooseSetting, LeaveSettings, LeaveSetting
  <2> QED
    BY <2>1 DEF FormInv
<1> QED
  BY <1>1, <1>2, <1>3, <1>4, <1>5, <1>6, <1>7, <1>8, <1>9, <1>10, <1>11 DEF Answer

\* On the screens of a run the settings file says what was started from, in the
\* editor what is edited; after a save that reported an error nevertheless it
\* says what that save was to write.
Agreed ==
    IF unconfirmed # <<>> THEN ini.exists /\ ReadsAs(ini.values, unconfirmed[1])
    ELSE /\ screen \in Runs => Agree(base)
         /\ screen \in Editors => Agree(candidate)

\* Every answer leaves the settings file saying what the screen shows.
LEMMA AnswersAgree ==
    ASSUME FormInv, ScreensInv, Agreed, Validate(candidate, {}), Answer
    PROVE  Agreed'
<1> USE DEF Show, Editors, Runs
<1>1. CASE ChooseProfile \/ Toggle \/ Proceed \/ EnterDetail \/ LeaveDetail \/ LeaveOptions
             \/ LeaveConfirm
  <2>1. UNCHANGED <<ini, unconfirmed, base>> /\ screen \in Runs /\ screen' \notin Editors
    <3>1. CASE ChooseProfile
      BY <3>1 DEF ChooseProfile
    <3>2. CASE Toggle \/ LeaveDetail
      BY <3>2 DEF Toggle, LeaveDetail
    <3>3. CASE Proceed
      BY <3>3 DEF Proceed
    <3>4. CASE EnterDetail
      BY <3>4 DEF EnterDetail
    <3>5. CASE LeaveOptions \/ LeaveConfirm
      BY <3>5 DEF LeaveOptions, LeaveConfirm
    <3> QED
      BY <1>1, <3>1, <3>2, <3>3, <3>4, <3>5
  <2> QED
    BY <2>1 DEF Agreed, Agree
<1>2. CASE EditSettings
  <2>1. UNCHANGED <<ini, unconfirmed>> /\ candidate' = base /\ screen = "root" /\ screen' = "sections"
    BY <1>2 DEF EditSettings
  <2> QED
    BY <2>1 DEF Agreed, Agree
<1>3. CASE LeaveSections
  <2>1. UNCHANGED <<ini, unconfirmed>> /\ base' = candidate /\ screen = "sections" /\ screen' \in {"closed", "root"}
    BY <1>3 DEF LeaveSections
  <2> QED
    BY <2>1 DEF Agreed, Agree
<1>4. CASE ChooseSection \/ ChooseSetting \/ LeaveSettings \/ LeaveSetting
  <2>1. UNCHANGED <<ini, unconfirmed, candidate>> /\ screen \in Editors /\ screen' \in Editors
    BY <1>4 DEF ChooseSection, ChooseSetting, LeaveSettings, LeaveSetting
  <2> QED
    BY <2>1 DEF Agreed, Agree
<1>5. CASE EnterSetting
  <2>1. PICK outcomes \in Typed(candidate, editing) :
            \/ UNCHANGED <<candidate, ini, unconfirmed>>
            \/ \E saved \in Then(outcomes, Save) :
                  /\ ini' = [exists |-> TRUE, values |-> Render(saved)]
                  /\ \/ candidate' = saved /\ unconfirmed' = <<>>
                     \/ UNCHANGED candidate /\ unconfirmed' = <<saved>>
    BY <1>5 DEF EnterSetting
  <2>2. screen \in {"value", "switch"} /\ screen' = "settings"
    BY <1>5 DEF EnterSetting
  <2>3. editing \in Settings /\ WellFormed(candidate) /\ Settled(candidate, Lasting)
    BY <2>2 DEF FormInv, ScreensInv
  <2>4. CASE UNCHANGED <<candidate, ini, unconfirmed>>
    BY <2>2, <2>4 DEF Agreed, Agree
  <2>5. ASSUME NEW saved \in Then(outcomes, Save),
               ini' = [exists |-> TRUE, values |-> Render(saved)],
               \/ candidate' = saved /\ unconfirmed' = <<>>
               \/ UNCHANGED candidate /\ unconfirmed' = <<saved>>
        PROVE  Agreed'
    <3>1. Sane(outcomes, Lasting)
      BY <2>3, TypedKeeps DEF Lasting
    <3>2. PICK d \in outcomes : saved \in Save(d)
      BY DEF Then
    <3>3. WellFormed(d) /\ Settled(d, Lasting)
      BY <3>1 DEF Sane
    <3>4. ini'.exists /\ ReadsAs(ini'.values, saved)
      BY <2>5, <3>2, <3>3, SavesAgree
    <3>5. CASE candidate' = saved /\ unconfirmed' = <<>>
      BY <2>2, <3>4, <3>5 DEF Agreed, Agree
    <3>6. CASE unconfirmed' = <<saved>>
      <4>1. unconfirmed' # <<>> /\ unconfirmed'[1] = saved
        BY <3>6
      <4> QED
        BY <3>4, <4>1 DEF Agreed
    <3> QED
      BY <2>5, <3>5, <3>6
  <2> QED
    BY <2>1, <2>4, <2>5
<1>6. CASE Confirm \/ Quit \/ Interrupt
  <2>1. UNCHANGED <<ini, unconfirmed>> /\ screen' \in {"run", "closed", "quit", "interrupted"}
    BY <1>6 DEF Confirm, Quit, Interrupt
  <2> QED
    BY <2>1 DEF Agreed
<1> QED
  BY <1>1, <1>2, <1>3, <1>4, <1>5, <1>6 DEF Answer

\* Until something was started the command line is the one that was met; the
\* configurations of the guide have their form, and agree with the settings file.
GuideInv ==
    /\ phase = "start" => Met
    /\ ScreensInv
    /\ FormInv
    /\ IF phase = "guide" THEN Agreed ELSE unconfirmed = <<>>

\* The guide starts with what was parsed.
LEMMA StartMakesGuide ==
    ASSUME GuideInv, Start
    PROVE  GuideInv'
<1>1. /\ phase = "start" /\ phase' # "start"
      /\ UNCHANGED <<ini, toggles, details, at, section, editing, saves>>
      /\ unconfirmed = <<>> /\ unconfirmed' = <<>>
  BY DEF GuideInv, Start, Exit, GoTo
<1>2. CASE UNCHANGED <<base, candidate, screen, profile>> /\ phase' # "guide"
  <2>1. ScreensInv'
    BY <1>1, <1>2 DEF GuideInv, ScreensInv
  <2>2. FormInv'
    BY <1>2 DEF GuideInv, FormInv
  <2> QED
    BY <1>1, <1>2, <2>1, <2>2 DEF GuideInv
<1>3. CASE /\ Accepted(line, ini) /\ Screened /\ FirstScreen(Parsed(line, ini))
  <2>1. /\ WellFormed(Parsed(line, ini)) /\ Settled(Parsed(line, ini), Lasting)
        /\ Agree(Parsed(line, ini))
    BY <1>1, <1>3, ParsedOnScreens DEF GuideInv
  <2>2. /\ base' = Parsed(line, ini) /\ candidate' = Parsed(line, ini)
        /\ screen' \in {"root", "sections"}
    BY <1>3 DEF FirstScreen
  <2>3. ScreensInv'
    BY <1>1, <2>2 DEF GuideInv, ScreensInv, Menus
  <2>4. FormInv'
    BY <2>1, <2>2 DEF FormInv, Editors
  <2>5. Agreed'
    BY <1>1, <2>1, <2>2 DEF Agreed, Agree
  <2> QED
    BY <1>1, <2>3, <2>4, <2>5 DEF GuideInv
<1> QED
  BY <1>2, <1>3 DEF Start, Exit, GoTo

\* The form of the guide holds in every reachable state.
LEMMA GuideInvariance == Spec => []GuideInv
<1>1. Init => GuideInv
  <2> SUFFICES ASSUME Init
               PROVE  GuideInv
    OBVIOUS
  <2>1. /\ base = Defaults /\ candidate = Defaults /\ screen = "closed" /\ phase = "start" /\ Met
        /\ toggles = {} /\ details = <<>> /\ at = 0 /\ section = 1 /\ saves = 0
        /\ unconfirmed = <<>>
    BY DEF Init, Met
  <2>2. 1 \in DOMAIN Catalog /\ MaxSaves \in Nat /\ <<>> \in Seq(Asked)
    BY GuideAssumption DEF Catalog, GuideAssumption
  <2>3. ScreensInv
    BY <2>1, <2>2 DEF ScreensInv, Ends
  <2>4. FormInv
    BY <2>1, DefaultsAreWellFormed DEF FormInv, Editors
  <2> QED
    BY <2>1, <2>3, <2>4 DEF GuideInv
<1>2. ConfigInv /\ GuideInv /\ [Next]_vars => GuideInv'
  <2> SUFFICES ASSUME ConfigInv, GuideInv, [Next]_vars
               PROVE  GuideInv'
    OBVIOUS
  <2>1. CASE Start
    BY <2>1, StartMakesGuide
  <2>2. CASE Screens
    <3>1. Answer /\ phase = "guide" /\ phase' = "guide"
      BY <2>2 DEF Screens
    <3>2. Validate(base, {}) /\ Validate(candidate, {})
      BY <3>1 DEF ConfigInv
    <3>3. FormInv'
      BY <3>1, <3>2, AnswersKeepForm DEF GuideInv
    <3>4. ScreensInv'
      BY <3>1, <3>3, AnswersKeepScreens DEF GuideInv, FormInv
    <3>5. Agreed'
      BY <3>1, <3>2, AnswersAgree DEF GuideInv
    <3> QED
      BY <3>1, <3>3, <3>4, <3>5 DEF GuideInv
  <2>3. CASE LeaveGuide \/ GuideFails
    <3>1. phase' \in {"load", "over"}
      BY <2>3 DEF LeaveGuide, GuideFails, GoTo, Exit
    <3>2. /\ base' = Defaults /\ candidate' = Defaults /\ screen' = "closed"
          /\ toggles' = {} /\ details' = <<>> /\ at' = 0 /\ section' = 1 /\ saves' = 0
          /\ unconfirmed' = <<>>
      BY <2>3 DEF LeaveGuide, GuideFails, NoGuide
    <3>3. 1 \in DOMAIN Catalog /\ MaxSaves \in Nat /\ <<>> \in Seq(Asked)
      BY GuideAssumption DEF Catalog, GuideAssumption
    <3>4. ScreensInv'
      BY <3>2, <3>3 DEF ScreensInv, Ends
    <3>5. FormInv'
      BY <3>2, DefaultsAreWellFormed DEF FormInv, Editors
    <3> QED
      BY <3>1, <3>2, <3>4, <3>5 DEF GuideInv
  <2> DEFINE guide == <<ini, base, candidate, screen, profile, toggles, details, at, resumed, section,
                        editing, saves, unconfirmed>>
  <2>4. CASE /\ UNCHANGED guide
             /\ \/ UNCHANGED <<phase, line, terminal>>
                \/ phase # "guide" /\ phase' \notin {"start", "guide"}
    <3>1. ScreensInv'
      BY <2>4 DEF GuideInv, ScreensInv
    <3>2. FormInv'
      BY <2>4 DEF GuideInv, FormInv
    <3>3. IF phase' = "guide" THEN Agreed' ELSE unconfirmed' = <<>>
      BY <2>4 DEF GuideInv, Agreed, Agree
    <3>4. phase' = "start" => Met'
      BY <2>4 DEF GuideInv, Met
    <3> QED
      BY <3>1, <3>2, <3>3, <3>4 DEF GuideInv
  <2>5. Start \/ Screens \/ LeaveGuide \/ GuideFails
           \/ /\ UNCHANGED guide
              /\ \/ UNCHANGED <<phase, line, terminal>>
                 \/ phase # "guide" /\ phase' \notin {"start", "guide"}
    <3> USE DEF GoTo, Exit
    <3>1. CASE Load \/ Replay \/ Connect \/ Watch \/ List \/ SelectPod \/ Diagnose \/ Report
      BY <3>1 DEF Load, Replay, Connect, Watch, List, SelectPod, Diagnose, Report, world, guideVars
    <3>2. CASE LeaveScreen \/ ScreenFails \/ Resolve \/ Forward \/ Refresh \/ ChooseWay \/ ConfirmDebug
                  \/ Recheck \/ Launch \/ Finish
      BY <3>2 DEF LeaveScreen, ScreenFails, CloseScreen, Resolve, Forward, Refresh, ChooseWay,
                  ConfirmDebug, Recheck,
                  Launch, Finish, world, guideVars
    <3>3. CASE PodKeys \/ Environment
      BY <3>3 DEF PodKeys, Environment, Change, Signal, InputEnds, EndOfInput, guideVars
    <3>4. CASE Over \/ UNCHANGED vars
      BY <3>4 DEF Over, vars, guideVars
    <3> QED
      BY <3>1, <3>2, <3>3, <3>4 DEF Next, Program
  <2> HIDE DEF guide
  <2> QED
    BY <2>1, <2>2, <2>3, <2>4, <2>5
<1> QED
  BY <1>1, <1>2, ConfigInvariance, PTL DEF Spec

\* Every item of the root menu works whatever was edited, and no guided run is
\* refused.
THEOREM EveryItemLeadsOn == Spec => []ProfilesAlwaysApply
<1>1. ConfigInv /\ GuideInv => ProfilesAlwaysApply
  <2> SUFFICES ASSUME ConfigInv, GuideInv, phase = "guide"
               PROVE  /\ screen # "failed"
                      /\ \A command \in DOMAIN ModeOf : Validate(Profile(base, command), {})
    BY DEF ProfilesAlwaysApply
  <2>1. screen # "failed" /\ WellFormed(base)
    BY DEF GuideInv, FormInv
  <2>2. Validate(base, {})
    BY DEF ConfigInv
  <2> QED
    BY <2>1, <2>2, ProfilesAreValid DEF Sound
<1> QED
  BY <1>1, ConfigInvariance, GuideInvariance, PTL

\* What was edited is what the next start reads.
THEOREM EditsAreRead == Spec => []SavedIsWhatRuns
<1>1. GuideInv => SavedIsWhatRuns
  BY DEF GuideInv, Agreed, Agree, Editors, SavedIsWhatRuns
<1> QED
  BY <1>1, GuideInvariance, PTL

-----------------------------------------------------------------------------
(* The form of a configuration that was parsed. *)

\* The form of every configuration: a field for each setting and four more, of
\* which the files that are named have names of the file system.
Formed(c) ==
    /\ DOMAIN c = Fields
    /\ c.explicit \subseteq Settings
    /\ \A option \in Outputs \union Inputs : Known(option, c[option])

\* The options that name a file are not among those that a profile sets.
LEMMA FilesAreFields ==
    /\ Outputs \union Inputs \subseteq Fields
    /\ (Outputs \union Inputs) \intersect
           {"explicit", "mode", "logs", "unused", "show_commands", "show_api_requests", "output"} = {}
    /\ "explicit" \in Fields
<1>1. Outputs \union Inputs \subseteq Fields
  BY DefaultPaths
<1>2. (Outputs \union Inputs) \intersect
           {"explicit", "mode", "logs", "unused", "show_commands", "show_api_requests", "output"} = {}
  BY DEF Outputs, Inputs
<1> QED
  BY <1>1, <1>2, FieldsOfDefaults DEF Fields

\* What sets none of the files keeps the form.
LEMMA FormIsKept ==
    ASSUME NEW c, Formed(c), NEW d, DOMAIN d = Fields, d.explicit = c.explicit,
           \A n \in Fields \ {"explicit", "mode", "logs", "unused", "show_commands",
                              "show_api_requests", "output"} : d[n] = c[n]
    PROVE  Formed(d)
<1>1. \A option \in Outputs \union Inputs : d[option] = c[option]
  BY FilesAreFields
<1> QED
  BY <1>1 DEF Formed

\* A profile keeps the form.
LEMMA AppliedIsFormed ==
    ASSUME NEW c, Formed(c), NEW p, NEW mode, NEW values, NEW cleared,
           Applied(p, c, mode, values, cleared)
    PROVE  Formed(p)
<1>1. ASSUME NEW option \in Outputs \union Inputs
      PROVE  Known(option, p[option])
  <2>1. option \in Fields \ {"explicit", "mode"}
    BY FilesAreFields
  <2>2. p[option] = c[option] \/ p[option] = Defaults[option]
    BY <2>1 DEF Applied
  <2>3. Known(option, c[option])
    BY DEF Formed
  <2>4. Known(option, Defaults[option])
    BY DefaultPaths DEF Known
  <2> QED
    BY <2>2, <2>3, <2>4
<1> QED
  BY <1>1 DEF Formed, Applied

\* A configuration of the guide has the form of every configuration.
LEMMA WellFormedIsFormed ==
    ASSUME NEW c, WellFormed(c)
    PROVE  Formed(c)
  BY DEF WellFormed, Formed, Fields

\* Every command word keeps the form, whether its configuration is valid or not.
LEMMA ProfileIsFormed ==
    ASSUME NEW c, WellFormed(c), NEW command \in DOMAIN ModeOf
    PROVE  Formed(Profile(c, command))
<1>0. Formed(c)
  BY WellFormedIsFormed
<1>1. CASE command \in PlainCommands
  BY <1>0, <1>1, PlainCommand, AppliedIsFormed
<1>2. CASE command \in {"quick", "ci"}
  <2>1. PICK q, cleared :
            /\ Applied(q, c, "triage", Dismissed(c, "triage") \union Unattended \union Unasked, cleared)
            /\ Profile(c, command) = IF command = "ci"
                                     THEN [q EXCEPT !.show_commands = FALSE, !.output = "json"]
                                     ELSE [q EXCEPT !.show_commands = FALSE]
    BY <1>2, UnattendedCommand
  <2>2. Formed(q)
    BY <1>0, <2>1, AppliedIsFormed
  <2>3. DOMAIN q = Fields
    BY <2>2 DEF Formed
  <2>4. Formed([q EXCEPT !.show_commands = FALSE])
    BY <2>2, <2>3, FormIsKept, FilesAreFields
  <2>5. Formed([q EXCEPT !.show_commands = FALSE, !.output = "json"])
    BY <2>2, <2>3, FormIsKept, FilesAreFields
  <2> QED
    BY <2>1, <2>4, <2>5
<1>3. CASE command = "deep"
  <2>1. PICK q, cleared :
            /\ Applied(q, [c EXCEPT !.logs = TRUE], "all",
                       (Connection \union Unattended) \union {"output", "output_file"}, cleared)
            /\ Profile(c, "deep") = [q EXCEPT !.logs = TRUE, !.unused = TRUE]
    BY DeepCommand
  <2>2. DOMAIN c = Fields
    BY <1>0 DEF Formed
  <2>3. Formed([c EXCEPT !.logs = TRUE])
    BY <1>0, <2>2, FormIsKept, FilesAreFields
  <2>4. Formed(q) /\ DOMAIN q = Fields
    BY <2>1, <2>3, AppliedIsFormed DEF Formed
  <2>5. Formed([q EXCEPT !.logs = TRUE, !.unused = TRUE])
    BY <2>4, FormIsKept, FilesAreFields
  <2> QED
    BY <1>3, <2>1, <2>5
<1> QED
  BY <1>1, <1>2, <1>3 DEF ModeOf, PlainCommands

\* The options of the command line name files of the file system.
LEMMA FlagsKeepForm ==
    ASSUME Met, NEW c, Formed(c)
    PROVE  Formed(WithFlags(c, line.flags))
<1> DEFINE overlaid == [n \in DOMAIN c |-> IF n \in DOMAIN line.flags THEN line.flags[n] ELSE c[n]]
<1>1. PICK start \in Starts : line = start.line
  BY DEF Met
<1>2. /\ "explicit" \notin DOMAIN line.flags
      /\ \A option \in (Outputs \union Inputs) \intersect DOMAIN line.flags :
             Known(option, line.flags[option])
  BY <1>1, StartAssumption, PathAssumption DEF StartAssumption, PathAssumption
<1>3. Formed(overlaid)
  <2>1. DOMAIN overlaid = Fields /\ overlaid.explicit = c.explicit
    BY <1>2, FilesAreFields DEF Formed
  <2>2. \A option \in Outputs \union Inputs : Known(option, overlaid[option])
    BY <1>2, FilesAreFields DEF Formed
  <2> QED
    BY <2>1, <2>2 DEF Formed
<1>4. WithFlags(c, line.flags) \in {overlaid, [overlaid EXCEPT !.show_api_requests = FALSE]}
  BY DEF WithFlags
<1>5. DOMAIN overlaid = Fields
  BY <1>3 DEF Formed
<1> HIDE DEF overlaid
<1>6. Formed([overlaid EXCEPT !.show_api_requests = FALSE])
  BY <1>3, <1>5, FormIsKept, FilesAreFields
<1> QED
  BY <1>3, <1>4, <1>6

\* What was parsed has the form, whether it is accepted or not.
LEMMA ParsedIsFormed ==
    ASSUME Met
    PROVE  Formed(Parsed(line, ini))
<1> DEFINE values == IF ini.exists THEN ini.values ELSE <<>>
           b == IF line.no_config \/ (line.config = "" /\ ~ini.exists) THEN Defaults
                ELSE Loaded(values, SettingsFile(line))
           profiled == IF line.command \in DOMAIN ModeOf THEN Profile(b, line.command) ELSE b
<1>1. Legible(values, SettingsFile(line))
  <2>1. CASE ini.exists
    BY <2>1, FilesAreLegible
  <2>2. CASE ~ini.exists
    <3>1. values = <<>> /\ DOMAIN <<>> = {}
      BY <2>2
    <3>2. PICK start \in Starts : line = start.line
      BY DEF Met
    <3>3. Known("file", line.config) /\ DefaultFile \in DOMAIN Entry
      BY <3>2, PathAssumption DEF PathAssumption
    <3>4. Known("file", SettingsFile(line))
      BY <3>3 DEF Known, SettingsFile
    <3> QED
      BY <3>1, <3>4 DEF Legible
  <2> QED
    BY <2>1, <2>2
<1>2. WellFormed(b)
  <2> HIDE DEF values
  <2> QED
    BY <1>1, LoadedIsWellFormed, DefaultsAreWellFormed
<1>3. Formed(profiled)
  <2> HIDE DEF b
  <2> QED
    BY <1>2, ProfileIsFormed, WellFormedIsFormed
<1>4. Parsed(line, ini) = WithFlags(profiled, line.flags)
  BY DEF Parsed
<1> QED
  BY <1>3, <1>4, FlagsKeepForm

-----------------------------------------------------------------------------
(* The Pod at a line of the list. *)

\* How many of a set of numbers are below n.
Below(S, n) == Cardinality({q \in S : q < n})

\* A finite set of numbers has a bound.
LEMMA FiniteIsBounded ==
    ASSUME NEW S, S \subseteq Nat, IsFiniteSet(S)
    PROVE  \E n \in Nat : \A q \in S : q < n
<1> DEFINE T == {m \in Nat : \A R \in SUBSET S : Cardinality(R) = m => \E n \in Nat : \A q \in R : q < n}
<1>0. \A R \in SUBSET S : IsFiniteSet(R) /\ Cardinality(R) \in Nat
  BY FS_Subset, FS_CardinalityType
<1>1. 0 \in T
  BY <1>0, FS_EmptySet
<1>2. ASSUME NEW m \in Nat, m \in T
      PROVE  m + 1 \in T
  <2> SUFFICES ASSUME NEW R \in SUBSET S, Cardinality(R) = m + 1
               PROVE  \E n \in Nat : \A q \in R : q < n
    OBVIOUS
  <2>1. R # {}
    BY FS_EmptySet
  <2>2. PICK x \in R : TRUE
    BY <2>1
  <2>3. Cardinality(R \ {x}) = m
    <3>1. Cardinality(R \ {x}) = Cardinality(R) - 1
      BY <1>0, <2>2, FS_RemoveElement
    <3> QED
      BY <3>1
  <2>4. PICK n \in Nat : \A q \in R \ {x} : q < n
    BY <1>2, <2>3
  <2>5. x \in Nat /\ R \subseteq Nat
    BY <2>2
  <2>6. n + x + 1 \in Nat /\ \A q \in R : q < n + x + 1
    BY <2>4, <2>5
  <2> QED
    BY <2>6
<1> HIDE DEF T
<1>3. Nat \subseteq T
  BY <1>1, <1>2, InductionOverNat
<1> QED
  BY <1>0, <1>3 DEF T

\* One more number raises the count by one or not at all.
LEMMA BelowGrows ==
    ASSUME NEW S, S \subseteq Nat, IsFiniteSet(S), NEW n \in Nat
    PROVE  /\ Below(S, n) \in Nat
           /\ Below(S, n + 1) = Below(S, n) + (IF n \in S THEN 1 ELSE 0)
<1> DEFINE low == {q \in S : q < n}
<1>0. \A q \in S : q \in Nat /\ (q < n + 1 <=> q < n \/ q = n)
  OBVIOUS
<1>1. IsFiniteSet(low)
  BY FS_Subset
<1>2. Cardinality(low) \in Nat
  BY <1>1, FS_CardinalityType
<1>3. CASE n \in S
  <2>1. {q \in S : q < n + 1} = low \union {n}
    BY <1>0, <1>3
  <2>2. n \notin low
    OBVIOUS
  <2>3. Cardinality(low \union {n}) = Cardinality(low) + 1
    <3> HIDE DEF low
    <3> QED
      BY <1>1, <2>2, FS_AddElement
  <2> QED
    BY <1>2, <1>3, <2>1, <2>3 DEF Below
<1>4. CASE n \notin S
  <2>1. {q \in S : q < n + 1} = low
    <3>1. \A q \in S : q < n + 1 <=> q < n
      BY <1>0, <1>4
    <3> QED
      BY <3>1
  <2> QED
    BY <1>2, <1>4, <2>1 DEF Below
<1> QED
  BY <1>3, <1>4

\* A list in order has an element at every place of it.
LEMMA PlacesAreTaken ==
    ASSUME NEW S, S \subseteq Nat, IsFiniteSet(S), NEW k \in Nat, k < Cardinality(S)
    PROVE  \E p \in S : Below(S, p) = k
<1> SUFFICES ASSUME \A p \in S : Below(S, p) # k
             PROVE  FALSE
  OBVIOUS
<1> DEFINE T == {n \in Nat : Below(S, n) <= k}
<1>1. 0 \in T
  <2>1. \A q \in S : ~(q < 0)
    OBVIOUS
  <2>2. {q \in S : q < 0} = {}
    BY <2>1
  <2> QED
    BY <2>2, FS_EmptySet DEF Below
<1>2. ASSUME NEW n \in Nat, n \in T
      PROVE  n + 1 \in T
  <2>1. Below(S, n) \in Nat /\ Below(S, n + 1) = Below(S, n) + (IF n \in S THEN 1 ELSE 0)
    BY BelowGrows
  <2>2. n \in S => Below(S, n) # k
    OBVIOUS
  <2>3. Below(S, n) <= k
    BY <1>2
  <2>4. Below(S, n + 1) <= k
    BY <2>1, <2>2, <2>3
  <2> QED
    BY <2>4
<1> HIDE DEF T
<1>3. Nat \subseteq T
  BY <1>1, <1>2, InductionOverNat
<1>4. PICK n \in Nat : \A q \in S : q < n
  BY FiniteIsBounded
<1>5. {q \in S : q < n} = S
  BY <1>4
<1>6. Below(S, n) <= k /\ Below(S, n) = Cardinality(S)
  BY <1>3, <1>5 DEF T, Below
<1>7. Cardinality(S) \in Nat
  BY FS_CardinalityType
<1> QED
  BY <1>6, <1>7

-----------------------------------------------------------------------------
(* The types. *)

\* The command line stays the one that was met, and the configuration keeps its
\* form.
LineInv ==
    /\ line \in {start.line : start \in Starts} /\ terminal \in BOOLEAN
    /\ Formed(config)

\* A configuration that runs was parsed, or put together on the screens.
LEMMA LineInvariance == Spec => []LineInv
<1>1. Init => LineInv
  <2> SUFFICES ASSUME Init
               PROVE  LineInv
    OBVIOUS
  <2>1. config = Defaults /\ Met
    BY DEF Init, Met
  <2>2. Formed(Defaults)
    BY DefaultsAreWellFormed, WellFormedIsFormed
  <2>3. line \in {start.line : start \in Starts} /\ terminal \in BOOLEAN
    BY <2>1, StartAssumption DEF Met, StartAssumption
  <2> QED
    BY <2>1, <2>2, <2>3 DEF LineInv
<1>2. GuideInv /\ LineInv /\ [Next]_vars => LineInv'
  <2> SUFFICES ASSUME GuideInv, LineInv, [Next]_vars
               PROVE  LineInv'
    OBVIOUS
  <2>1. CASE Start
    <3>1. UNCHANGED <<line, terminal>> /\ (UNCHANGED config \/ config' = Parsed(line, ini))
      BY <2>1 DEF Start
    <3>2. Formed(Parsed(line, ini))
      <4>1. Met
        BY <2>1 DEF Start, GuideInv
      <4> QED
        BY <4>1, ParsedIsFormed
    <3>3. Formed(config')
      BY <3>1, <3>2 DEF LineInv
    <3> QED
      BY <3>1, <3>3 DEF LineInv
  <2>2. CASE LeaveGuide \/ GuideFails
    <3>1. UNCHANGED <<line, terminal>> /\ (UNCHANGED config \/ config' = candidate)
      BY <2>2 DEF LeaveGuide, GuideFails
    <3>2. Formed(candidate)
      BY WellFormedIsFormed DEF GuideInv, FormInv
    <3>3. Formed(config')
      BY <3>1, <3>2 DEF LineInv
    <3> QED
      BY <3>1, <3>3 DEF LineInv
  <2>3. CASE UNCHANGED <<line, terminal, config>>
    BY <2>3 DEF LineInv
  <2>4. Start \/ LeaveGuide \/ GuideFails \/ UNCHANGED <<line, terminal, config>>
    <3>1. CASE Load \/ Replay \/ Connect \/ Watch \/ List \/ SelectPod \/ Diagnose \/ Report
      BY <3>1 DEF Load, Replay, Connect, Watch, List, SelectPod, Diagnose, Report, world
    <3>2. CASE LeaveScreen \/ ScreenFails \/ Resolve \/ Forward \/ Refresh \/ ChooseWay \/ ConfirmDebug
                  \/ Recheck \/ Launch \/ Finish
      BY <3>2 DEF LeaveScreen, ScreenFails, CloseScreen, Resolve, Forward, Refresh, ChooseWay,
                  ConfirmDebug, Recheck,
                  Launch, Finish, world
    <3>3. CASE Screens \/ PodKeys \/ Environment
      BY <3>3 DEF Screens, PodKeys, Environment, Change, Signal, InputEnds
    <3>4. CASE Over \/ UNCHANGED vars
      BY <3>4 DEF Over, vars
    <3> QED
      BY <3>1, <3>2, <3>3, <3>4 DEF Next, Program
  <2> QED
    BY <2>1, <2>2, <2>3, <2>4
<1> QED
  BY <1>1, <1>2, GuideInvariance, PTL DEF Spec

\* What the searches and the prompts of a Pod screen are; what Enter took was a
\* line of the list.
KeysInv ==
    /\ ScreenTypeOK
    /\ prompt = "chosen" => Shown # {} /\ selected < Cardinality(Shown)

\* The empty search is one of the searches.
LEMMA NoSearch == "" \in DOMAIN NamespaceMatches /\ "" \in DOMAIN NameMatches
  BY ScreenAssumption DEF ScreenAssumption

\* A key that draws the list again.
LEMMA DrawKeepsType ==
    ASSUME KeysInv, NEW namespace \in DOMAIN NamespaceMatches, NEW name \in DOMAIN NameMatches,
           NEW line0, NEW message \in BOOLEAN, Draw(namespace, name, line0, message),
           UNCHANGED <<listed, fixed>>, both' \in BOOLEAN,
           prompt' \in {"closed", "keys", "namespace", "name", "left", "broken"}, selected' \in Nat
    PROVE  KeysInv'
  BY DEF KeysInv, ScreenTypeOK, Draw

\* No key leaves the types of the Pod screen, and Enter takes a line of the list.
LEMMA KeysKeepType ==
    ASSUME ScreenInv, KeysInv,
           Typing \/ LeaveSearch \/ (\E open \in BOOLEAN : LeaveList(open))
    PROVE  KeysInv'
<1>1. selected' \in Nat
  BY KeysKeepScreen DEF ScreenInv
<1>2. namespaceQuery \in DOMAIN NamespaceMatches /\ nameQuery \in DOMAIN NameMatches /\ both \in BOOLEAN
  BY DEF KeysInv, ScreenTypeOK
<1>3. CASE Move
  <2>1. PICK line0 : Draw(namespaceQuery, nameQuery, line0, FALSE)
    BY <1>3 DEF Move
  <2>2. UNCHANGED <<listed, fixed, prompt, both>> /\ prompt = "keys"
    BY <1>3 DEF Move
  <2> QED
    BY <1>1, <1>2, <2>1, <2>2, DrawKeepsType
<1>4. CASE Choose
  <2>1. CASE Shown = {}
    <3>1. /\ Draw(namespaceQuery, nameQuery, selected, TRUE)
          /\ UNCHANGED <<listed, fixed, prompt, both>> /\ prompt = "keys"
      BY <1>4, <2>1 DEF Choose
    <3> QED
      BY <1>1, <1>2, <3>1, DrawKeepsType
  <2>2. CASE Shown # {}
    <3>1. /\ prompt = "keys" /\ prompt' = "chosen"
          /\ UNCHANGED <<listed, fixed, both, namespaceQuery, nameQuery, selected, notice>>
      BY <1>4, <2>2 DEF Choose
    <3>2. selected < Cardinality(Shown) /\ Shown' = Shown
      BY <2>2, <3>1 DEF ScreenInv, Shown, Candidates
    <3> QED
      BY <2>2, <3>1, <3>2 DEF KeysInv, ScreenTypeOK
  <2> QED
    BY <2>1, <2>2
<1>5. CASE SearchNamespace
  <2>1. /\ prompt = "keys" /\ both' = FALSE /\ UNCHANGED <<listed, fixed>>
        /\ \/ Draw(namespaceQuery, nameQuery, selected, TRUE) /\ UNCHANGED prompt
           \/ prompt' = "namespace" /\ UNCHANGED <<namespaceQuery, nameQuery, selected, notice>>
    BY <1>5 DEF SearchNamespace
  <2>2. CASE Draw(namespaceQuery, nameQuery, selected, TRUE) /\ UNCHANGED prompt
    BY <1>1, <1>2, <2>1, <2>2, DrawKeepsType
  <2>3. CASE prompt' = "namespace" /\ UNCHANGED <<namespaceQuery, nameQuery, selected, notice>>
    BY <2>1, <2>3 DEF KeysInv, ScreenTypeOK
  <2> QED
    BY <2>1, <2>2, <2>3
<1>6. CASE SearchName \/ Research
  <2>1. /\ prompt' \in {"name", "namespace"} /\ both' \in BOOLEAN
        /\ UNCHANGED <<listed, fixed, namespaceQuery, nameQuery, selected, notice>>
    BY <1>6 DEF SearchName, Research
  <2> QED
    BY <2>1 DEF KeysInv, ScreenTypeOK
<1>7. CASE EnterNamespace
  <2>1. PICK text \in DOMAIN NamespaceMatches :
            IF both
            THEN /\ namespaceQuery' = text /\ prompt' = "name"
                 /\ UNCHANGED <<nameQuery, selected, notice>>
            ELSE Draw(text, nameQuery, 0, FALSE) /\ prompt' = "keys"
    BY <1>7 DEF EnterNamespace
  <2>2. UNCHANGED <<listed, fixed, both>>
    BY <1>7 DEF EnterNamespace
  <2>3. CASE both
    BY <2>1, <2>2, <2>3 DEF KeysInv, ScreenTypeOK
  <2>4. CASE ~both
    <3>1. Draw(text, nameQuery, 0, FALSE) /\ prompt' = "keys"
      BY <2>1, <2>4
    <3> QED
      BY <1>1, <1>2, <2>2, <3>1, DrawKeepsType
  <2> QED
    BY <2>3, <2>4
<1>8. CASE EnterName
  <2>1. PICK text \in DOMAIN NameMatches : Draw(namespaceQuery, text, 0, FALSE)
    BY <1>8 DEF EnterName
  <2>2. UNCHANGED <<listed, fixed, both>> /\ prompt' = "keys"
    BY <1>8 DEF EnterName
  <2> QED
    BY <1>1, <1>2, <2>1, <2>2, DrawKeepsType
<1>9. CASE ClearSearch
  <2>1. Draw("", "", 0, FALSE) /\ UNCHANGED <<listed, fixed, prompt, both>> /\ prompt = "keys"
    BY <1>9 DEF ClearSearch
  <2> QED
    BY <1>1, <1>2, <2>1, NoSearch, DrawKeepsType
<1>10. CASE NowhereBack
  <2>1. Draw("", "", selected, TRUE) /\ UNCHANGED <<listed, fixed, prompt, both>> /\ prompt = "keys"
    BY <1>10 DEF NowhereBack
  <2> QED
    BY <1>1, <1>2, <2>1, NoSearch, DrawKeepsType
<1>11. CASE OtherKey \/ LeaveSearch
  <2>1. /\ Draw(namespaceQuery, nameQuery, selected, FALSE) /\ UNCHANGED <<listed, fixed, both>>
        /\ prompt' = "keys"
    BY <1>11 DEF OtherKey, LeaveSearch
  <2> QED
    BY <1>1, <1>2, <2>1, DrawKeepsType
<1>12. CASE Break \/ \E open \in BOOLEAN : LeaveList(open)
  <2>1. /\ prompt' \in {"left", "broken"}
        /\ UNCHANGED <<listed, fixed, both, namespaceQuery, nameQuery, selected, notice>>
    BY <1>12 DEF Break, LeaveList
  <2> QED
    BY <2>1 DEF KeysInv, ScreenTypeOK
<1> QED
  BY <1>3, <1>4, <1>5, <1>6, <1>7, <1>8, <1>9, <1>10, <1>11, <1>12 DEF Typing

\* A screen that opens has no search; one that closes neither.
LEMMA OpeningIsTyped ==
    ASSUME NEW uids, OpenScreen(uids)
    PROVE  KeysInv'
<1>1. namespaceQuery' \in DOMAIN NamespaceMatches /\ nameQuery' \in DOMAIN NameMatches
  BY NoSearch DEF OpenScreen
<1>2. /\ listed' \subseteq Pods /\ fixed' \in BOOLEAN /\ both' \in BOOLEAN /\ notice' \in BOOLEAN
      /\ prompt' = "keys" /\ selected' = 0
  BY DEF OpenScreen
<1> QED
  BY <1>1, <1>2 DEF KeysInv, ScreenTypeOK

\* The Pod screen is well-typed in every reachable state.
LEMMA KeysInvariance == Spec => []KeysInv
<1>1. Init => KeysInv
  <2> SUFFICES ASSUME Init
               PROVE  KeysInv
    OBVIOUS
  <2>1. namespaceQuery \in DOMAIN NamespaceMatches /\ nameQuery \in DOMAIN NameMatches
    BY NoSearch DEF Init
  <2>2. /\ listed = {} /\ fixed = FALSE /\ both = FALSE /\ notice = FALSE
        /\ prompt = "closed" /\ selected = 0
    BY DEF Init
  <2> QED
    BY <2>1, <2>2 DEF KeysInv, ScreenTypeOK
<1>2. ScreenInv /\ KeysInv /\ [Next]_vars => KeysInv'
  <2> SUFFICES ASSUME ScreenInv, KeysInv, [Next]_vars
               PROVE  KeysInv'
    OBVIOUS
  <2>1. CASE PodKeys
    <3>1. (Typing /\ input = "open") \/ LeaveSearch \/ LeaveList(input = "open")
      BY <2>1 DEF PodKeys
    <3>2. (input = "open") \in BOOLEAN
      OBVIOUS
    <3> QED
      BY <3>1, <3>2, KeysKeepType
  <2>2. CASE UNCHANGED screenVars
    BY <2>2 DEF KeysInv, ScreenTypeOK, screenVars, Shown, Candidates
  <2>3. CASE SelectPod \/ Report
    <3>1. UNCHANGED screenVars \/ \E uids : OpenScreen(uids)
      BY <2>3 DEF SelectPod, Report
    <3> QED
      BY <2>2, <3>1, OpeningIsTyped
  <2>4. CASE LeaveScreen \/ ScreenFails
    <3>1. namespaceQuery' \in DOMAIN NamespaceMatches /\ nameQuery' \in DOMAIN NameMatches
      BY <2>4, NoSearch DEF LeaveScreen, ScreenFails, CloseScreen
    <3>2. /\ listed' = {} /\ fixed' = FALSE /\ both' = FALSE /\ notice' = FALSE
          /\ prompt' = "closed" /\ selected' = 0
      BY <2>4 DEF LeaveScreen, ScreenFails, CloseScreen
    <3> QED
      BY <3>1, <3>2 DEF KeysInv, ScreenTypeOK
  <2>5. PodKeys \/ SelectPod \/ Report \/ LeaveScreen \/ ScreenFails \/ UNCHANGED screenVars
    <3>1. CASE Start \/ Screens \/ LeaveGuide \/ GuideFails \/ Load \/ Replay \/ Connect
              \/ Watch \/ List
      BY <3>1 DEF Start, Screens, LeaveGuide, GuideFails, Load, Replay, Connect, Watch, List, choice
    <3>2. CASE Diagnose \/ Resolve \/ Forward \/ Refresh \/ ChooseWay \/ ConfirmDebug
                  \/ Recheck \/ Launch \/ Finish
      BY <3>2 DEF Diagnose, Resolve, Forward, Refresh, ChooseWay, ConfirmDebug, Recheck, Launch,
                  Finish, choice
    <3>3. CASE Environment
      BY <3>3 DEF Environment, Change, Signal, InputEnds, choice
    <3>4. CASE Over \/ UNCHANGED vars
      BY <3>4 DEF Over, vars
    <3> QED
      BY <3>1, <3>2, <3>3, <3>4 DEF Next, Program
  <2> QED
    BY <2>1, <2>2, <2>3, <2>4, <2>5
<1> QED
  BY <1>1, <1>2, ScreenInvariance, PTL DEF Spec

\* Whatever the searches, Enter takes one of the Pods on the screen.
LEMMA ChosenIsShown ==
    ASSUME KeysInv, prompt = "chosen"
    PROVE  Chosen \in Shown /\ Chosen \in Pods
<1>1. Shown \subseteq Pods /\ selected \in Nat /\ selected < Cardinality(Shown)
  BY DEF KeysInv, ScreenTypeOK, Shown, Candidates
<1>2. Shown \subseteq Nat /\ IsFiniteSet(Shown)
  BY <1>1, ScreenAssumption, FS_Subset DEF ScreenAssumption
<1>3. \E p \in Shown : Below(Shown, p) = selected
  BY <1>1, <1>2, PlacesAreTaken
<1>4. \E p \in Shown : Cardinality({q \in Shown : q < p}) = selected
  BY <1>3 DEF Below
<1>5. Chosen \in Shown
  BY <1>4 DEF Chosen
<1> QED
  BY <1>1, <1>5

\* Where a run stands: it is over when it has a status, and not before.
PhaseInv ==
    /\ phase \in Phases
    /\ input \in {"open", "ended"}
    /\ exit \in {0, 1, 130, Running}
    /\ (phase = "over") = (exit # Running)

\* Leaving gives a status.
LEMMA ExitIsOver ==
    ASSUME PhaseInv, NEW code \in {0, 1, 130}, Exit(code), UNCHANGED input
    PROVE  PhaseInv'
<1>1. exit' \in {0, 1, 130} /\ phase' = "over"
  BY DEF Exit
<1>2. exit' # Running
  BY <1>1 DEF Running
<1> QED
  BY <1>1, <1>2 DEF PhaseInv, Phases

\* Going on gives none.
LEMMA GoingOnIsNotOver ==
    ASSUME PhaseInv, phase # "over", NEW next \in Phases \ {"over"}, GoTo(next), UNCHANGED input
    PROVE  PhaseInv'
  BY DEF PhaseInv, GoTo

\* Every step either goes on or ends with a status.
LEMMA PhaseInvariance == Spec => []PhaseInv
<1>1. Init => PhaseInv
  BY DEF Init, PhaseInv, Phases, Running
<1>2. PhaseInv /\ [Next]_vars => PhaseInv'
  <2> SUFFICES ASSUME PhaseInv, [Next]_vars
               PROVE  PhaseInv'
    OBVIOUS
  <2> DEFINE leaves == \E code \in {0, 1, 130} : Exit(code)
             goes == phase # "over" /\ \E next \in Phases \ {"over"} : GoTo(next)
  <2>1. CASE leaves /\ UNCHANGED input
    BY <2>1, ExitIsOver
  <2>2. CASE goes /\ UNCHANGED input
    BY <2>2, GoingOnIsNotOver
  <2>3. CASE UNCHANGED <<phase, exit>> /\ input' \in {input, "ended"}
    BY <2>3 DEF PhaseInv
  <2>4. CASE Start
    BY <2>1, <2>2, <2>4 DEF Start, Phases
  <2>5. CASE LeaveGuide \/ GuideFails
    BY <2>1, <2>2, <2>5 DEF LeaveGuide, GuideFails, Phases
  <2>6. CASE Load \/ Replay \/ Connect
    BY <2>1, <2>2, <2>6 DEF Load, Replay, Connect, Phases, world, guideVars
  <2>7. CASE Watch \/ List \/ SelectPod
    BY <2>1, <2>2, <2>7 DEF Watch, List, SelectPod, Phases, world, guideVars
  <2>8. CASE Diagnose \/ Report
    BY <2>1, <2>2, <2>8 DEF Diagnose, Report, Phases, world, guideVars
  <2>9. CASE LeaveScreen \/ ScreenFails \/ Resolve
    BY <2>1, <2>2, <2>9 DEF LeaveScreen, ScreenFails, CloseScreen, Resolve, Phases, world, guideVars
  <2>10. CASE Forward \/ Refresh \/ ChooseWay
    BY <2>1, <2>2, <2>10 DEF Forward, Refresh, ChooseWay, Phases, world, guideVars
  <2>11. CASE ConfirmDebug \/ Recheck \/ Launch \/ Finish
    BY <2>1, <2>2, <2>11 DEF ConfirmDebug, Recheck, Launch, Finish, Phases, world, guideVars
  <2>12. CASE Screens
    <3>1. UNCHANGED <<phase, exit>> /\ Answer
      BY <2>12 DEF Screens
    <3>2. UNCHANGED input
      <4>1. CASE ChooseProfile \/ Toggle \/ Proceed \/ EnterDetail \/ LeaveDetail \/ LeaveOptions
        BY <4>1 DEF ChooseProfile, Toggle, Proceed, EnterDetail, LeaveDetail, LeaveOptions
      <4>2. CASE Confirm \/ LeaveConfirm \/ EditSettings \/ ChooseSection \/ LeaveSections
                    \/ ChooseSetting
        BY <4>2 DEF Confirm, LeaveConfirm, EditSettings, ChooseSection, LeaveSections, ChooseSetting
      <4>3. CASE LeaveSettings \/ EnterSetting \/ LeaveSetting \/ Quit \/ Interrupt
        BY <4>3 DEF LeaveSettings, EnterSetting, LeaveSetting, Quit, Interrupt
      <4> QED
        BY <3>1, <4>1, <4>2, <4>3 DEF Answer
    <3> QED
      BY <2>3, <3>1, <3>2
  <2>13. CASE PodKeys \/ Environment
    BY <2>3, <2>13 DEF PodKeys, Environment, Change, Signal, InputEnds, EndOfInput, guideVars
  <2>14. CASE Over \/ UNCHANGED vars
    BY <2>3, <2>14 DEF Over, vars, guideVars
  <2> QED
    BY <2>4, <2>5, <2>6, <2>7, <2>8, <2>9, <2>10, <2>11, <2>12, <2>13, <2>14 DEF Next, Program
<1> QED
  BY <1>1, <1>2, PTL DEF Spec

\* The Pods of the cluster, of the last look at it and of the choice.  A replay
\* goes on only with a state that was saved.
DataInv ==
    /\ cluster \in [Pods -> [uid : Nat, running : BOOLEAN]]
    /\ changes \in 0..MaxChanges
    /\ snapshot \in [Pods -> Nat]
    /\ target.pod \in Pods \union {0}
    /\ Replaying /\ phase \notin Before \union {"over"} =>
           config.load_cluster_snapshot \in DOMAIN SavedStates

\* What is read has a uid for each Pod, replayed or not.
LEMMA ReadIsTyped ==
    ASSUME DataInv, Read, phase \notin Before \union {"over"}
    PROVE  snapshot' \in [Pods -> Nat]
<1>1. CASE Replaying
  <2>1. config.load_cluster_snapshot \in DOMAIN SavedStates
    BY <1>1 DEF DataInv
  <2>2. Saved.cluster \in [Pods -> Nat]
    BY <2>1, SavedAssumption DEF Saved, SavedAssumption
  <2>3. SavedPods \in [Pods -> Nat]
    BY <2>2 DEF SavedPods
  <2> QED
    BY <1>1, <2>3 DEF Read
<1>2. CASE ~Replaying
  <2>1. \A p \in Pods : cluster[p].uid \in Nat
    BY DEF DataInv
  <2>2. Collected \in [Pods -> Nat]
    BY <2>1 DEF Collected
  <2> QED
    BY <1>2, <2>2 DEF Read
<1> QED
  BY <1>1, <1>2

\* A change of a Pod is one of the cluster.
LEMMA ChangeKeepsData ==
    ASSUME DataInv, NEW p \in Pods, Change(p)
    PROVE  DataInv'
<1>0. MaxChanges \in Nat
  BY SessionAssumption DEF SessionAssumption
<1>1. changes \in Nat /\ changes < MaxChanges /\ MaxChanges \in Nat /\ changes' = changes + 1
  BY <1>0 DEF DataInv, Change
<1>2. changes' \in 0..MaxChanges
  BY <1>1
<1>3. changes + 2 \in Nat
  BY <1>1
<1>4. \/ cluster' = [cluster EXCEPT ![p] = [uid |-> changes + 2, running |-> TRUE]]
      \/ cluster' = [cluster EXCEPT ![p] = [uid |-> 0, running |-> FALSE]]
      \/ cluster' = [cluster EXCEPT ![p].running = FALSE]
  BY DEF Change
<1>5. cluster' \in [Pods -> [uid : Nat, running : BOOLEAN]]
  <2>1. [uid |-> changes + 2, running |-> TRUE] \in [uid : Nat, running : BOOLEAN]
    BY <1>3
  <2>2. [uid |-> 0, running |-> FALSE] \in [uid : Nat, running : BOOLEAN]
    OBVIOUS
  <2>3. cluster[p] \in [uid : Nat, running : BOOLEAN]
    BY DEF DataInv
  <2>4. [cluster[p] EXCEPT !.running = FALSE] \in [uid : Nat, running : BOOLEAN]
    BY <2>3
  <2> QED
    BY <1>4, <2>1, <2>2, <2>4 DEF DataInv
<1>6. UNCHANGED <<snapshot, target, config, phase>>
  BY DEF Change, choice
<1> QED
  BY <1>2, <1>5, <1>6 DEF DataInv, Replaying

\* Pods stay Pods, and a replay reads a state that was saved.
LEMMA DataInvariance == Spec => []DataInv
<1>1. Init => DataInv
  <2> SUFFICES ASSUME Init
               PROVE  DataInv
    OBVIOUS
  <2>1. /\ cluster = [p \in Pods |-> [uid |-> 1, running |-> TRUE]] /\ changes = 0
        /\ snapshot = [p \in Pods |-> 0] /\ target = NoPod /\ phase = "start"
    BY DEF Init
  <2>2. MaxChanges \in Nat /\ target.pod = 0
    BY <2>1, SessionAssumption DEF SessionAssumption, NoPod
  <2> QED
    BY <2>1, <2>2 DEF DataInv, Before
<1>2. KeysInv /\ DataInv /\ [Next]_vars => DataInv'
  <2> SUFFICES ASSUME KeysInv, DataInv, [Next]_vars
               PROVE  DataInv'
    OBVIOUS
  <2> DEFINE same == UNCHANGED <<cluster, changes, config>>
             later == phase' \in Before \union {"over"} \/ phase \notin Before \union {"over"}
  <2>1. CASE /\ same /\ UNCHANGED <<snapshot, target>> /\ later
    BY <2>1 DEF DataInv, Replaying
  <2>2. CASE Start \/ LeaveGuide \/ GuideFails
    <3>1. /\ UNCHANGED <<cluster, changes, snapshot, target>>
          /\ phase' \in {"guide", "load", "over"}
      BY <2>2 DEF Start, LeaveGuide, GuideFails, GoTo, Exit, choice, clusterVars
    <3> QED
      BY <3>1 DEF DataInv, Before
  <2>3. CASE Replay \/ Connect
    <3>1. same /\ UNCHANGED <<snapshot, target>>
      BY <2>3 DEF Replay, Connect, world, choice, clusterVars
    <3>2. \/ Replaying /\ config.load_cluster_snapshot \in DOMAIN SavedStates
          \/ ~Replaying
          \/ phase' = "over"
      BY <2>3 DEF Replay, Connect, GoTo, Exit
    <3> QED
      BY <3>1, <3>2 DEF DataInv, Replaying
  <2>4. CASE /\ same /\ Read /\ UNCHANGED target /\ phase \in {"first", "resolve"}
    <3>1. phase \notin Before \union {"over"}
      BY <2>4 DEF Before
    <3>2. snapshot' \in [Pods -> Nat]
      BY <2>4, <3>1, ReadIsTyped
    <3> QED
      BY <2>4, <3>1, <3>2 DEF DataInv, Replaying
  <2>5. CASE SelectPod \/ Diagnose \/ Resolve
    BY <2>4, <2>5 DEF SelectPod, Diagnose, Resolve, world, clusterVars
  <2>6. CASE LeaveScreen \/ ScreenFails
    <3>1. same /\ UNCHANGED snapshot /\ phase = "screen"
      BY <2>6 DEF LeaveScreen, ScreenFails, CloseScreen, world, clusterVars
    <3>2. \/ UNCHANGED target
          \/ prompt = "chosen" /\ target' = [pod |-> Chosen, uid |-> snapshot[Chosen]]
      BY <2>6 DEF LeaveScreen, ScreenFails, CloseScreen
    <3>3. target'.pod \in Pods \union {0}
      BY <3>2, ChosenIsShown DEF DataInv
    <3> QED
      BY <3>1, <3>3 DEF DataInv, Replaying, Before
  <2>7. CASE \E p \in Pods : Change(p)
    BY <2>7, ChangeKeepsData
  <2>8. CASE Load \/ Watch \/ List \/ Report
    BY <2>1, <2>8 DEF Load, Watch, List, Report, GoTo, Exit, world, choice, clusterVars, Before
  <2>9. CASE Forward \/ Refresh \/ ChooseWay \/ ConfirmDebug \/ Recheck \/ Launch \/ Finish
    BY <2>1, <2>9 DEF Forward, Refresh, ChooseWay, ConfirmDebug, Recheck, Launch, Finish,
                      world, choice, clusterVars, Before
  <2>10. CASE Screens \/ PodKeys \/ Signal \/ InputEnds
    <3>1. same /\ UNCHANGED <<snapshot, target, phase>>
      BY <2>10 DEF Screens, PodKeys, Signal, InputEnds, choice, clusterVars
    <3> QED
      BY <3>1 DEF DataInv, Replaying
  <2>11. CASE Over \/ UNCHANGED vars
    <3>1. same /\ UNCHANGED <<snapshot, target, phase>>
      BY <2>11 DEF Over, vars, clusterVars
    <3> QED
      BY <3>1 DEF DataInv, Replaying
  <2> QED
    BY <2>2, <2>3, <2>5, <2>6, <2>7, <2>8, <2>9, <2>10, <2>11 DEF Next, Program, Environment
<1> QED
  BY <1>1, <1>2, KeysInvariance, PTL DEF Spec

\* A start is well-typed all the way: in particular every configuration, made of
\* whatever files, options and answers, has all its settings, and what Enter takes
\* is a Pod.
THEOREM TypesHold == Spec => []TypeOK
<1>1. LineInv => PathsKnown
  BY DEF LineInv, Formed, PathsKnown
<1>2. LineInv /\ KeysInv /\ PhaseInv /\ DataInv /\ GuideInv /\ WrittenInv => TypeOK
  <2> SUFFICES ASSUME LineInv, KeysInv, PhaseInv, DataInv, GuideInv, WrittenInv
               PROVE  TypeOK
    OBVIOUS
  <2>1. Formed(config) /\ WellFormed(base) /\ WellFormed(candidate)
    BY DEF LineInv, GuideInv, FormInv
  <2>2. \A c \in {config, base, candidate} :
            DOMAIN c = DOMAIN Defaults /\ c.explicit \subseteq Settings
    BY <2>1 DEF Formed, WellFormed, Fields
  <2>3. /\ screen \in Menus \union Prompts \union Ends
        /\ toggles \subseteq Settings /\ at \in 0..Len(details) /\ section \in DOMAIN Catalog
        /\ saves \in 0..MaxSaves
    BY DEF GuideInv, ScreensInv
  <2>4. written \subseteq Outputs
    BY DEF WrittenInv
  <2>5. ScreenTypeOK
    BY DEF KeysInv
  <2>6. /\ phase \in Phases /\ input \in {"open", "ended"} /\ exit \in {0, 1, 130, Running}
        /\ (phase = "over") = (exit # Running)
    BY DEF PhaseInv
  <2>7. /\ line \in {start.line : start \in Starts} /\ terminal \in BOOLEAN
    BY DEF LineInv
  <2>8. /\ changes \in 0..MaxChanges /\ snapshot \in [Pods -> Nat] /\ target.pod \in Pods \union {0}
        /\ cluster \in [Pods -> [uid : Nat, running : BOOLEAN]]
    BY DEF DataInv
  <2> QED
    BY <1>1, <2>2, <2>3, <2>4, <2>5, <2>6, <2>7, <2>8 DEF TypeOK
<1> QED
  BY <1>2, LineInvariance, KeysInvariance, PhaseInvariance, DataInvariance, GuideInvariance,
     WrittenInvariance, PTL

\* No run destroys a file it reads or another file it writes, whatever names its
\* command line, its settings file or the guide gave them.
THEOREM NoInputIsOverwritten == Spec => []InputsSurvive
<1>1. ConfigInv /\ WrittenInv /\ PathsKnown => InputsSurvive
  <2> SUFFICES ASSUME ConfigInv, WrittenInv, PathsKnown,
                      NEW output \in written, NEW other \in Outputs \union Inputs,
                      other # output, config[other] # ""
               PROVE  LET path(option) == IF option = "history" THEN Home[config[option]]
                                          ELSE config[option]
                      IN  IF output = "history"
                          THEN /\ Canonical[path(other)] # Canonical[path(output)]
                               /\ Canonical[path(output)] \in DOMAIN Inode =>
                                      \A p \in DOMAIN Inode :
                                          p = Canonical[path(other)] =>
                                              Inode[p] # Inode[Canonical[path(output)]]
                          ELSE Entry[path(output)] \notin
                                   {Entry[path(other)], Canonical[path(other)]}
    BY DEF InputsSurvive
  <2>1. output \in Outputs /\ config[output] # ""
    BY DEF WrittenInv
  <2>2. config # Defaults
    BY <2>1, DefaultsWriteNothing
  <2>3. DistinctPaths(config)
    BY <2>2 DEF ConfigInv, Validate
  <2>4. ~SamePath(config, output, other)
    BY <2>1, <2>3 DEF DistinctPaths
  <2> QED
    BY <2>1, <2>4, DistinctPathsSurvive
<1>2. LineInv => PathsKnown
  BY DEF LineInv, Formed, PathsKnown
<1> QED
  BY <1>1, <1>2, ConfigInvariance, WrittenInvariance, LineInvariance, PTL
=============================================================================
