------------------------------ MODULE PodScreen ------------------------------
(***************************************************************************)
(* The screen on which a Pod is chosen (internal/app/selection.go          *)
(* promptPod): two searches narrow the list, and a highlighted line moves  *)
(* through what is left of it.  The loop draws the screen, which clamps    *)
(* the highlighted line to the list, and reads one key; an action is one   *)
(* turn of it, up to the next drawing.                                     *)
(***************************************************************************)
EXTENDS Integers, Sequences, FiniteSets

CONSTANTS
    Pods,               \* the Pods, as numbers in the order of their names
    NamespaceMatches,   \* text of a search -> the Pods whose namespace has it
    NameMatches,        \* text of a search -> the Pods whose name has it
    Height,             \* lines of the terminal
    Alternate           \* whether the alternate screen of a terminal is used

ASSUME ScreenAssumption ==
    /\ Pods \subseteq Nat /\ IsFiniteSet(Pods)
    /\ "" \in DOMAIN NamespaceMatches /\ "" \in DOMAIN NameMatches
    /\ Height \in Nat \ {0}
    /\ Alternate \in BOOLEAN

VARIABLES
    listed,         \* the Pods given to the screen
    fixed,          \* the namespace is fixed by -n
    prompt,         \* "keys", the search being typed, or how the screen ended
    both,           \* the search for the name follows the one for the namespace
    namespaceQuery,
    nameQuery,
    selected,       \* the highlighted line, from 0
    notice          \* a notice takes a line of the screen

screenVars == <<listed, fixed, prompt, both, namespaceQuery, nameQuery, selected, notice>>

Smaller(a, b) == IF a < b THEN a ELSE b
Larger(a, b) == IF a > b THEN a ELSE b

-----------------------------------------------------------------------------
(* What is drawn. *)

\* filterPods.
Candidates(namespace, name) ==
    listed \intersect NamespaceMatches[namespace] \intersect NameMatches[name]

Shown == Candidates(namespaceQuery, nameQuery)

\* pageSize: a notice takes one line more.
PageSize(total, hasNotice) ==
    IF ~Alternate THEN Larger(1, total)
    ELSE Smaller(Larger(3, Height - (IF hasNotice THEN 21 ELSE 20)), Larger(1, total))

\* selectionWindow: the lines from the first one up to but not including the end.
WindowStart(total, line, size) ==
    IF total <= size THEN 0 ELSE Larger(0, Smaller(line - size \div 2, total - size))

WindowEnd(total, line, size) ==
    IF total <= size THEN total ELSE WindowStart(total, line, size) + size

-----------------------------------------------------------------------------
(* One key. *)

\* Mutant: up from the first line does not go around.
MovedBeyond(key, line, total, page) ==
    CASE key = "up" -> line - 1
      [] key = "down" -> (line + 1) % total
      [] key = "home" -> 0
      [] key = "end" -> total - 1
      [] key = "pageUp" -> Larger(0, line - page)
      [] key = "pageDown" -> Smaller(total - 1, line + page)

\* The movements the menus of the guide have too.
Moved(key, line, total, page) ==
    CASE key = "up" -> (line - 1 + total) % total
      [] key = "down" -> (line + 1) % total
      [] key = "home" -> 0
      [] key = "end" -> total - 1
      [] key = "pageUp" -> Larger(0, line - page)
      [] key = "pageDown" -> Smaller(total - 1, line + page)

\* Mutant: the list is drawn without looking where the highlighted line is.
DrawUnclamped(namespace, name, line, message) ==
    /\ namespaceQuery' = namespace /\ nameQuery' = name
    /\ selected' = line
    /\ notice' = message

\* The next drawing clamps the highlighted line to the list and uses the notice up.
Draw(namespace, name, line, message) ==
    LET total == Cardinality(Candidates(namespace, name))
    IN  /\ namespaceQuery' = namespace /\ nameQuery' = name
        /\ selected' = IF total = 0 THEN 0 ELSE Smaller(line, total - 1)
        /\ notice' = message

Move ==
    /\ prompt = "keys"
    /\ \E key \in {"up", "down", "home", "end", "pageUp", "pageDown"} :
           LET total == Cardinality(Shown)
               line == IF total = 0 THEN selected
                       ELSE Moved(key, selected, total, PageSize(total, notice))
           IN  Draw(namespaceQuery, nameQuery, line, FALSE)
    /\ UNCHANGED <<listed, fixed, prompt, both>>

\* Enter: with nothing to choose the screen stays.
Choose ==
    /\ prompt = "keys"
    /\ IF Shown = {} THEN Draw(namespaceQuery, nameQuery, selected, TRUE) /\ UNCHANGED prompt
       ELSE prompt' = "chosen" /\ UNCHANGED <<namespaceQuery, nameQuery, selected, notice>>
    /\ UNCHANGED <<listed, fixed, both>>

\* The Pod of the highlighted line of sortedPods: as many of those shown are
\* before it as there are lines above.
Chosen == CHOOSE p \in Shown : Cardinality({q \in Shown : q < p}) = selected

SearchNamespace ==
    /\ prompt = "keys"
    /\ IF fixed THEN Draw(namespaceQuery, nameQuery, selected, TRUE) /\ UNCHANGED prompt
       ELSE prompt' = "namespace" /\ UNCHANGED <<namespaceQuery, nameQuery, selected, notice>>
    /\ both' = FALSE
    /\ UNCHANGED <<listed, fixed>>

SearchName ==
    /\ prompt = "keys"
    /\ prompt' = "name"
    /\ both' = FALSE
    /\ UNCHANGED <<listed, fixed, namespaceQuery, nameQuery, selected, notice>>

\* r asks for both, and only for the name when the namespace is fixed.
Research ==
    /\ prompt = "keys"
    /\ prompt' = IF fixed THEN "name" ELSE "namespace"
    /\ both' = ~fixed
    /\ UNCHANGED <<listed, fixed, namespaceQuery, nameQuery, selected, notice>>

\* promptPodFilter; after r the screen is drawn again only when both are answered.
EnterNamespace ==
    /\ prompt = "namespace"
    /\ \E text \in DOMAIN NamespaceMatches :
           IF both
           THEN /\ namespaceQuery' = text /\ prompt' = "name"
                /\ UNCHANGED <<nameQuery, selected, notice>>
           ELSE Draw(text, nameQuery, 0, FALSE) /\ prompt' = "keys"
    /\ UNCHANGED <<listed, fixed, both>>

EnterName ==
    /\ prompt = "name"
    /\ \E text \in DOMAIN NameMatches : Draw(namespaceQuery, text, 0, FALSE)
    /\ prompt' = "keys"
    /\ UNCHANGED <<listed, fixed, both>>

\* b, or the end of the input: the search stays as it was.  After r the namespace
\* that was entered stays entered, and the highlighted line where it was.
LeaveSearch ==
    /\ prompt \in {"namespace", "name"}
    /\ Draw(namespaceQuery, nameQuery, selected, FALSE)
    /\ prompt' = "keys"
    /\ UNCHANGED <<listed, fixed, both>>

\* c, and b while a search is applied.
ClearSearch ==
    /\ prompt = "keys"
    /\ Draw("", "", 0, FALSE)
    /\ UNCHANGED <<listed, fixed, prompt, both>>

\* b without a search: there is no screen before this one.
NowhereBack ==
    /\ prompt = "keys"
    /\ namespaceQuery = "" /\ nameQuery = ""
    /\ Draw("", "", selected, TRUE)
    /\ UNCHANGED <<listed, fixed, prompt, both>>

\* A key without a meaning here draws the screen again.
OtherKey ==
    /\ prompt = "keys"
    /\ Draw(namespaceQuery, nameQuery, selected, FALSE)
    /\ UNCHANGED <<listed, fixed, prompt, both>>

\* Mutant: the end of the input is a key without a meaning.
LeaveByKeyOnly(open) ==
    /\ prompt = "keys"
    /\ prompt' = IF open THEN "left" ELSE "keys"
    /\ UNCHANGED <<listed, fixed, both, namespaceQuery, nameQuery, selected, notice>>

\* q, and the end of the input.
LeaveList(open) ==
    /\ prompt = "keys"
    /\ prompt' = "left"
    /\ UNCHANGED <<listed, fixed, both, namespaceQuery, nameQuery, selected, notice>>

\* Ctrl-C is a byte of the input.
Break ==
    /\ prompt \in {"keys", "namespace", "name"}
    /\ prompt' = "broken"
    /\ UNCHANGED <<listed, fixed, both, namespaceQuery, nameQuery, selected, notice>>

\* The keys and lines of an operator.
Typing ==
    \/ Move \/ Choose \/ SearchNamespace \/ SearchName \/ Research \/ EnterNamespace \/ EnterName
    \/ ClearSearch \/ NowhereBack \/ OtherKey \/ Break

ScreenTypeOK ==
    /\ listed \subseteq Pods /\ fixed \in BOOLEAN /\ both \in BOOLEAN /\ notice \in BOOLEAN
    /\ prompt \in {"closed", "keys", "namespace", "name", "chosen", "left", "broken"}
    /\ namespaceQuery \in DOMAIN NamespaceMatches /\ nameQuery \in DOMAIN NameMatches
    /\ selected \in Nat

\* The line Enter takes is on the screen: the list was drawn with the highlighted
\* line on one of its Pods and inside the window, and the window inside the list
\* (selection.go promptPod, selectionWindow).
ChoiceIsOnScreen ==
    prompt = "keys" /\ Shown # {} =>
        LET total == Cardinality(Shown)
            size == PageSize(total, notice)
        IN  /\ selected \in WindowStart(total, selected, size) ..
                              (WindowEnd(total, selected, size) - 1)
            /\ WindowEnd(total, selected, size) <= total
=============================================================================
