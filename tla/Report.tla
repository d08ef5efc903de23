------------------------------- MODULE Report --------------------------------
(***************************************************************************)
(* The documents a diagnosis produces and the pure functions that compare  *)
(* them: internal/report (Compare, CompareHistory), internal/jsonutil      *)
(* (unavailable evaluations), internal/notify (BuildPayload), the flap     *)
(* analysis of internal/history and the fail policy of internal/model.     *)
(*                                                                         *)
(* A document is the set of its findings.  A finding keeps the fields that *)
(* decide comparisons: code and resource (the correlation key), part (the  *)
(* stable key inside it, e.g. the container), severity, rule, section and  *)
(* acknowledged.  The wording, evidence and confidence are left out.       *)
(***************************************************************************)
EXTENDS Integers, Sequences, FiniteSets

CONSTANTS
    Codes,          \* codes the rules report
    Resources,      \* resources they report them on
    Parts,          \* parts of a resource with a finding of their own
    RuleOf,         \* the rule that reports a code
    SectionOf,      \* the section of a code's findings
    MetaSection     \* the section a rule declares in its metadata

Rules == {RuleOf[c] : c \in Codes}

Severities == {"issue", "warning", "unavailable", "candidate"}

Subject(code, resource, part, severity, ack) ==
    [code |-> code, resource |-> resource, part |-> part, severity |-> severity,
     rule |-> RuleOf[code], section |-> SectionOf[code], ack |-> ack]

\* What Registry.Run reports when the inputs of a rule could not be read: the
\* rule was skipped (a required key) or ran on a part (an optional key).
Blocker(rule, code) ==
    [code |-> code, resource |-> rule, part |-> rule, severity |-> "unavailable",
     rule |-> rule, section |-> MetaSection[rule], ack |-> FALSE]

\* history.AddFindings: the trend carries no rule and a section of its own.
Trend(resource) ==
    [code |-> "FINDING_FLAP", resource |-> resource, part |-> "finding_flap",
     severity |-> "warning", rule |-> "", section |-> "history", ack |-> FALSE]

Findings ==
    {Subject(c, r, p, s, a) : c \in Codes, r \in Resources, p \in Parts,
                              s \in Severities, a \in BOOLEAN}
    \union {Blocker(r, c) : r \in Rules, c \in {"RULE_UNAVAILABLE", "PARTIAL_UNAVAILABLE"}}
    \union {Trend(r) : r \in Resources}

\* The severity is part of the fingerprint.
ID(f) == <<f.code, f.resource, f.part, f.severity>>

Key(f) == <<f.code, f.resource>>

Subjects == Codes \X Resources \X Parts

\* What a diagnosis reports when its rules ended with this status and the
\* subjects are in this state: findings of the rules that ran, and a blocker of
\* each that did not run, or only on a part.
DocumentOf(acknowledged, status, state) ==
    {Subject(x[1], x[2], x[3], state[x], x[1] \in acknowledged) :
        x \in {y \in Subjects : state[y] # "absent" /\ status[RuleOf[y[1]]] # "none"}}
    \union {Blocker(r, "RULE_UNAVAILABLE") : r \in {q \in Rules : status[q] = "none"}}
    \union {Blocker(r, "PARTIAL_UNAVAILABLE") : r \in {q \in Rules : status[q] = "part"}}

\* The documents a diagnosis can produce, given the acknowledged codes: every
\* rule is evaluated, evaluated in part or skipped, and what it evaluates may
\* be in any state.
Diagnoses(acknowledged, severities) ==
    {DocumentOf(acknowledged, status, state) :
        status \in [Rules -> {"all", "part", "none"}],
        state \in [Subjects -> severities \union {"absent"}]}

-----------------------------------------------------------------------------
(* jsonutil *)

\* Mutant: a rule that could not be evaluated blocks nothing.
NoBlockers(f, doc) == {}

\* The unavailable findings that say f's rule could not look at everything. A
\* finding without a rule falls back to its whole section.
MatchingUnavailable(f, doc) ==
    {u \in doc : /\ u.severity = "unavailable"
                 /\ u.section = f.section
                 /\ f.rule \in {"", u.rule}}

EvaluationUnavailable(doc, f) == MatchingUnavailable(f, doc) # {}

\* A finding that its rule does not file under the section it declares, so that
\* what makes the rule unavailable does not match it.
Misfiled(f) == f.rule # "" /\ f.section # MetaSection[f.rule]

\* The rules that do so with some of their findings.
Misfiles(rule) == \E c \in Codes : RuleOf[c] = rule /\ SectionOf[c] # MetaSection[rule]

-----------------------------------------------------------------------------
(* Compare *)

SeverityWeight == [issue |-> 4, warning |-> 3, unavailable |-> 2, candidate |-> 1]

Weight(f) == SeverityWeight[f.severity]

\* correlationMap: only findings that are alone with their code and resource.
CorrelationMap(findings) ==
    {f \in findings : \A g \in findings : Key(g) = Key(f) => g = f}

Without(findings, others) == {f \in findings : \A g \in others : ID(g) # ID(f)}

\* unknownEntry: f is missing, but its rule could not look.
UnknownEntry(f, after) == f.severity # "unavailable" /\ EvaluationUnavailable(after, f)

Compare(before, after) ==
    LET beforeOnly == Without(before, after)
        afterOnly == Without(after, before)
        common == {p \in [before : before, after : after] : ID(p.before) = ID(p.after)}
        pairs == {p \in [before : CorrelationMap(beforeOnly), after : CorrelationMap(afterOnly)] :
                    Key(p.before) = Key(p.after)}
        lost == {p \in pairs : p.after.severity = "unavailable" /\ UnknownEntry(p.before, after)}
        judged == pairs \ lost
        gone == beforeOnly \ {p.before : p \in pairs}
    IN  [new |-> afterOnly \ {p.after : p \in pairs},
         resolved |-> {b \in gone : ~UnknownEntry(b, after)},
         unknown |-> {b \in gone : UnknownEntry(b, after)} \union {p.before : p \in lost},
         worsened |-> {p \in judged : Weight(p.after) > Weight(p.before)},
         improved |-> {p \in judged : Weight(p.after) < Weight(p.before)},
         changed |-> {p \in judged : Weight(p.after) = Weight(p.before)}
                     \union {p \in common : p.before # p.after},
         reconfirmed |-> {},
         unchanged |-> {p \in common : p.before = p.after}]

-----------------------------------------------------------------------------
(* CompareHistory *)

\* The findings of a document that tell the earlier state of f.
Correlated(doc, f) ==
    {g \in CorrelationMap(doc) : Key(g) = Key(f) /\ g.severity # "unavailable"}

\* Mutant: the walk goes on past a document in which the finding was absent.
LastSeenFinding(previous, f) ==
    UNION {Correlated(previous[i], f) : i \in
             {k \in 1..(Len(previous) - 1) :
                \A j \in (k + 1)..Len(previous) : Correlated(previous[j], f) = {}}}

\* The documents after k tell no earlier state of f and could not look.
UnknownSince(previous, f, k) ==
    \A j \in (k + 1)..Len(previous) :
        Correlated(previous[j], f) = {} /\ EvaluationUnavailable(previous[j], f)

\* lastKnownFinding: walk back over the documents that could not look; the
\* first one that could settles the matter. The newest document is not asked
\* again: it already took part in Compare.
LastKnownFinding(previous, f) ==
    UNION {Correlated(previous[i], f) : i \in
             {k \in 1..(Len(previous) - 1) : UnknownSince(previous, f, k)}}

CompareHistory(previous, current) ==
    LET result == Compare(previous[Len(previous)], current)
        bridged == {p \in [before : UNION {LastKnownFinding(previous, f) : f \in result.new},
                           after : {f \in result.new : f.severity # "unavailable"}] :
                      p.before \in LastKnownFinding(previous, p.after)}
    IN  [new |-> result.new \ {p.after : p \in bridged},
         resolved |-> result.resolved,
         unknown |-> result.unknown,
         worsened |-> result.worsened \union {p \in bridged : Weight(p.after) > Weight(p.before)},
         improved |-> result.improved \union {p \in bridged : Weight(p.after) < Weight(p.before)},
         changed |-> result.changed \union
            {p \in bridged : Weight(p.after) = Weight(p.before) /\ ID(p.after) # ID(p.before)},
         reconfirmed |-> {p \in bridged : ID(p.after) = ID(p.before)},
         unchanged |-> result.unchanged]

-----------------------------------------------------------------------------
(* notify.BuildPayload, history.Analyze, State.ShouldFail *)

\* The issues the payload announces; without any there is no payload.
BuildPayload(difference) ==
    {f \in difference.new \union {p.after : p \in difference.worsened} :
        f.severity = "issue" /\ ~f.ack}

\* activeFindingMap
Active(doc) ==
    {f \in doc : f.code # "FINDING_FLAP" /\ f.severity # "unavailable" /\ ~f.ack}

\* Mutant: what could not be evaluated is normal.
TwoStates(doc, f) == IF \E g \in Active(doc) : Key(g) = Key(f) THEN "abnormal" ELSE "normal"

FlapState(doc, f) ==
    IF \E g \in Active(doc) : Key(g) = Key(f) THEN "abnormal"
    ELSE IF EvaluationUnavailable(doc, f) THEN "unknown" ELSE "normal"

\* Transitions between neighbouring samples, the unknown ones left out.
Transitions(states) ==
    Cardinality({i \in 2..Len(states) : /\ "unknown" \notin {states[i-1], states[i]}
                                        /\ states[i-1] # states[i]})

\* The findings Analyze adds for the newest `window` samples.
Analyze(previous, current, window, threshold) ==
    LET all == Append(previous, current)
        samples == IF Len(all) > window THEN SubSeq(all, Len(all) - window + 1, Len(all)) ELSE all
        States(f) == [i \in DOMAIN samples |-> FlapState(samples[i], f)]
        Flaps(f) == Transitions(States(f)) >= threshold /\ \E i \in DOMAIN samples : States(f)[i] = "normal"
    IN  {Trend(f.resource) : f \in {g \in UNION {Active(samples[i]) : i \in DOMAIN samples} : Flaps(g)}}

\* The severities a --fail-on policy counts.
Included(failOn) ==
    CASE failOn = "warning" -> {"issue", "warning"}
      [] failOn = "unavailable" -> {"issue", "warning", "unavailable"}
      [] failOn = "any" -> Severities
      [] failOn = "none" -> {}
      [] OTHER -> {"issue"}

ShouldFail(doc, failOn, maxIssues) ==
    Cardinality({f \in doc : ~f.ack /\ f.severity \in Included(failOn)}) > maxIssues
=============================================================================
