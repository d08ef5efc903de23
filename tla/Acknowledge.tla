----------------------------- MODULE Acknowledge -----------------------------
(***************************************************************************)
(* What happens to the findings of one diagnosis once every rule has run:  *)
(* they are correlated into root causes (rules.Correlate), the baseline    *)
(* acknowledges the approved ones (baseline.Apply), they are correlated    *)
(* again (app.correlateAndApplyBaseline) and, when a history database is   *)
(* configured, the historical trends are added and the baseline is applied *)
(* a second time (app.prepare, app.applyBaselineToLateFindings).           *)
(*                                                                         *)
(* The steps are sequential.  What a test hardly reaches is their          *)
(* combination: the shape of the dependency graph, the order of the rules, *)
(* an approval that has expired or that expires between the two passes.    *)
(* The graph, the findings and the baseline are therefore chosen freely in *)
(* Init.  Left out: the texts of a root cause and the key on an edge, by   *)
(* which a cause of code MISSING_KEY reaches only the consumers of its key.*)
(***************************************************************************)
EXTENDS Integers, Sequences, FiniteSets

CONSTANTS
    Resources,      \* the resources of the cluster
    Graphs,         \* the dependency graphs they may form: sets of pairs <<from, to>>
    Deployments,    \* resources of a top-level controller's kind
    ReplicaSets,    \* resources of kind ReplicaSet
    MayDegrade,     \* resources that may be degraded without a finding
    Findings,       \* the findings the rules may report
    Trends,         \* the findings history.AddFindings may add
    Baselines,      \* sequences of approvals, <<>> for no --baseline
    MaxRank,        \* findings have a rank of 1..MaxRank
    LastDay         \* bound: midnight passes until today is LastDay

VARIABLES
    graph,          \* buildDependencyGraph(snapshot): a set of edges
    degraded,       \* resources whose typed status is degraded
    useHistory,     \* Config.HistoryDB is set
    baseline,       \* Baseline.Rules
    found,          \* State.Findings
    acked,          \* Finding.Acknowledgement.RuleID, None if not acknowledged
    expired,        \* approvals of which K8S.BASELINE.EXPIRED is a finding
    roots,          \* State.RootCauses, <<>> once Add has reset them
    pass,           \* which call of baseline.Apply, 1 or 2
    next,           \* the rule Apply examines
    day,            \* the date Apply read at its start
    today,          \* the date
    pc

chosen == <<graph, degraded, useHistory, baseline>>
vars == <<chosen, found, acked, expired, roots, pass, next, day, today, pc>>

None == "none"
\* Rule.Workload is empty: the approval is not limited to workloads
Anywhere == {}

ConstantsAssumption ==
    /\ IsFiniteSet(Resources) /\ IsFiniteSet(Findings)
    /\ Graphs \subseteq SUBSET (Resources \X Resources)
    /\ Deployments \subseteq Resources /\ ReplicaSets \subseteq Resources
    /\ MayDegrade \subseteq Resources
    /\ LastDay \in Nat \ {0} /\ MaxRank \in Nat
    /\ Findings \cap Trends = {}
    /\ \A f \in Findings \cup Trends :
          /\ f.resource \in Resources
          /\ f.severity \in {"issue", "warning", "candidate"}
          /\ {f.log, f.symptom, f.eligible} \subseteq BOOLEAN
          /\ f.confidence \in 0..100 /\ f.rank \in 1..MaxRank /\ f.place \in Nat
    /\ \A f, g \in Findings : f.rank = g.rank \/ f.place = g.place => f = g
ASSUME ConstantsAssumption

\* The loader refuses an ID it has seen (baseline.go L74).
BaselinesAssumption ==
    \A rules \in Baselines :
        /\ rules \in Seq({rules[j] : j \in DOMAIN rules})
        /\ \A j \in DOMAIN rules : rules[j].id # None /\ rules[j].expires \in Nat
        /\ \A j, k \in DOMAIN rules : rules[j].id = rules[k].id => j = k
ASSUME BaselinesAssumption

-----------------------------------------------------------------------------
(* The dependency graph (rules/rootcause.go)                               *)

\* dependencyGraph.descendants: what depends on r, itself left out
Descendants(r) ==
    LET reach[n \in Nat] ==
          IF n = 0 THEN {r}
          ELSE LET nearer == reach[n - 1]
               IN  nearer \cup {e[2] : e \in {e \in graph : e[1] \in nearer}}
    IN  reach[Cardinality(Resources)] \ {r}

Reached(r) == {r} \cup Descendants(r)

\* outermostWorkloads: those that no other one of them owns
Outermost(workloads) ==
    {w \in workloads : Descendants(w) \cap workloads = {}}

\* BaselineWorkloadResolver: the workloads a finding's resource belongs to
Workloads(f) ==
    LET reached == Reached(f.resource) IN
    IF reached \cap Deployments # {} THEN Outermost(reached \cap Deployments)
    ELSE reached \cap ReplicaSets

-----------------------------------------------------------------------------
(* rules.Correlate                                                         *)

Visible(f) == f.severity \in {"issue", "warning"}

\* resources below the cause that show an abnormality of their own
Impacts(cause, findings) ==
    {r \in Descendants(cause.resource) :
        r \in degraded \/ \E f \in findings : f.resource = r /\ Visible(f)}

\* Mutant: a root names findings of a resource that have since gone.
RelatedToGone(cause, findings) ==
    {cause} \cup {f \in Findings : f.resource \in Descendants(cause.resource)}

\* RootCause.RelatedFindingIDs: the cause, the logs of its resource and the
\* visible findings of its impacts
Related(cause, findings) ==
    {cause}
      \cup {f \in findings : f.log /\ f.resource = cause.resource}
      \cup {f \in findings : Visible(f) /\ f.resource \in Descendants(cause.resource)}

\* NewRootCause: an issue that was confirmed directly
Confirmed(cause) == cause.severity = "issue" /\ cause.confidence >= 90

\* the issues a root claims: they do not become roots of their own
Claims(cause, findings) ==
    {f \in Related(cause, findings) :
        /\ f.severity = "issue"
        /\ (f = cause \/ (Confirmed(cause) /\ f.symptom))}

\* findings that may be a root; a log is one unless another root speaks for
\* the resource
Candidates(findings) ==
    {f \in findings :
        /\ f.eligible
        /\ f.log => ~\E g \in findings : g.resource = f.resource /\ g.eligible /\ ~g.log}

\* The candidates are taken by rank (their code's priority, confidence, ID);
\* one that an earlier root claimed is skipped.
Causes(findings) ==
    LET candidates == Candidates(findings)
        taken[n \in Nat] ==
          IF n = 0 THEN {}
          ELSE LET before == taken[n - 1]
               IN  before \cup {f \in candidates :
                      /\ f.rank = n
                      /\ \A c \in before : f \notin Claims(c, findings)}
    IN  taken[MaxRank]

\* the order of the roots: confirmed ones first, then by confidence, the last
\* resort being their place in the order of resources and IDs
RootBefore(c, d) ==
    \/ Confirmed(c) /\ ~Confirmed(d)
    \/ Confirmed(c) = Confirmed(d) /\ c.confidence > d.confidence
    \/ Confirmed(c) = Confirmed(d) /\ c.confidence = d.confidence /\ c.place < d.place

Root(cause, findings) ==
    [cause |-> cause, related |-> Related(cause, findings),
     impacts |-> Impacts(cause, findings)]

\* State.RootCauses as Correlate sets it
Roots(findings) ==
    LET causes == Causes(findings)
    IN  [k \in 1..Cardinality(causes) |->
            Root(CHOOSE c \in causes :
                    Cardinality({d \in causes : RootBefore(d, c)}) = k - 1,
                 findings)]

-----------------------------------------------------------------------------
(* baseline.Apply                                                          *)

\* Mutant: the date is not compared, an expired approval still applies.
NeverExpires(rule, date) == FALSE

Expired(rule, date) == rule.expires < date

\* matchWorkload without a resolved workload: the impacts of the roots the
\* finding is related to, then its own resource
FallbackWorkloads(f) ==
    LET related == {k \in DOMAIN roots : f \in roots[k].related}
        reached == {f.resource} \cup UNION {roots[k].impacts : k \in related}
    IN  IF reached \cap Deployments # {} THEN reached \cap Deployments
        ELSE reached \cap ReplicaSets

Consumers(f) == IF Workloads(f) # {} THEN Workloads(f) ELSE FallbackWorkloads(f)

\* Mutant: one matching workload is enough.
AnyWorkload(rule, f) ==
    rule.workloads = Anywhere \/ Consumers(f) \cap rule.workloads # {}

\* every workload the finding touches must be one the rule names
MatchWorkload(rule, f) ==
    \/ rule.workloads = Anywhere
    \/ Consumers(f) # {} /\ Consumers(f) \subseteq rule.workloads

\* the findings a rule acknowledges: it keeps what an earlier one acknowledged
Approved(rule) ==
    {f \in found : acked[f] = None /\ f \in rule.covers /\ MatchWorkload(rule, f)}

\* State.Add of K8S.BASELINE.EXPIRED: a finding seen before changes nothing,
\* a new one resets State.RootCauses
AddExpired(rule) ==
    /\ expired' = expired \cup {rule.id}
    /\ roots' = IF rule.id \in expired THEN roots ELSE <<>>
    /\ UNCHANGED acked

\* Mutant: the acknowledgement of a cause stays with the cause.
NotPropagated == acked

\* Mutant: a missing acknowledgement is copied like any other.
CopiedUnchecked ==
    LET after[n \in Nat] ==
          IF n = 0 THEN acked
          ELSE LET acks == after[n - 1]
               IN  [f \in found |->
                       IF roots[n].cause \in found /\ f \in roots[n].related
                       THEN acks[roots[n].cause] ELSE acks[f]]
    IN  after[Len(roots)]

\* Root after root, the acknowledgement its cause has by then is copied to the
\* findings related to it.
Propagated ==
    LET after[n \in Nat] ==
          IF n = 0 THEN acked
          ELSE LET acks == after[n - 1]
                   cause == roots[n].cause
               IN  [f \in found |->
                       IF cause \in found /\ f \in roots[n].related /\ acks[cause] # None
                       THEN acks[cause] ELSE acks[f]]
    IN  after[Len(roots)]

-----------------------------------------------------------------------------
(* app.correlateAndApplyBaseline, app.prepare                              *)

Init ==
    /\ graph \in Graphs
    /\ degraded \in SUBSET MayDegrade
    /\ useHistory \in BOOLEAN
    /\ baseline \in Baselines
    /\ found \in SUBSET Findings
    /\ acked = [f \in found |-> None]
    /\ expired = {}
    /\ roots = <<>>
    /\ pass = 1
    /\ next = 1
    /\ today = 1
    /\ day = 1
    /\ pc = "correlate"

\* baseline.Apply starts: it reads the date once
StartApply ==
    /\ pc' = "apply"
    /\ next' = 1
    /\ day' = today

\* Correlate; without a baseline that is all
Correlate ==
    /\ pc = "correlate"
    /\ roots' = Roots(found)
    /\ IF baseline = <<>> THEN pc' = "prepare" /\ UNCHANGED <<next, day>>
                          ELSE StartApply
    /\ UNCHANGED <<chosen, found, acked, expired, pass, today>>

\* one rule of the loop in Apply
ApplyRule ==
    /\ pc = "apply" /\ next <= Len(baseline)
    /\ LET rule == baseline[next] IN
       IF Expired(rule, day) THEN AddExpired(rule)
       ELSE /\ acked' = [f \in found |-> IF f \in Approved(rule) THEN rule.id ELSE acked[f]]
            /\ UNCHANGED <<expired, roots>>
    /\ next' = next + 1
    /\ UNCHANGED <<chosen, found, pass, day, today, pc>>

\* the second loop in Apply, over the root causes
Propagate ==
    /\ pc = "apply" /\ next > Len(baseline)
    /\ acked' = Propagated
    /\ pc' = IF pass = 1 THEN "correlateAgain" ELSE "done"
    /\ UNCHANGED <<chosen, found, expired, roots, pass, next, day, today>>

CorrelateAgain ==
    /\ pc = "correlateAgain"
    /\ roots' = Roots(found)
    /\ pc' = "prepare"
    /\ UNCHANGED <<chosen, found, acked, expired, pass, next, day, today>>

\* history.AddFindings restores the roots that State.Add resets
RootsAfter(trends) == roots

\* prepare: with a history database the trends are added and Apply runs again
Prepare ==
    /\ pc = "prepare"
    /\ IF useHistory
       THEN \E trends \in SUBSET Trends :
              /\ found' = found \cup trends
              /\ acked' = [f \in found \cup trends |-> IF f \in found THEN acked[f] ELSE None]
              /\ roots' = RootsAfter(trends)
              /\ pass' = 2
              /\ IF baseline = <<>> THEN pc' = "done" /\ UNCHANGED <<next, day>>
                                    ELSE StartApply
       ELSE pc' = "done" /\ UNCHANGED <<found, acked, roots, pass, next, day>>
    /\ UNCHANGED <<chosen, expired, today>>

Midnight ==
    /\ pc # "done" /\ today < LastDay
    /\ today' = today + 1
    /\ UNCHANGED <<chosen, found, acked, expired, roots, pass, next, day, pc>>

Finished == pc = "done" /\ UNCHANGED vars

Next ==
    \/ Correlate \/ ApplyRule \/ Propagate \/ CorrelateAgain \/ Prepare
    \/ Midnight \/ Finished

Spec == Init /\ [][Next]_vars

-----------------------------------------------------------------------------
(* Properties                                                              *)

RuleIDs == {baseline[k].id : k \in DOMAIN baseline}
RuleOf(id) == baseline[CHOOSE k \in DOMAIN baseline : baseline[k].id = id]

\* State and acknowledgements are well typed, and every root cause speaks of
\* findings that are there.
TypeOK ==
    /\ graph \in Graphs /\ degraded \subseteq MayDegrade
    /\ useHistory \in BOOLEAN /\ baseline \in Baselines
    /\ found \subseteq Findings \cup Trends
    /\ acked \in [found -> RuleIDs \cup {None}]
    /\ expired \subseteq RuleIDs
    /\ \A k \in DOMAIN roots : roots[k].related \subseteq found
    /\ pass \in 1..2 /\ next \in Nat /\ day \in 1..today /\ today \in 1..LastDay
    /\ pc \in {"correlate", "apply", "correlateAgain", "prepare", "done"}

\* A resource that, through others, depends on itself: the controller of a Pod
\* is an object that the Pod reads.
OnACycle(r) == \E d \in Descendants(r) : r \in Descendants(d)

\* A finding and what may be put down to it: the logs of its resource and
\* everything the resources downstream of it show.
Below(cause, f) ==
    \/ f = cause
    \/ f.resource = cause.resource /\ (f.log \/ OnACycle(cause.resource))
    \/ f.resource \in Descendants(cause.resource)

\* baseline.Apply L170-191, L193-208: a finding is acknowledged only by an
\* approval that was valid when the diagnosis started, and that covers the
\* finding itself or a finding upstream of it (or on its own resource, of
\* which it is a log), however many causes hand the approval on.  An approval
\* that ended never hides anything.
OnlyThroughAnApproval ==
    \A f \in found : acked[f] # None =>
        LET rule == RuleOf(acked[f]) IN
        /\ rule.expires >= 1
        /\ \E cause \in rule.covers \cap found : Below(cause, f)

\* matchWorkload L265-275: an approval limited to workloads never reaches a
\* finding that touches a workload it does not name, not even along the
\* copies of a cause's acknowledgement to everything related to it.  A
\* ReplicaSet is looked at only where no top-level workload is reached: one that
\* has no owner is not asked about when the approved cause reaches one.
ApprovalStaysInItsWorkloads ==
    \A f \in found : acked[f] # None =>
        LET rule == RuleOf(acked[f]) IN
        \/ rule.workloads = Anywhere
        \/ Workloads(f) \subseteq rule.workloads
        \/ /\ Workloads(f) \cap Deployments = {}
           /\ \E cause \in rule.covers \cap found :
                 /\ f.resource \in Descendants(cause.resource)
                 /\ Reached(cause.resource) \cap Deployments # {}
                 /\ Workloads(cause) \subseteq rule.workloads

\* No approval expires or has expired while the program runs.
Steady == \A k \in DOMAIN baseline : ~Expired(baseline[k], LastDay)

\* The approvals that have expired had before the start.
NoneExpiresMeanwhile ==
    \A k \in DOMAIN baseline : Expired(baseline[k], LastDay) => Expired(baseline[k], 1)

Followed ==
    \A k \in DOMAIN roots :
        acked[roots[k].cause] # None =>
            \A f \in roots[k].related : Visible(f) => acked[f] # None

\* Nothing depends on itself.
Acyclic == \A r \in Resources : ~OnACycle(r)

\* baseline.Apply L192-208: in the report, what is related to an acknowledged
\* cause is acknowledged too.  It holds when no approval has expired, and with
\* a history database even when one has: the second Apply repairs the first.
SymptomsFollowTheirCause ==
    (pc = "done" /\ Acyclic /\ (Steady \/ (useHistory /\ NoneExpiresMeanwhile))) => Followed

\* The same without the condition, as the comment at baseline.go L192 says it.
SymptomsAlwaysFollow == pc = "done" => Followed

\* applyBaselineToLateFindings L336-341: applying the baseline again for the
\* late findings takes back no acknowledgement of the first pass, and of the
\* issues and warnings of the first pass it acknowledges no further one.
SecondPassKeepsTheFirst ==
    [][pass = 2 /\ Acyclic /\ Steady =>
         \A f \in found :
            /\ acked[f] # None => acked'[f] # None
            /\ f \in Findings /\ Visible(f) /\ acked[f] = None => acked'[f] = None]_vars

-----------------------------------------------------------------------------
(* The inductive invariant behind the properties                           *)

\* what the rules reported, before any trend
Reported == found \cap Findings

\* What an acknowledgement stands on, told by the graph and the rule alone.
Justified(rule, f) ==
    /\ rule.expires >= 1
    /\ \E cause \in rule.covers \cap found :
          /\ Below(cause, f)
          /\ rule.workloads = Anywhere \/ Workloads(cause) \subseteq rule.workloads

AllJustified ==
    \A f \in found : acked[f] # None =>
        \E k \in DOMAIN baseline : baseline[k].id = acked[f] /\ Justified(baseline[k], f)

\* The roots are those of the reported findings, or gone.
RootsInv ==
    /\ roots = <<>> \/ roots = Roots(Reported)
    /\ pass = 1 => found \subseteq Findings
    /\ pass = 2 => useHistory
    /\ pc = "done" /\ useHistory => pass = 2
    /\ pc \in {"correlate", "correlateAgain", "prepare"} => pass = 1
    /\ pc = "prepare" => roots = Roots(Reported)
    /\ pc = "correlate" => expired = {} /\ roots = <<>>
    /\ pc = "apply" => baseline # <<>> /\ next \in 1..(Len(baseline) + 1)

\* The rules Apply has been through in its first pass.
Examined(k) ==
    pass = 2 \/ pc \in {"correlateAgain", "prepare"} \/ (pc = "apply" /\ k < next)

\* The approvals that had expired before the start and were examined are known.
ExpiredKnown ==
    \A k \in DOMAIN baseline :
        Expired(baseline[k], 1) /\ Examined(k) => baseline[k].id \in expired

\* While no approval expires, Apply works on the roots throughout.
Intact == Steady \/ (pass = 2 /\ NoneExpiresMeanwhile)

RootsIntact == (pc # "correlate" /\ Intact) => roots = Roots(Reported)

\* A rule that is gone through a second time finds nothing new.
NothingLeft ==
    Steady => \A f \in Reported, k \in DOMAIN baseline :
        acked[f] = None /\ Examined(k) =>
            ~(f \in baseline[k].covers /\ MatchWorkload(baseline[k], f))

\* Once the acknowledgements of the causes are copied, the symptoms follow.
FollowedOnce ==
    /\ Acyclic
    /\ \/ Intact /\ pc \in {"correlateAgain", "prepare", "done"}
       \/ Steady /\ pass = 2
    => Followed

AcknowledgeInv ==
    /\ TypeOK
    /\ RootsInv
    /\ AllJustified
    /\ ExpiredKnown
    /\ RootsIntact
    /\ NothingLeft
    /\ FollowedOnce
=============================================================================
