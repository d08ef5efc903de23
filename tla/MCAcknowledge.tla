---------------------------- MODULE MCAcknowledge ----------------------------
(***************************************************************************)
(* A ConfigMap that two Pods consume, one of a Deployment (through its     *)
(* ReplicaSet) and one of a Job.  Any one of the dependencies may be        *)
(* missing, and any two of the owners, so a Pod may also be bare and a      *)
(* ReplicaSet on its own; in one graph the controller of a Pod is the       *)
(* ConfigMap that it reads.                                                *)
(***************************************************************************)
EXTENDS Acknowledge

Reads == {<<"cfg", "podA">>, <<"cfg", "podB">>}
Owners == {<<"podA", "rs">>, <<"rs", "deploy">>, <<"podB", "job">>}
All == Reads \cup Owners

MCGraphs ==
    {All \ {e} : e \in Reads}
      \cup {All \ missing : missing \in {m \in SUBSET Owners : Cardinality(m) <= 2}}
      \cup {All \cup {<<"podB", "cfg">>}}

Finding(name, resource, severity, confidence, kind, rank, place) ==
    [name |-> name, resource |-> resource, severity |-> severity,
     log |-> kind = "log", symptom |-> kind = "symptom", eligible |-> kind # "notice",
     confidence |-> confidence, rank |-> rank, place |-> place]

Missing == Finding("missing", "cfg", "issue", 85, "cause", 1, 1)
DownA   == Finding("downA", "podA", "issue", 70, "symptom", 3, 3)
DownB   == Finding("downB", "podB", "issue", 70, "symptom", 4, 6)
LogA    == Finding("logA", "podA", "candidate", 85, "log", 5, 4)
Stalled == Finding("stalled", "deploy", "issue", 70, "symptom", 6, 2)
Probe   == Finding("probe", "podA", "issue", 100, "cause", 2, 5)
Growth  == Finding("growth", "podA", "warning", 95, "notice", 7, 7)

MCFindings == {Missing, DownA, DownB, LogA, Stalled, Probe}
MCTrends == {Growth}

\* expires: 0 is past, 1 ends today, 3 outlasts the run
Rule(id, covers, workloads, expires) ==
    [id |-> id, covers |-> covers, workloads |-> workloads, expires |-> expires]

Cause(d) == Rule("cause", {Missing}, Anywhere, d)
Scoped(covers) == Rule("scoped", covers, {"deploy"}, 3)
Past == Rule("past", {DownA, LogA}, Anywhere, 0)

MCBaselines ==
    {<<>>, <<Cause(1)>>, <<Scoped({DownB})>>,
     <<Cause(3), Past>>, <<Past, Cause(3)>>, <<Past, Cause(1)>>,
     <<Scoped({Missing, DownA, DownB})>>, <<Rule("job", {Missing}, {"job"}, 3)>>,
     <<Rule("a", {Missing}, Anywhere, 3), Rule("b", {Probe}, Anywhere, 3)>>,
     <<Past, Scoped({Missing, DownA, DownB})>>,
     <<Cause(3), Scoped({DownA, Growth})>>, <<Scoped({DownA, Growth}), Cause(3)>>}
=============================================================================
