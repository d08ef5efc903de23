------------------------------ MODULE Diagnosis ------------------------------
(***************************************************************************)
(* One diagnosis (internal/app/app.go diagnose, internal/rules/registry.go *)
(* Run): the snapshot of the cluster is collected, narrowed to the Pod     *)
(* chosen on screen in select mode, and given to the rules one after       *)
(* another.  The cluster does not change while it is read; what is at      *)
(* stake is that no rule takes "was not fetched" or "was not kept" for     *)
(* "does not exist".  The rules that never speak of another object are     *)
(* left out of Rules.                                                      *)
(***************************************************************************)
EXTENDS ServiceRule, ReferenceRules, GatewayRule

CONSTANTS
    Clusters,       \* the clusters diagnosed
    Runs,           \* the command lines: mode, namespace and chosen Pod
    Failures,       \* sets of lists that could not be fetched to the end
    FirstPages      \* the names of the objects a failed list may still hold

ClusterLists ==
    {"pods", "services", "slices", "endpoints", "ingresses", "configmaps", "secrets",
     "serviceaccounts", "policies", "pvcs", "pvs", "priorityclasses", "runtimeclasses",
     "storageclasses", "ingressclasses", "controllers", "replicasets", "gateways", "routes",
     "gatewayclasses", "webhooks", "pdbs"}

OneOfEachName(objects) == \A a, b \in objects : NameOf(a) = NameOf(b) => a = b

\* The kinds a Pod can refer to in each place.
References(pod) ==
    /\ pod.envFrom \in Seq(ToSet(pod.envFrom))
    /\ \A f \in ToSet(pod.envFrom) : f.kind \in {"ConfigMap", "Secret"}
    /\ \A v \in pod.env : v.kind \in {"value", "ConfigMap", "Secret"}
    /\ \A v \in pod.volumes :
           v.kind \in {"ConfigMap", "Secret", "PersistentVolumeClaim", "Ephemeral"}

\* What an API server guarantees of the objects it stores; "unknown" stands for
\* what the keys of a Secret hold, and is the data of no ConfigMap.
ASSUME ClustersAssumption ==
    \A c \in Clusters :
        /\ DOMAIN c = ClusterLists
        /\ DOMAIN c.services \subseteq Nat \ {0}
        /\ OneOfEachName(Services(c)) /\ OneOfEachName(c.pods) /\ OneOfEachName(c.pvcs)
        /\ OneOfEachName(c.policies) /\ OneOfEachName(c.pdbs)
        /\ \A pod \in c.pods : pod.ns # "" /\ References(pod)
        /\ \A o \in c.configmaps : \A entry \in o.data : entry[2] # "unknown"

VARIABLES
    cluster,        \* the objects that exist
    run,            \* Config: mode and namespace, and the chosen Pod
    phase,          \* where diagnose stands
    snapshot,       \* what was fetched, and what was kept of it
    next,           \* position in Rules
    checks,         \* State.Checks: the checks made and whether they could be
    findings        \* State.Findings

vars == <<cluster, run, phase, snapshot, next, checks, findings>>

-----------------------------------------------------------------------------
(* The registry. *)

AllModes == {"all", "triage", "select"}
WholeCluster == {"all", "triage"}

Metadata(id, required, optional, modes) ==
    [id |-> id, required |-> required, optional |-> optional, modes |-> modes]

\* Builtins, in the order they run.
Rules == <<
    Metadata("dependencies", {"pods", "configmaps", "secrets", "pvcs", "serviceaccounts"}, {}, AllModes),
    Metadata("runtime-dependencies", {"pods", "services"}, {"configmaps"}, AllModes),
    Metadata("priority-class-dependencies", {"pods", "priorityclasses"}, {}, AllModes),
    Metadata("runtime-class-dependencies", {"pods", "runtimeclasses"}, {}, AllModes),
    Metadata("services", {"services"},
             {"pods", "endpoint_slices", "endpoints", "replicasets", "controllers"}, AllModes),
    Metadata("ingress", {"ingresses"}, {"services", "secrets", "ingressclasses"}, AllModes),
    Metadata("gateway-api", {"gateways", "routes"}, {"gatewayclasses", "services", "pods"}, WholeCluster),
    Metadata("storage", {"pvcs"}, {"storageclasses"}, AllModes),
    Metadata("persistent-volumes", {"pvs"}, {}, AllModes),
    Metadata("network-policies", {"policies", "pods"}, {}, AllModes),
    Metadata("webhooks", {"webhooks", "services"}, {}, WholeCluster),
    Metadata("pdb", {"pdbs"}, {"pods"}, WholeCluster),
    Metadata("configmaps", {"configmaps"}, {"pods", "secrets"}, AllModes) >>

InNamespaceDependencies == {"ConfigMap", "Secret", "PersistentVolumeClaim", "ServiceAccount"}

\* Rule.Evaluate.
Evaluate(id, s) ==
    CASE id = "dependencies" -> DependencyFindings(s, InNamespaceDependencies)
      [] id = "runtime-dependencies" -> RuntimeFindings(s)
      [] id = "priority-class-dependencies" -> DependencyFindings(s, {"PriorityClass"})
      [] id = "runtime-class-dependencies" -> DependencyFindings(s, {"RuntimeClass"})
      [] id = "services" -> ServiceFindings(s)
      [] id = "ingress" -> IngressFindings(s)
      [] id = "gateway-api" -> GatewayFindings(s)
      [] id = "storage" -> StorageFindings(s)
      [] id = "persistent-volumes" -> VolumeFindings(s)
      [] id = "network-policies" -> PolicyFindings(s)
      [] id = "webhooks" -> WebhookFindings(s, run.ns)
      [] id = "pdb" -> BudgetFindings(s)
      [] id = "configmaps" -> ConfigMapFindings(s)

-----------------------------------------------------------------------------
(* Collection. *)

NamespacedLists ==
    {"pods", "slices", "endpoints", "ingresses", "configmaps", "secrets", "serviceaccounts",
     "pvcs", "policies", "pdbs", "controllers", "replicasets", "gateways", "routes"}

\* Without a namespace one list of Pods serves both views, with its status.
Outcome(namespace, failed) ==
    IF namespace # "" THEN failed
    ELSE IF "pods" \in failed THEN failed \union {"all_pods"} ELSE failed \ {"all_pods"}

\* The lists of the namespace, all of every cluster-wide list, and the Pods of
\* every namespace.  A list that failed holds the objects of its first page, or
\* none; it is marked as not available either way.
Collected(c, namespace, failed, page) ==
    LET visible(object) == namespace \in {"", object.ns}
        part(objects, key) ==
            IF key \in Outcome(namespace, failed) THEN {o \in objects : o.name \in page} ELSE objects
        keyOf(list) == IF list = "slices" THEN "endpoint_slices" ELSE list
    IN  [l \in DOMAIN c \union {"ns", "failed", "allPods", "index"} |->
            CASE l = "ns" -> namespace
              [] l = "failed" -> Outcome(namespace, failed)
              [] l = "index" -> Nothing
              [] l = "allPods" -> part(c.pods, "all_pods")
              [] l = "services" -> Filtered(c.services, {v \in part(Services(c), l) : visible(v)})
              [] l \in NamespacedLists -> {o \in part(c[l], keyOf(l)) : visible(o)}
              [] OTHER -> IF l \in failed THEN {} ELSE c[l]]

Collect ==
    /\ phase = "collect"
    /\ \E failed \in Failures, page \in FirstPages :
           snapshot' = Collected(cluster, run.ns, failed, page)
    /\ phase' = IF run.mode = "select" THEN "narrow" ELSE "rules"
    /\ UNCHANGED <<cluster, run, next, checks, findings>>

ChosenPods == {p \in snapshot.pods : NameOf(p) = run.pod}

\* Mutant: the chosen Pod is found, and the snapshot is handed on whole.
NarrowNothing ==
    /\ phase = "narrow"
    /\ Available(snapshot, "pods")
    /\ ChosenPods # {}
    /\ phase' = "rules"
    /\ UNCHANGED <<cluster, run, snapshot, next, checks, findings>>

\* The chosen Pod is read again from the fresh snapshot.
Narrow ==
    /\ phase = "narrow"
    /\ Available(snapshot, "pods")
    /\ \E pod \in ChosenPods : snapshot' = Scope(snapshot, pod)
    /\ phase' = "rules"
    /\ UNCHANGED <<cluster, run, next, checks, findings>>

\* diagnose returns an error instead of a report.
Refuse ==
    /\ phase = "narrow"
    /\ ~Available(snapshot, "pods") \/ ChosenPods = {}
    /\ phase' = "refused"
    /\ UNCHANGED <<cluster, run, snapshot, next, checks, findings>>

-----------------------------------------------------------------------------
(* Registry.Run. *)

Rule == Rules[next]

Unavailable(rule, s) == {key \in rule.required : ~Available(s, key)}

\* The checks and findings that tell which optional inputs could not be read.
OptionalChecks(rule, s) ==
    {[id |-> <<rule.id, key>>, available |-> Available(s, key)] : key \in rule.optional}

PartialFindings(rule, s) ==
    {Finding("Unavailable", "PARTIAL_UNAVAILABLE", <<"", rule.id>>, key) :
        key \in {k \in rule.optional : ~Available(s, k)}}

\* Mutant: an unfetched input is mentioned once, by the rule that requires it.
RunRuleQuietly ==
    /\ phase = "rules" /\ next <= Len(Rules)
    /\ run.mode \in Rule.modes
    /\ Unavailable(Rule, snapshot) = {}
    /\ checks' = checks \union {[id |-> <<Rule.id, "">>, available |-> TRUE]}
    /\ findings' = findings \union Evaluate(Rule.id, snapshot)
    /\ next' = next + 1
    /\ UNCHANGED <<cluster, run, phase, snapshot>>

RunRule ==
    /\ phase = "rules" /\ next <= Len(Rules)
    /\ run.mode \in Rule.modes
    /\ Unavailable(Rule, snapshot) = {}
    /\ checks' = checks \union {[id |-> <<Rule.id, "">>, available |-> TRUE]}
                        \union OptionalChecks(Rule, snapshot)
    /\ findings' = findings \union PartialFindings(Rule, snapshot)
                            \union Evaluate(Rule.id, snapshot)
    /\ next' = next + 1
    /\ UNCHANGED <<cluster, run, phase, snapshot>>

\* A rule whose required inputs are missing says so and is not evaluated.
ReportUnavailable ==
    /\ phase = "rules" /\ next <= Len(Rules)
    /\ run.mode \in Rule.modes
    /\ Unavailable(Rule, snapshot) # {}
    /\ checks' = checks \union {[id |-> <<Rule.id, "">>, available |-> FALSE]}
    /\ findings' = findings \union
           {Finding("Unavailable", "RULE_UNAVAILABLE", <<"", Rule.id>>, "")}
    /\ next' = next + 1
    /\ UNCHANGED <<cluster, run, phase, snapshot>>

SkipRule ==
    /\ phase = "rules" /\ next <= Len(Rules)
    /\ run.mode \notin Rule.modes
    /\ next' = next + 1
    /\ UNCHANGED <<cluster, run, phase, snapshot, checks, findings>>

Finish ==
    /\ phase = "rules" /\ next > Len(Rules)
    /\ phase' = "done"
    /\ UNCHANGED <<cluster, run, snapshot, next, checks, findings>>

Ended == phase \in {"done", "refused"} /\ UNCHANGED vars

Init ==
    /\ cluster \in Clusters
    /\ run \in Runs
    /\ phase = "collect"
    /\ snapshot = Nothing
    /\ next = 1
    /\ checks = {}
    /\ findings = {}

Next == Collect \/ Narrow \/ Refuse \/ RunRule \/ ReportUnavailable \/ SkipRule \/ Finish \/ Ended

Spec == Init /\ [][Next]_vars

-----------------------------------------------------------------------------
(* Properties. *)

\* What a report may consist of; a selected Pod is the only one that is judged
\* (resolveSelectedPod and scopeSnapshotToSelectedPod in diagnose).
TypeOK ==
    /\ phase \in {"collect", "narrow", "rules", "done", "refused"}
    /\ next \in 1..(Len(Rules) + 1)
    /\ \A f \in findings : f.level \in {"Issue", "Warning", "Candidate", "Unavailable"}
    /\ \A c \in checks : c.available \in BOOLEAN
    /\ run.mode = "select" /\ phase = "rules" => {NameOf(p) : p \in snapshot.pods} = {run.pod}

ClusterServices == {NameOf(v) : v \in Services(cluster)}

\* The keys an object holds as text, binary data being no value for a variable.
KeysIn(object, kind) == KeysFor(object, [kind |-> kind, dataOnly |-> TRUE])

\* A finding that says something does not exist, or matches nothing, although it
\* exists or matches something.
Invented(f) ==
    CASE f.code \in {"MISSING_OBJECT", "OPTIONAL_OBJECT_MISSING",
                     "EPHEMERAL_MISSING_OBJECT", "MISSING_IMAGE_PULL_SECRET"} ->
             \E o \in cluster[ListOf(f.detail)] : NameOf(o) = f.object
      [] f.code \in {"EXTERNAL_NAME_TARGET_NOT_FOUND", "ENV_SERVICE_NOT_FOUND",
                     "WEBHOOK_MISSING_SERVICE", "BACKEND_NOT_FOUND"} ->
             f.detail \in ClusterServices
      [] f.code = "MISSING_SERVICE" -> <<f.object[1], f.detail>> \in ClusterServices
      [] f.code = "MISSING_TLS_SECRET" ->
             \E o \in cluster.secrets : NameOf(o) = <<f.object[1], f.detail>>
      [] f.code = "PARENT_NOT_FOUND" -> \E o \in cluster.gateways : NameOf(o) = f.detail
      [] f.code = "SELECTOR_NO_MATCH" ->
             \E v \in Services(cluster), p \in cluster.pods :
                 NameOf(v) = f.object /\ SelectsPod(v, p)
      [] f.code = "PEER_NO_MATCH" -> Matching(cluster.pods, f.object[1], f.detail) # {}
      [] f.code = "STORAGE_CLASS_NOT_FOUND" ->
             \E c \in cluster.pvcs, d \in cluster.storageclasses :
                 NameOf(c) = f.object /\ d.name = c.class
      [] f.code = "CLASS_NOT_FOUND" -> f.detail \in cluster.ingressclasses
      [] f.code = "GATEWAY_CLASS_NOT_FOUND" -> f.detail \in cluster.gatewayclasses
      [] f.code \in {"MISSING_KEY", "OPTIONAL_KEY_MISSING", "EPHEMERAL_MISSING_KEY"} ->
             \E o \in cluster[ListOf(f.detail[1])] :
                 NameOf(o) = f.object /\ f.detail[2] \in KeysIn(o, f.detail[1])
      [] f.code = "POLICY_NO_MATCH" ->
             \E q \in cluster.policies :
                 NameOf(q) = f.object /\ Matching(cluster.pods, q.ns, q.labels) # {}
      [] f.code = "PDB_NO_MATCH" ->
             \E b \in cluster.pdbs :
                 NameOf(b) = f.object /\ Matching(cluster.pods, b.ns, b.labels) # {}
      [] OTHER -> FALSE

\* ServiceRule has only the chosen Pod to match selectors against.
JudgedOnOnePod == run.mode = "select" /\ ~Available(snapshot, "all_pods")

\* Verdicts about objects that the narrowed snapshot dropped because they are not
\* the Pod's own (the run narrowed_view shows what they amount to): the targets of
\* aliases that only an alias later in the list, or their endpoints, kept, and the
\* Secrets of Ingresses kept for an alias to another namespace, are among them.
BeyondTheNarrowedView(f) ==
    \/ JudgedOnOnePod /\ f.code = "SELECTOR_NO_MATCH"
    \/ /\ run.mode = "select"
       /\ \/ f.code \in {"MISSING_SERVICE", "PEER_NO_MATCH"}
          \/ /\ f.code = "EXTERNAL_NAME_TARGET_NOT_FOUND"
             /\ \A p \in snapshot.pods : f.object \notin OwnServices(snapshot, p)
          \/ f.code = "MISSING_TLS_SECRET" /\ f.object[1] # run.pod[1]

\* Not fetched, not collected in this namespace or not kept for the Pod never
\* turns into "does not exist" (externalNameTargetFinding, WebhookRule,
\* envServiceFindings, the checks of AvailableOrUntracked, and the aliases and
\* references that scopeSnapshotToSelectedPod follows).
AbsenceIsReal == \A f \in findings : Invented(f) => BeyondTheNarrowedView(f)

\* The comment of ServiceRule.Evaluate on a selected-Pod snapshot: evaluating the
\* selectors of kept Services must not report a false "no matching Pods".
NarrowedSelectorsAreJudgedFairly ==
    \A f \in findings : f.code = "SELECTOR_NO_MATCH" => ~Invented(f)

\* The same run with every list fetched to the end.
Complete ==
    LET whole == Collected(cluster, run.ns, {}, {})
        chosen == {p \in whole.pods : NameOf(p) = run.pod}
    IN  IF run.mode # "select" THEN whole ELSE Scope(whole, CHOOSE p \in chosen : TRUE)

Verdicts(s) ==
    UNION {Evaluate(rule.id, s) : rule \in {r \in ToSet(Rules) : run.mode \in r.modes}}

\* The rule reported that an input of it could not be read.
Admits(rule) ==
    \E f \in findings : f.level = "Unavailable" /\ f.object = <<"", rule.id>>

\* A short name with a trailing dot: envServiceFindings trims the dot, and
\* selectedPodReferencesService does not know the form.
NamesWithADot(pod) == \E h \in pod.hosts : h.form = "short" /\ h.dot

\* scopeSnapshotToSelectedPod follows claims to their volumes, and endpoints to
\* Services and from there to Ingresses: what it does not reach for want of the
\* list in between is dropped, and the rule over it declares no such input.
DroppedForALink(rule) ==
    /\ run.mode = "select"
    /\ \/ rule.id = "persistent-volumes" /\ ~Available(snapshot, "pvcs")
       \/ /\ \E key \in {"endpoint_slices", "endpoints"} : ~Available(snapshot, key)
          /\ \/ rule.id = "ingress"
             \/ /\ rule.id = "runtime-dependencies"
                /\ \E p \in snapshot.pods : NamesWithADot(p)

\* Whatever a complete collection would have shown is shown, or the rule it
\* comes from admits that it could not look (Registry.Run, State.AddCheck).
\* ServiceRule does not declare all_pods among its inputs.
NothingIsLostSilently ==
    phase = "done" =>
        \A i \in DOMAIN Rules :
            \/ run.mode \notin Rules[i].modes
            \/ Evaluate(Rules[i].id, Complete) \subseteq findings
            \/ Admits(Rules[i])
            \/ JudgedOnOnePod /\ Rules[i].id = "services"
            \/ DroppedForALink(Rules[i])

\* Endpoints from the legacy list cannot tell a terminating endpoint, a port may
\* be resolved by an EndpointSlice only, and without the ReplicaSets or the
\* controllers a workload goes by another name.  Without the Pods a budget that
\* protects none of them is reported by its counters instead.
MayDiffer ==
    {"NO_READY_ENDPOINT", "TERMINATING_ENDPOINTS_ONLY", "SELECTOR_PARTIAL_MATCH",
     "TARGET_PORT_UNRESOLVED", "HEALTH_BELOW_DESIRED"}

\* Half a list invents no verdict: what is reported on incomplete data would be
\* reported on the complete data as well.
HalfAListInventsNothing ==
    phase = "done" =>
        \A f \in findings :
            \/ f.level = "Unavailable" \/ f.code \in MayDiffer \/ BeyondTheNarrowedView(f)
            \/ JudgedOnOnePod /\ f.code = "TARGET_PORT_UNDECLARED"
            \/ f \in Verdicts(Complete)
=============================================================================
