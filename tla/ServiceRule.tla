----------------------------- MODULE ServiceRule -----------------------------
(***************************************************************************)
(* What the diagnosis says of a Service (internal/rules/service.go): its   *)
(* selector against the Pods, its endpoints, its target ports and the      *)
(* target of an alias.                                                     *)
(***************************************************************************)
EXTENDS SnapshotScope

\* The selected-Pod snapshot keeps every Pod of the namespace in allPods; the
\* selectors are matched against those when their list is there.
SelectorPods(s) ==
    IF s.allPods # {} /\ AvailableOrUntracked(s, "all_pods") THEN s.allPods ELSE s.pods

Candidates(s, service) == {p \in SelectorPods(s) : p.ns = service.ns}

Selected(s, service) == {p \in SelectorPods(s) : SelectsPod(service, p)}

\* podReferencesService: the caller compares the namespaces.  A trailing dot is
\* cut off a value of the environment, not off a URL on a command line.
ReferencesService(pod, service) ==
    \E host \in pod.hosts :
        /\ host.name = service.name
        /\ host.form = "short" \/ host.ns = service.ns
        /\ host.dot => host.via = "env"

\* internalTrafficPolicy Local: clients of the Service on nodes without a
\* ready endpoint of it.
LocalGap(s, service) ==
    LET served == {p.node : p \in {q \in Selected(s, service) : q.node # "" /\ q.ready}}
        cutOff == {p \in s.pods : /\ p.ns = service.ns /\ p.node # ""
                                  /\ p.phase \notin {"Succeeded", "Failed"}
                                  /\ p.node \notin served
                                  /\ ReferencesService(p, service)}
    IN  service.local /\ served # {} /\ cutOff # {}

-----------------------------------------------------------------------------
(* A selector that reaches only a part of a workload. *)

\* workloadOwners.of: the controller, through the ReplicaSet when it was
\* collected, otherwise the workload whose selector claims the Pod.
OwnerOf(s, pod) ==
    LET sets == {r \in s.replicasets : <<r.ns, r.name>> = <<pod.ns, pod.owner.name>>}
        claims == {w \in s.controllers : /\ w.ns = pod.ns
                                         /\ w.selector # {} /\ w.selector \subseteq pod.labels}
        claimed == IF claims = {} THEN Nothing
                   ELSE LET w == CHOOSE w \in claims : TRUE IN <<w.kind, w.name>>
    IN  IF pod.owner.kind \notin {"", "ReplicaSet"} THEN <<pod.owner.kind, pod.owner.name>>
        ELSE IF pod.owner.kind = "ReplicaSet" /\ \E r \in sets : r.owner # Nothing
        THEN (CHOOSE r \in sets : r.owner # Nothing).owner
        ELSE claimed

MatchedPairs(service, pod) == service.selector \intersect pod.labels

\* relatedToSelectedPod.
Related(s, service, pod) ==
    \E other \in Selected(s, service) :
        MatchedPairs(service, pod) \intersect MatchedPairs(service, other) # {}

\* partialSelectorFindings: the workloads the selector splits, and the Pods
\* nobody owns that resemble a selected one.
PartialWorkloads(s, service) ==
    LET selected == Selected(s, service)
        missed == Candidates(s, service) \ selected
        split == {OwnerOf(s, p) : p \in selected} \intersect {OwnerOf(s, p) : p \in missed}
        strays == {p \in missed : OwnerOf(s, p) = Nothing /\ Related(s, service, p)}
    IN  IF selected = {} THEN {}
        ELSE (split \ {Nothing}) \union (IF strays # {} THEN {<<"", "unowned">>} ELSE {})

-----------------------------------------------------------------------------
(* Endpoints. *)

\* A collected EndpointSlice list is authoritative even when it is empty; the
\* legacy Endpoints count only when it could not be fetched.
EndpointSlicesAuthoritative(s) == Available(s, "endpoint_slices")

SliceEndpoints(s, service) ==
    UNION {slice.endpoints : slice \in {x \in s.slices : <<x.ns, x.service>> = NameOf(service)}}

ReadyEndpoints(s, service) ==
    IF EndpointSlicesAuthoritative(s) THEN {e \in SliceEndpoints(s, service) : e.ready}
    ELSE IF AvailableOrUntracked(s, "endpoints")
    THEN UNION {x.ready : x \in {y \in s.endpoints : NameOf(y) = NameOf(service)}}
    ELSE {}

FallbackEndpoints(s, service) ==
    IF EndpointSlicesAuthoritative(s)
    THEN {e \in SliceEndpoints(s, service) : ~e.ready /\ e.serving /\ e.terminating}
    ELSE {}

EndpointDataAvailable(s) ==
    AvailableOrUntracked(s, "endpoint_slices") \/ AvailableOrUntracked(s, "endpoints")

EndpointFindings(s, service) ==
    LET idle == /\ AvailableOrUntracked(s, "pods")
                /\ EndpointDataAvailable(s)
                /\ Selected(s, service) # {}
                /\ ReadyEndpoints(s, service) = {}
        fallback == FallbackEndpoints(s, service)
    IN  When(idle /\ fallback = {},
             Finding("Warning", "NO_READY_ENDPOINT", NameOf(service), ""))
        \union When(idle /\ fallback # {},
             Finding("Warning", "TERMINATING_ENDPOINTS_ONLY", NameOf(service), ""))

-----------------------------------------------------------------------------
(* Target ports.  A target is the name or the number of a container port;  *)
(* one that is left out is the number of the port itself.                  *)

\* endpointSliceResolvesPort: a nameless port only when it is the only one.
SliceResolvesPort(s, service, port) ==
    \E slice \in s.slices :
        /\ <<slice.ns, slice.service>> = NameOf(service)
        /\ \E p \in slice.ports :
               /\ p.protocol = port.protocol
               /\ p.name = port.name
               /\ port.name # "" \/ Cardinality(service.ports) = 1

DeclaredNames(pods, protocol) ==
    {p.name : p \in {q \in UNION {pod.ports : pod \in pods} : q.protocol = protocol}}

\* declaredPodPorts: containerPorts, and for TCP the ports probes connect to.
DeclaredNumbers(pods, protocol) ==
    {p.number : p \in {q \in UNION {pod.ports : pod \in pods} : q.protocol = protocol}}
        \union (IF protocol = "TCP" THEN UNION {pod.probes : pod \in pods} ELSE {})

NamedTargetUnresolved(s, service, port) ==
    /\ port.named
    /\ port.target \notin DeclaredNames(Selected(s, service), port.protocol)
    /\ ~(AvailableOrUntracked(s, "endpoint_slices") /\ SliceResolvesPort(s, service, port))

\* numericTargetPortUndeclared: only when some port of the protocol is declared.
NumericTargetUndeclared(s, service, port) ==
    LET declared == DeclaredNumbers(Selected(s, service), port.protocol)
    IN  ~port.named /\ declared # {} /\ port.target \notin declared

PortFindings(s, service) ==
    IF ~AvailableOrUntracked(s, "pods") \/ Selected(s, service) = {} THEN {}
    ELSE {Finding("Issue", "TARGET_PORT_UNRESOLVED", NameOf(service), p.target) :
             p \in {q \in service.ports : NamedTargetUnresolved(s, service, q)}}
         \union
         {Finding("Candidate", "TARGET_PORT_UNDECLARED", NameOf(service), p.target) :
             p \in {q \in service.ports : NumericTargetUndeclared(s, service, q)}}

-----------------------------------------------------------------------------

\* Mutant: a Service of a namespace that was not listed is taken for a missing one.
TargetOutOfSight(s, service) ==
    /\ service.target # Nothing
    /\ service.target \notin {NameOf(v) : v \in Services(s)}

\* externalNameTargetFinding: a namespace that was not collected proves nothing.
ExternalNameTargetMissing(s, service) ==
    /\ service.target # Nothing
    /\ s.ns \in {"", service.target[1]}
    /\ service.target \notin {NameOf(v) : v \in Services(s)}

SelectorFindings(s, service) ==
    IF ~AvailableOrUntracked(s, "pods") THEN {}
    ELSE When(LocalGap(s, service),
              Finding("Candidate", "INTERNAL_TRAFFIC_LOCAL_GAP", NameOf(service), ""))
         \union When(Selected(s, service) = {},
              Finding("Warning", "SELECTOR_NO_MATCH", NameOf(service), ""))
         \union {Finding("Warning", "SELECTOR_PARTIAL_MATCH", NameOf(service), owner) :
                    owner \in PartialWorkloads(s, service)}

\* The whole rule for one Service.
ServiceFindingsOf(s, service) ==
    IF service.external
    THEN When(ExternalNameTargetMissing(s, service),
              Finding("Warning", "EXTERNAL_NAME_TARGET_NOT_FOUND", NameOf(service), service.target))
    ELSE IF service.selector = {} THEN {}
    ELSE SelectorFindings(s, service) \union EndpointFindings(s, service)
         \union PortFindings(s, service)
         \union When(service.pendingAddress,
              Finding("Candidate", "LOAD_BALANCER_PENDING", NameOf(service), ""))

\* ServiceRule.Evaluate.
ServiceFindings(s) == UNION {ServiceFindingsOf(s, v) : v \in Services(s)}
=============================================================================
