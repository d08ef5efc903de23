---------------------------- MODULE SnapshotScope ----------------------------
(***************************************************************************)
(* The part of a snapshot that the rules of one Pod's diagnosis read, and  *)
(* the narrowing of a snapshot to a selected Pod                           *)
(* (internal/app/select_scope.go, internal/kube/snapshot.go).              *)
(*                                                                         *)
(* Labels and selectors are sets of <<key, value>> pairs, so that a        *)
(* selector matches when it is a subset.  A DNS name is a record that says *)
(* which form it has instead of a string.  Lists are sets, except the      *)
(* Services, whose order the narrowing depends on: they stand at positions *)
(* of which a filtered list keeps some.                                    *)
(*                                                                         *)
(* The containers of a Pod are flattened: its envFrom sources, its env     *)
(* entries and its mounts name the container and the place (init, app or   *)
(* ephemeral) they belong to.  A projected volume is one record for each   *)
(* of its sources.                                                         *)
(***************************************************************************)
EXTENDS Naturals, FiniteSets, Sequences, SequencesExt

\* What a filter leaves of a list, in the order of the list.
Filtered(list, kept) == [i \in {j \in DOMAIN list : list[j] \in kept} |-> list[i]]

\* What a rule reports: model.NewFinding without its wording and evidence.
Finding(level, code, object, detail) ==
    [level |-> level, code |-> code, object |-> object, detail |-> detail]

\* A finding when its condition holds.
When(condition, finding) == IF condition THEN {finding} ELSE {}

\* Mutant: a list counts as fetched whatever its status says.
TakenForGranted(s, key) == TRUE

\* A list that was fetched, or one that a hand-built snapshot does not track.
AvailableOrUntracked(s, key) == key \notin s.failed

Available(s, key) == key \notin s.failed

Services(s) == {s.services[i] : i \in DOMAIN s.services}

NameOf(object) == <<object.ns, object.name>>

\* No target, no reference, no selector that can be parsed, no index yet.
Nothing == <<>>

\* The lists behind the lookups by name.  The index is built by the first
\* lookup and from then on answers for the lists it was built from.
IndexedLists ==
    {"secrets", "configmaps", "pvcs", "serviceaccounts", "priorityclasses", "runtimeclasses"}

Index(s) == IF s.index = Nothing THEN [l \in IndexedLists |-> s[l]] ELSE s.index

Found(s, list, name) == {o \in Index(s)[list] : NameOf(o) = name}

-----------------------------------------------------------------------------
(* What belongs to the selected Pod. *)

\* serviceSelectsPod: an empty selector selects nothing.
SelectsPod(service, pod) ==
    /\ service.ns = pod.ns
    /\ service.selector # {}
    /\ service.selector \subseteq pod.labels

\* selectedPodReferencesService: an environment value or a command line of the
\* Pod names the Service.  Of the names with a trailing dot only the fully
\* qualified one is recognised.
MentionsService(pod, service) ==
    /\ service.ns = pod.ns
    /\ \E host \in pod.hosts :
           /\ host.name = service.name
           /\ host.form = "short" \/ host.ns = service.ns
           /\ host.dot => host.form = "fqdn"

\* objectReferenceMatches.
RefersTo(reference, pod, namespace) ==
    /\ reference # Nothing
    /\ reference.kind \in {"", "Pod"}
    /\ (IF reference.ns = "" THEN namespace ELSE reference.ns) = pod.ns
    /\ reference.name = pod.name
    /\ reference.uid \in {"", pod.uid} \/ pod.uid = ""

\* endpointSliceTargetsPod and endpointsTargetPod.
TargetsPod(object, endpoints, pod) ==
    /\ object.ns = pod.ns
    /\ \E e \in endpoints : RefersTo(e.ref, pod, object.ns) \/ e.address \in pod.ips

SliceTargetsPod(slice, pod) == TargetsPod(slice, slice.endpoints, pod)

EndpointsTargetPod(endpoint, pod) ==
    TargetsPod(endpoint, endpoint.ready \union endpoint.notReady, pod)

\* ingressUsesSelectedService: one backend of the Ingress is enough.
UsesService(ingress, names) == \E b \in ingress.backends : <<ingress.ns, b>> \in names

\* selectedPodObjectReferences: the names of the ConfigMaps or Secrets that the
\* environments, the volumes and imagePullSecrets of the Pod refer to.
ReferencedNames(pod, kind) ==
    {f.object : f \in {g \in ToSet(pod.envFrom) : g.kind = kind}}
        \union {v.object : v \in {w \in pod.env : w.kind = kind}}
        \union {v.object : v \in {w \in pod.volumes : w.kind = kind}}
        \union (IF kind = "Secret" THEN pod.pullSecrets ELSE {})

\* selectedPodPVCNames: claims named in a volume, and those of generic
\* ephemeral volumes under the name Kubernetes derives for them.
ClaimNames(pod) ==
    {v.object : v \in {w \in pod.volumes : w.kind \in {"PersistentVolumeClaim", "Ephemeral"}}}

\* inClusterServiceDNSName over the Services in the order of the list: an alias
\* adds its target when the alias itself was already kept at that point.
FollowAliases(services, kept) ==
    LET after[i \in Nat] ==
            IF i = 0 THEN kept
            ELSE LET names == after[i - 1]
                 IN  names \union {services[j].target : j \in {k \in DOMAIN services \intersect {i} :
                                     /\ services[k].external
                                     /\ NameOf(services[k]) \in names
                                     /\ services[k].target # Nothing}}
    IN  kept \union UNION {after[i] : i \in DOMAIN services}

\* The Services kept for the Pod: those that select it or that it mentions, the
\* targets of kept aliases, and those whose endpoints point to the Pod.
OwnServices(s, pod) ==
    {NameOf(v) : v \in {w \in Services(s) : SelectsPod(w, pod) \/ MentionsService(pod, w)}}

KeptServices(s, pod) ==
    FollowAliases(s.services, OwnServices(s, pod))
        \union {<<v.ns, v.service>> : v \in {w \in s.slices :
                                       SliceTargetsPod(w, pod) /\ w.service # ""}}
        \union {NameOf(v) : v \in {w \in s.endpoints : EndpointsTargetPod(w, pod)}}

-----------------------------------------------------------------------------
(* scopeSnapshotToSelectedPod. *)

InNamespace(objects, namespace, names) ==
    {o \in objects : o.ns = namespace /\ o.name \in names}

KeptIngresses(s, names) == {i \in s.ingresses : UsesService(i, names)}

\* The Secrets the Pod refers to and those its Ingresses terminate TLS with.
SecretNames(pod, ingresses) ==
    ReferencedNames(pod, "Secret") \union UNION {i.tls : i \in ingresses}

\* A policy whose selector cannot be parsed is kept, so that the rule reports it.
KeptPolicies(s, pod) ==
    {p \in s.policies : /\ p.ns = pod.ns
                        /\ p.selector = "invalid" \/ p.labels \subseteq pod.labels}

KeptVolumes(s, pod, claims) ==
    {v \in s.pvs : \/ v.name \in {c.volume : c \in claims}
                   \/ v.claim # Nothing /\ v.claim[1] = pod.ns /\ v.claim[2] \in ClaimNames(pod)}

\* The shallow copy shares the index of its source until the last statement
\* drops it.  AllPods and the lists of controllers, classes and nodes stay whole.
Scope(s, pod) ==
    LET names == KeptServices(s, pod)
        ingresses == KeptIngresses(s, names)
        claims == InNamespace(s.pvcs, pod.ns, ClaimNames(pod))
    IN  [s EXCEPT
            !.ns = pod.ns,
            !.pods = {pod},
            !.services = Filtered(@, {v \in Services(s) : NameOf(v) \in names}),
            !.slices = {v \in @ : <<v.ns, v.service>> \in names \/ SliceTargetsPod(v, pod)},
            !.endpoints = {v \in @ : NameOf(v) \in names \/ EndpointsTargetPod(v, pod)},
            !.ingresses = ingresses,
            !.configmaps = InNamespace(@, pod.ns, ReferencedNames(pod, "ConfigMap")),
            !.secrets = InNamespace(@, pod.ns, SecretNames(pod, ingresses)),
            !.serviceaccounts = InNamespace(@, pod.ns, {pod.serviceAccount}),
            !.policies = KeptPolicies(s, pod),
            !.pvcs = claims,
            !.pvs = KeptVolumes(s, pod, claims),
            !.index = Nothing]
=============================================================================
