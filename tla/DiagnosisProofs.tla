--------------------------- MODULE DiagnosisProofs ---------------------------
(***************************************************************************)
(* Proofs about Diagnosis for every cluster, every command line, every set *)
(* of failed lists and every first page.  What was collected, and what the *)
(* narrowing leaves of it, is Sound: each list a rule looks a name up in   *)
(* holds the object of that name if the cluster does.  From it, rule by    *)
(* rule, no finding says that an object which exists does not.  It is also *)
(* Compared with the snapshot that nothing failed for: what both hold of   *)
(* each list.  From that, rule by rule, the verdicts on the one are those  *)
(* on the other, but for what is reported as unavailable.                  *)
(***************************************************************************)
EXTENDS Diagnosis, Recursion, TLAPS

-----------------------------------------------------------------------------
(* What is collected                                                        *)

Visible(namespace, object) == namespace \in {"", object.ns}

KeyOf(list) == IF list = "slices" THEN "endpoint_slices" ELSE list

\* The lists that are the same in every namespace.
ClusterWide == ClusterLists \ (NamespacedLists \union {"services"})

\* A collected snapshot has all lists, the namespace and the outcome, and no index.
LEMMA CollectedFields ==
    ASSUME NEW c \in Clusters, NEW namespace, NEW failed, NEW page, NEW s,
           s = Collected(c, namespace, failed, page)
    PROVE  /\ DOMAIN s = ClusterLists \union {"ns", "failed", "allPods", "index"}
           /\ s.ns = namespace
           /\ s.failed = Outcome(namespace, failed)
           /\ s.index = Nothing
<1>1. DOMAIN c = ClusterLists
  BY ClustersAssumption
<1>2. DOMAIN s = DOMAIN c \union {"ns", "failed", "allPods", "index"}
  BY DEF Collected
<1>3. /\ "ns" \in DOMAIN s /\ "failed" \in DOMAIN s /\ "index" \in DOMAIN s
      /\ "ns" \notin NamespacedLists /\ "failed" \notin NamespacedLists
      /\ "index" \notin NamespacedLists
  BY <1>2 DEF NamespacedLists
<1>4. s["ns"] = namespace
  BY <1>3, <1>2 DEF Collected
<1>5. s["failed"] = Outcome(namespace, failed)
  BY <1>3, <1>2 DEF Collected
<1>6. s["index"] = Nothing
  BY <1>3, <1>2 DEF Collected
<1> QED
  BY <1>1, <1>2, <1>4, <1>5, <1>6

\* A list of the namespace holds objects of the cluster that are visible there,
\* and all of them unless it failed.
LEMMA CollectedNamespaced ==
    ASSUME NEW c \in Clusters, NEW namespace, NEW failed, NEW page, NEW s,
           s = Collected(c, namespace, failed, page), NEW l \in NamespacedLists
    PROVE  /\ s[l] \subseteq {o \in c[l] : Visible(namespace, o)}
           /\ KeyOf(l) \notin s.failed => s[l] = {o \in c[l] : Visible(namespace, o)}
<1>1. DOMAIN c = ClusterLists /\ l \in ClusterLists
  BY ClustersAssumption DEF ClusterLists, NamespacedLists
<1>2. l \notin {"ns", "failed", "index", "allPods", "services"}
  BY DEF NamespacedLists
<1>3. s.failed = Outcome(namespace, failed)
  BY CollectedFields
<1>4. s[l] = {o \in (IF KeyOf(l) \in Outcome(namespace, failed) THEN {o \in c[l] : o.name \in page} ELSE c[l]) :
                Visible(namespace, o)}
  BY <1>1, <1>2 DEF Collected, KeyOf, Visible
<1> QED
  BY <1>3, <1>4

\* A list of the whole cluster holds objects of it, and all of them unless it failed.
LEMMA CollectedWide ==
    ASSUME NEW c \in Clusters, NEW namespace, NEW failed, NEW page, NEW s,
           s = Collected(c, namespace, failed, page), NEW l \in ClusterWide
    PROVE  /\ s[l] \subseteq c[l]
           /\ l \notin s.failed => s[l] = c[l]
<1>1. DOMAIN c = ClusterLists /\ l \in ClusterLists
  BY ClustersAssumption DEF ClusterWide
<1>2. l \notin {"ns", "failed", "index", "allPods", "services", "pods", "all_pods"} /\ l \notin NamespacedLists
  BY DEF NamespacedLists, ClusterWide, ClusterLists
<1>3. s.failed = Outcome(namespace, failed)
  BY CollectedFields
<1>4. s[l] = IF l \in failed THEN {} ELSE c[l]
  BY <1>1, <1>2 DEF Collected
<1>5. l \in Outcome(namespace, failed) <=> l \in failed
  BY <1>2 DEF Outcome
<1> QED
  BY <1>3, <1>4, <1>5

\* The Pods of every namespace, likewise.
LEMMA CollectedPods ==
    ASSUME NEW c \in Clusters, NEW namespace, NEW failed, NEW page, NEW s,
           s = Collected(c, namespace, failed, page)
    PROVE  /\ s.allPods \subseteq c.pods
           /\ "all_pods" \notin s.failed => s.allPods = c.pods
<1>1. DOMAIN c = ClusterLists
  BY ClustersAssumption
<1>3. s.failed = Outcome(namespace, failed)
  BY CollectedFields
<1>4. s["allPods"] = IF "all_pods" \in Outcome(namespace, failed) THEN {o \in c.pods : o.name \in page} ELSE c.pods
  BY <1>1 DEF Collected, NamespacedLists
<1> QED
  BY <1>3, <1>4

\* Filtering a sparse list keeps positions and drops only what is not kept.
LEMMA FilteredServices ==
    ASSUME NEW list, NEW kept
    PROVE  /\ DOMAIN Filtered(list, kept) \subseteq DOMAIN list
           /\ \A i \in DOMAIN Filtered(list, kept) : Filtered(list, kept)[i] = list[i]
           /\ {Filtered(list, kept)[i] : i \in DOMAIN Filtered(list, kept)}
                = {list[i] : i \in DOMAIN list} \intersect kept
BY DEF Filtered

\* The Services collected are those of the namespace, and all unless the list failed.
LEMMA CollectedServices ==
    ASSUME NEW c \in Clusters, NEW namespace, NEW failed, NEW page, NEW s,
           s = Collected(c, namespace, failed, page)
    PROVE  /\ DOMAIN s.services \subseteq Nat \ {0}
           /\ Services(s) \subseteq {v \in Services(c) : Visible(namespace, v)}
           /\ "services" \notin s.failed => Services(s) = {v \in Services(c) : Visible(namespace, v)}
<1>1. DOMAIN c = ClusterLists /\ DOMAIN c.services \subseteq Nat \ {0}
  BY ClustersAssumption
<1>3. s.failed = Outcome(namespace, failed)
  BY CollectedFields
<1> DEFINE fetched == IF "services" \in Outcome(namespace, failed) THEN {o \in Services(c) : o.name \in page}
                      ELSE Services(c)
           kept == {v \in fetched : Visible(namespace, v)}
<1>2. "services" \in ClusterLists /\ "services" \notin NamespacedLists
  BY DEF ClusterLists, NamespacedLists
<1>4. s["services"] = Filtered(c.services, kept)
  BY <1>1, <1>2 DEF Collected, Visible
<1>5. Services(s) = Services(c) \intersect kept
  BY <1>4, FilteredServices DEF Services
<1>6. DOMAIN s.services \subseteq DOMAIN c.services
  BY <1>4, FilteredServices
<1> QED
  BY <1>1, <1>3, <1>5, <1>6

-----------------------------------------------------------------------------
(* The aliases that are followed                                            *)

\* What the Service at position i adds to the names kept so far.
AliasTargets(services, i, names) ==
    {services[j].target : j \in {k \in DOMAIN services \intersect {i} :
                                    /\ services[k].external
                                    /\ NameOf(services[k]) \in names
                                    /\ services[k].target # Nothing}}

Pass(after, services, kept) ==
    /\ after[0] = kept
    /\ \A n \in Nat \ {0} : after[n] = after[n - 1] \union AliasTargets(services, n, after[n - 1])

\* The pass over the list, as the recursion in the definition.
LEMMA PassExists ==
    ASSUME NEW services, NEW kept, DOMAIN services \subseteq Nat \ {0}
    PROVE  \E after \in [Nat -> SUBSET (kept \union {services[j].target : j \in DOMAIN services})] :
              /\ Pass(after, services, kept)
              /\ FollowAliases(services, kept) = kept \union UNION {after[i] : i \in DOMAIN services}
<1> DEFINE S == SUBSET (kept \union {services[j].target : j \in DOMAIN services})
           step == [p \in Nat \X S |-> p[2] \union AliasTargets(services, p[1], p[2])]
<1>1. \A n, s : s \in S => s \union AliasTargets(services, n, s) \in S
  BY DEF AliasTargets
<1>2. step \in StepsOver(S)
  BY <1>1 DEF StepsOver
<1>3. kept \in S
  OBVIOUS
<1>4. \A n \in Nat, s \in S : step[<<n, s>>] = s \union AliasTargets(services, n, s)
  OBVIOUS
<1> HIDE DEF S, step
<1>5. PICK f \in ValuesIn(S) : Recursion(f, kept, step)
  BY <1>2, <1>3, RecursionOverNat
<1>6. ASSUME NEW n \in Nat \ {0}
      PROVE  f[n] = f[n - 1] \union AliasTargets(services, n, f[n - 1])
  <2>1. n - 1 \in Nat /\ n \in Nat
    OBVIOUS
  <2>2. f[n - 1] \in S
    BY <2>1 DEF ValuesIn
  <2> QED
    BY <1>4, <1>5, <2>1, <2>2 DEF Recursion
<1>7. Pass(f, services, kept)
  BY <1>5, <1>6 DEF Pass, Recursion
<1> DEFINE Body(after) == [i \in Nat |->
            IF i = 0 THEN kept
            ELSE after[i - 1] \union AliasTargets(services, i, after[i - 1])]
           g == CHOOSE after : after = Body(after)
<1>8. f = Body(f)
  <2>1. f \in [Nat -> S]
    BY DEF ValuesIn
  <2>2. \A i \in Nat : f[i] = Body(f)[i]
    BY <1>7 DEF Pass
  <2> QED
    BY <2>1, <2>2
<1>9. g = Body(g)
  BY <1>8
<1> HIDE DEF g
<1>10. g \in [Nat -> S] /\ Pass(g, services, kept)
  <2>1. Pass(g, services, kept)
    BY <1>9 DEF Pass
  <2> DEFINE T == {n \in Nat : g[n] \in S}
  <2>2. 0 \in T
    BY <1>3, <2>1 DEF Pass
  <2>3. ASSUME NEW n \in Nat, n \in T
        PROVE  n + 1 \in T
    <3>1. g[n + 1] = g[n] \union AliasTargets(services, n + 1, g[n])
      <4>1. n + 1 \in Nat \ {0} /\ (n + 1) - 1 = n
        OBVIOUS
      <4> QED
        BY <2>1, <4>1 DEF Pass
    <3> QED
      BY <1>1, <2>3, <3>1
  <2>4. Nat \subseteq T
    <3> HIDE DEF T
    <3> QED
      BY <2>2, <2>3, InductionOverNat
  <2>5. \A n \in Nat : g[n] \in S
    BY <2>4
  <2>6. g = [n \in Nat |-> g[n]]
    BY <1>9
  <2> QED
    BY <2>1, <2>5, <2>6
<1>11. FollowAliases(services, kept) = kept \union UNION {g[i] : i \in DOMAIN services}
  BY DEF FollowAliases, AliasTargets, g
<1> QED
  BY <1>10, <1>11 DEF S

\* The pass never drops a name.
LEMMA PassGrows ==
    ASSUME NEW services, NEW kept, NEW after, Pass(after, services, kept)
    PROVE  \A n \in Nat : kept \subseteq after[n]
<1> DEFINE T == {n \in Nat : kept \subseteq after[n]}
<1>1. 0 \in T
  BY DEF Pass
<1>2. ASSUME NEW n \in Nat, n \in T
      PROVE  n + 1 \in T
  BY <1>2 DEF Pass
<1>3. Nat \subseteq T
  <2> HIDE DEF T
  <2> QED
    BY <1>1, <1>2, InductionOverNat
<1> QED
  BY <1>3

\* What was kept stays kept, and with it the targets of its aliases.
LEMMA AliasesFollowed ==
    ASSUME NEW services, NEW kept, DOMAIN services \subseteq Nat \ {0}
    PROVE  /\ kept \subseteq FollowAliases(services, kept)
           /\ \A i \in DOMAIN services :
                 services[i].external /\ NameOf(services[i]) \in kept /\ services[i].target # Nothing
                    => services[i].target \in FollowAliases(services, kept)
<1>1. PICK after : /\ Pass(after, services, kept)
                   /\ FollowAliases(services, kept) = kept \union UNION {after[i] : i \in DOMAIN services}
  BY PassExists
<1>2. ASSUME NEW i \in DOMAIN services, services[i].external,
             NameOf(services[i]) \in kept, services[i].target # Nothing
      PROVE  services[i].target \in after[i]
  <2>1. i \in Nat \ {0} /\ i - 1 \in Nat
    OBVIOUS
  <2>2. NameOf(services[i]) \in after[i - 1]
    BY <1>1, <1>2, <2>1, PassGrows
  <2>3. services[i].target \in AliasTargets(services, i, after[i - 1])
    BY <1>2, <2>2 DEF AliasTargets
  <2> QED
    BY <1>1, <2>1, <2>3 DEF Pass
<1> QED
  BY <1>1, <1>2

-----------------------------------------------------------------------------
(* What the rules rely on                                                   *)

DependencyKinds == InNamespaceDependencies \union {"PriorityClass", "RuntimeClass"}

\* s is what was collected of the cluster in the namespace of the run, and v what
\* is left of it for a Pod.
CollectedView(s) == \E failed \in Failures, page \in FirstPages : s = Collected(cluster, run.ns, failed, page)

NarrowedView(v) ==
    \E s : /\ CollectedView(s)
           /\ Available(s, "pods")
           /\ \E pod \in s.pods : NameOf(pod) = run.pod /\ v = Scope(s, pod)

View(v) == IF run.mode = "select" THEN NarrowedView(v) ELSE CollectedView(v)

Names(s) == {NameOf(v) : v \in Services(s)}

\* What the rules rely on: each list they look a name up in holds the object of
\* that name when there is one.

ReferencesKept(s) ==
    \A p \in s.pods : \A d \in PodDependencies(p) :
        d.kind \in DependencyKinds /\ Available(s, ListOf(d.kind))
            => \A o \in cluster[ListOf(d.kind)] :
                   NameOf(o) = <<NamespaceOf(p, d.kind), d.name>> => o \in s[ListOf(d.kind)]

AliasTargetsKept(s) ==
    Available(s, "services") =>
    \A v \in Services(s) :
        /\ v.external /\ v.target # Nothing
        /\ s.ns \in {"", v.target[1]}
        /\ v.target \in ClusterServices
        /\ run.mode = "select" => \E p \in s.pods : NameOf(v) \in OwnServices(s, p)
        => v.target \in Names(s)

HostsKept(s) ==
    Available(s, "services") =>
    \A p \in s.pods : \A h \in p.hosts :
        h.form = "fqdn" /\ s.ns \in {"", h.ns} /\ <<h.ns, h.name>> \in ClusterServices
            => <<h.ns, h.name>> \in Names(s)

CertificatesKept(s) ==
    Available(s, "secrets") =>
    \A i \in s.ingresses : \A t \in i.tls :
        (run.mode = "select" => i.ns = run.pod[1])
            => \A o \in cluster.secrets : NameOf(o) = <<i.ns, t>> => o \in s.secrets

SelectedKept(s) ==
    Available(s, "pods") /\ (run.mode = "select" => Available(s, "all_pods")) =>
    \A v \in Services(s), p \in cluster.pods : SelectsPod(v, p) => p \in SelectorPods(s)

\* A policy that selects some Pod selects one of those that are left.
PoliciesKept(s) ==
    Available(s, "pods") =>
    \A q \in s.policies :
        q.selector # "invalid" /\ Matching(s.pods, q.ns, q.labels) = {}
            => Matching(cluster.pods, q.ns, q.labels) = {}

OfTheCluster(s) ==
    /\ s.index = Nothing
    /\ Services(s) \subseteq Services(cluster)
    /\ s.pvcs \subseteq cluster.pvcs
    /\ s.pods \subseteq cluster.pods
    /\ s.policies \subseteq cluster.policies
    /\ s.pdbs \subseteq cluster.pdbs
    /\ Available(s, "storageclasses") => s.storageclasses = cluster.storageclasses
    /\ Available(s, "ingressclasses") => s.ingressclasses = cluster.ingressclasses
    /\ Available(s, "gatewayclasses") => s.gatewayclasses = cluster.gatewayclasses

Sound(s) ==
    /\ OfTheCluster(s)
    /\ ReferencesKept(s)
    /\ AliasTargetsKept(s)
    /\ HostsKept(s)
    /\ CertificatesKept(s)
    /\ SelectedKept(s)
    /\ PoliciesKept(s)

\* A lookup without an index gives the objects of that name in the list.
LEMMA FoundIs ==
    ASSUME NEW s, s.index = Nothing, NEW l \in IndexedLists, NEW name
    PROVE  Found(s, l, name) = {o \in s[l] : NameOf(o) = name}
BY DEF Found, Index

\* The first part of an object's name is its namespace.
LEMMA NamespaceOfAName ==
    ASSUME NEW o
    PROVE  NameOf(o)[1] = o.ns
<1>1. <<o.ns, o.name>>[1] = o.ns
  OBVIOUS
<1> QED
  BY <1>1 DEF NameOf

\* The names that PodDependencies gives are the ones the narrowing keeps.
LEMMA ReferencesOfAPod ==
    ASSUME NEW pod, References(pod), NEW d \in PodDependencies(pod)
    PROVE  /\ d.kind \in {"ConfigMap", "Secret"} => d.name \in ReferencedNames(pod, d.kind)
           /\ d.kind = "PersistentVolumeClaim" => d.name \in ClaimNames(pod)
           /\ d.kind = "ServiceAccount" => d.name = pod.serviceAccount
<1>1. ASSUME NEW f \in ToSet(pod.envFrom), d.kind = f.kind, d.name = f.object
      PROVE  f.kind \in {"ConfigMap", "Secret"} /\ f.object \in ReferencedNames(pod, f.kind)
  BY DEF References, ReferencedNames
<1>2. ASSUME NEW v \in pod.env, v.kind # "value", d.kind = v.kind, d.name = v.object
      PROVE  v.kind \in {"ConfigMap", "Secret"} /\ v.object \in ReferencedNames(pod, v.kind)
  BY <1>2 DEF References, ReferencedNames
<1>3. CASE d \in EnvironmentReferences(pod)
  <2>1. CASE \E f \in ToSet(pod.envFrom) : d = Reference(f.kind, f.object, "", f.place, FALSE, f.optional)
    <3>1. PICK f \in ToSet(pod.envFrom) : d = Reference(f.kind, f.object, "", f.place, FALSE, f.optional)
      BY <2>1
    <3>2. d.kind = f.kind /\ d.name = f.object
      BY <3>1 DEF Reference
    <3> QED
      BY <3>2, <1>1
  <2>2. CASE \E v \in pod.env : /\ v.kind # "value"
                               /\ d = Reference(v.kind, v.object, v.key, v.place, v.kind = "ConfigMap", v.optional)
    <3>1. PICK v \in pod.env : /\ v.kind # "value"
                               /\ d = Reference(v.kind, v.object, v.key, v.place, v.kind = "ConfigMap", v.optional)
      BY <2>2
    <3>2. d.kind = v.kind /\ d.name = v.object
      BY <3>1 DEF Reference
    <3> QED
      BY <3>1, <3>2, <1>2
  <2> QED
    BY <1>3, <2>1, <2>2 DEF EnvironmentReferences
<1>4. CASE d \in VolumeReferences(pod)
  <2>1. PICK v \in pod.volumes :
            \E k \in (IF v.items = {} THEN {""} ELSE v.items) :
                d = Reference(v.kind, v.object, k, "volume", FALSE, v.optional)
    BY <1>4 DEF VolumeReferences
  <2>2. PICK k : d = Reference(v.kind, v.object, k, "volume", FALSE, v.optional)
    BY <2>1
  <2>6. d.kind = v.kind /\ d.name = v.object
    BY <2>2 DEF Reference
  <2>3. v.kind \in {"ConfigMap", "Secret", "PersistentVolumeClaim", "Ephemeral"}
    BY DEF References
  <2>4. v.kind \in {"ConfigMap", "Secret"} => v.object \in ReferencedNames(pod, v.kind)
    BY DEF ReferencedNames
  <2>5. v.kind = "PersistentVolumeClaim" => v.object \in ClaimNames(pod)
    BY DEF ClaimNames
  <2> QED
    BY <2>6, <2>3, <2>4, <2>5
<1>5. CASE d \in {Reference("Secret", n, "", "imagePullSecrets", FALSE, FALSE) : n \in pod.pullSecrets}
  <2>1. PICK n \in pod.pullSecrets : d = Reference("Secret", n, "", "imagePullSecrets", FALSE, FALSE)
    BY <1>5
  <2>2. d.kind = "Secret" /\ d.name = n
    BY <2>1 DEF Reference
  <2> QED
    BY <2>2 DEF ReferencedNames
<1>6. CASE d = Reference("ServiceAccount", pod.serviceAccount, "", "pod", FALSE, FALSE)
  <2>1. d.kind = "ServiceAccount" /\ d.name = pod.serviceAccount
    BY <1>6 DEF Reference
  <2> QED
    BY <2>1
<1>7. CASE \/ d = Reference("PriorityClass", pod.priorityClass, "", "pod", FALSE, FALSE)
           \/ d = Reference("RuntimeClass", pod.runtimeClass, "", "pod", FALSE, FALSE)
  <2>1. CASE d = Reference("PriorityClass", pod.priorityClass, "", "pod", FALSE, FALSE)
    BY <2>1 DEF Reference
  <2>2. CASE d = Reference("RuntimeClass", pod.runtimeClass, "", "pod", FALSE, FALSE)
    BY <2>2 DEF Reference
  <2> QED
    BY <1>7, <2>1, <2>2
<1> QED
  BY <1>3, <1>4, <1>5, <1>6, <1>7 DEF PodDependencies, When

\* The list of every kind of dependency.
LEMMA ListOfKinds ==
    /\ ListOf("ConfigMap") = "configmaps" /\ ListOf("Secret") = "secrets"
    /\ ListOf("PersistentVolumeClaim") = "pvcs" /\ ListOf("ServiceAccount") = "serviceaccounts"
    /\ ListOf("PriorityClass") = "priorityclasses" /\ ListOf("RuntimeClass") = "runtimeclasses"
BY DEF ListOf

\* What was collected without narrowing is sound.
LEMMA CollectedIsSound ==
    ASSUME cluster \in Clusters, NEW failed, NEW page, NEW s,
           s = Collected(cluster, run.ns, failed, page), run.mode # "select"
    PROVE  Sound(s)
<1>0. s.ns = run.ns /\ s.index = Nothing
  BY CollectedFields
<1>1. \A l \in NamespacedLists :
         /\ s[l] \subseteq {o \in cluster[l] : Visible(run.ns, o)}
         /\ KeyOf(l) \notin s.failed => s[l] = {o \in cluster[l] : Visible(run.ns, o)}
  BY CollectedNamespaced
<1>2. \A l \in ClusterWide : s[l] \subseteq cluster[l] /\ (l \notin s.failed => s[l] = cluster[l])
  BY CollectedWide
<1>3. /\ Services(s) \subseteq {v \in Services(cluster) : Visible(run.ns, v)}
      /\ "services" \notin s.failed => Services(s) = {v \in Services(cluster) : Visible(run.ns, v)}
  BY CollectedServices
<1>4. "all_pods" \notin s.failed => s.allPods = cluster.pods
  BY CollectedPods
<1>5. OfTheCluster(s)
  <2>1. /\ s.pvcs \subseteq cluster.pvcs /\ s.pods \subseteq cluster.pods
        /\ s.policies \subseteq cluster.policies /\ s.pdbs \subseteq cluster.pdbs
    BY <1>1 DEF NamespacedLists
  <2>2. \A l \in {"storageclasses", "ingressclasses", "gatewayclasses"} :
            l \notin s.failed => s[l] = cluster[l]
    BY <1>2 DEF ClusterWide, NamespacedLists, ClusterLists
  <2> QED
    BY <1>0, <1>3, <2>1, <2>2 DEF OfTheCluster, Available
<1>6. ReferencesKept(s)
  <2> SUFFICES ASSUME NEW p \in s.pods, NEW d \in PodDependencies(p), d.kind \in DependencyKinds,
                      Available(s, ListOf(d.kind)), NEW o \in cluster[ListOf(d.kind)],
                      NameOf(o) = <<NamespaceOf(p, d.kind), d.name>>
               PROVE  o \in s[ListOf(d.kind)]
    BY DEF ReferencesKept
  <2>1. Visible(run.ns, p)
    BY <1>1 DEF NamespacedLists
  <2>2. CASE d.kind \in InNamespaceDependencies
    <3>1. Visible(run.ns, o)
      BY <2>1, <2>2 DEF InNamespaceDependencies, NamespaceOf, NameOf, Visible
    <3>2. ListOf(d.kind) \in NamespacedLists /\ KeyOf(ListOf(d.kind)) = ListOf(d.kind)
      BY <2>2, ListOfKinds DEF InNamespaceDependencies, NamespacedLists, KeyOf
    <3> QED
      BY <1>1, <3>1, <3>2 DEF Available
  <2>3. CASE d.kind \in {"PriorityClass", "RuntimeClass"}
    <3>1. ListOf(d.kind) \in ClusterWide
      BY <2>3, ListOfKinds DEF ClusterWide, NamespacedLists, ClusterLists
    <3> QED
      BY <1>2, <3>1 DEF Available
  <2> QED
    BY <2>2, <2>3 DEF DependencyKinds
<1>7. AliasTargetsKept(s)
  <2> SUFFICES ASSUME Available(s, "services"), NEW v \in Services(s), s.ns \in {"", v.target[1]},
                      v.target \in ClusterServices
               PROVE  v.target \in Names(s)
    BY DEF AliasTargetsKept
  <2>1. PICK w \in Services(cluster) : NameOf(w) = v.target
    BY DEF ClusterServices
  <2>2. w.ns = v.target[1]
    BY <2>1, NamespaceOfAName
  <2>3. Visible(run.ns, w)
    BY <1>0, <2>2 DEF Visible
  <2> QED
    BY <1>3, <2>1, <2>3 DEF Names, Available
<1>8. HostsKept(s)
  <2> SUFFICES ASSUME Available(s, "services"), NEW p \in s.pods, NEW h \in p.hosts,
                      s.ns \in {"", h.ns}, <<h.ns, h.name>> \in ClusterServices
               PROVE  <<h.ns, h.name>> \in Names(s)
    BY DEF HostsKept
  <2>1. PICK w \in Services(cluster) : NameOf(w) = <<h.ns, h.name>>
    BY DEF ClusterServices
  <2>2. Visible(run.ns, w)
    BY <1>0, <2>1 DEF Visible, NameOf
  <2> QED
    BY <1>3, <2>1, <2>2 DEF Names, Available
<1>9. CertificatesKept(s)
  <2> SUFFICES ASSUME Available(s, "secrets"), NEW i \in s.ingresses, NEW t \in i.tls,
                      NEW o \in cluster.secrets, NameOf(o) = <<i.ns, t>>
               PROVE  o \in s.secrets
    BY DEF CertificatesKept
  <2>1. Visible(run.ns, i)
    BY <1>1 DEF NamespacedLists
  <2>2. Visible(run.ns, o)
    BY <2>1 DEF Visible, NameOf
  <2> QED
    BY <1>1, <2>2 DEF NamespacedLists, KeyOf, Available
<1>10. SelectedKept(s)
  <2> SUFFICES ASSUME Available(s, "pods"), NEW v \in Services(s), NEW p \in cluster.pods,
                      SelectsPod(v, p)
               PROVE  p \in SelectorPods(s)
    BY DEF SelectedKept
  <2>1. Visible(run.ns, p)
    BY <1>3 DEF Visible, SelectsPod
  <2>2. p \in s.pods
    BY <1>1, <2>1 DEF NamespacedLists, KeyOf, Available
  <2> QED
    BY <1>4, <2>2 DEF SelectorPods, AvailableOrUntracked
<1>11. PoliciesKept(s)
  <2> SUFFICES ASSUME Available(s, "pods"), NEW q \in s.policies,
                      Matching(cluster.pods, q.ns, q.labels) # {}
               PROVE  Matching(s.pods, q.ns, q.labels) # {}
    BY DEF PoliciesKept
  <2>1. Visible(run.ns, q)
    BY <1>1 DEF NamespacedLists
  <2>2. PICK p \in cluster.pods : p \in Matching(cluster.pods, q.ns, q.labels)
    BY DEF Matching
  <2>3. p.ns = q.ns
    BY <2>2 DEF Matching
  <2>4. p \in s.pods
    BY <1>1, <2>1, <2>3 DEF NamespacedLists, KeyOf, Available, Visible
  <2> QED
    BY <2>2, <2>4 DEF Matching
<1> QED
  BY <1>5, <1>6, <1>7, <1>8, <1>9, <1>10, <1>11 DEF Sound

-----------------------------------------------------------------------------
(* What is kept for a Pod                                                   *)

SnapshotLists == ClusterLists \union {"ns", "failed", "allPods", "index"}

ScopeOf(v, s, pod) ==
    /\ DOMAIN v = SnapshotLists
    /\ v.ns = pod.ns /\ v.failed = s.failed /\ v.index = Nothing
    /\ v.pods = {pod} /\ v.allPods = s.allPods
    /\ v.services = Filtered(s.services, {w \in Services(s) : NameOf(w) \in KeptServices(s, pod)})
    /\ v.ingresses = KeptIngresses(s, KeptServices(s, pod))
    /\ v.configmaps = InNamespace(s.configmaps, pod.ns, ReferencedNames(pod, "ConfigMap"))
    /\ v.secrets = InNamespace(s.secrets, pod.ns,
                       SecretNames(pod, KeptIngresses(s, KeptServices(s, pod))))
    /\ v.serviceaccounts = InNamespace(s.serviceaccounts, pod.ns, {pod.serviceAccount})
    /\ v.policies = KeptPolicies(s, pod)
    /\ v.pvcs = InNamespace(s.pvcs, pod.ns, ClaimNames(pod))
    /\ v.pvs = KeptVolumes(s, pod, InNamespace(s.pvcs, pod.ns, ClaimNames(pod)))
    /\ \A l \in {"priorityclasses", "runtimeclasses", "storageclasses", "ingressclasses",
                 "controllers", "replicasets", "gateways", "routes", "gatewayclasses",
                 "webhooks", "pdbs"} : v[l] = s[l]
    /\ v.slices = {x \in s.slices : \/ <<x.ns, x.service>> \in KeptServices(s, pod)
                                    \/ SliceTargetsPod(x, pod)}
    /\ v.endpoints = {x \in s.endpoints : \/ NameOf(x) \in KeptServices(s, pod)
                                          \/ EndpointsTargetPod(x, pod)}

\* The narrowed snapshot, list by list.
LEMMA ScopeFields ==
    ASSUME NEW s, DOMAIN s = SnapshotLists, NEW pod, NEW v, v = Scope(s, pod)
    PROVE  ScopeOf(v, s, pod)
<1> DEFINE names == KeptServices(s, pod)
           ingresses == KeptIngresses(s, names)
           claims == InNamespace(s.pvcs, pod.ns, ClaimNames(pod))
           services == Filtered(s.services, {w \in Services(s) : NameOf(w) \in names})
           slices == {x \in s.slices : <<x.ns, x.service>> \in names \/ SliceTargetsPod(x, pod)}
           endpoints == {x \in s.endpoints : NameOf(x) \in names \/ EndpointsTargetPod(x, pod)}
           configmaps == InNamespace(s.configmaps, pod.ns, ReferencedNames(pod, "ConfigMap"))
           secrets == InNamespace(s.secrets, pod.ns, SecretNames(pod, ingresses))
           accounts == InNamespace(s.serviceaccounts, pod.ns, {pod.serviceAccount})
           policies == KeptPolicies(s, pod)
           pvs == KeptVolumes(s, pod, claims)
<1>1. v = [s EXCEPT !.ns = pod.ns, !.pods = {pod}, !.services = services, !.slices = slices,
                    !.endpoints = endpoints, !.ingresses = ingresses, !.configmaps = configmaps,
                    !.secrets = secrets, !.serviceaccounts = accounts, !.policies = policies,
                    !.pvcs = claims, !.pvs = pvs, !.index = Nothing]
  BY DEF Scope
<1>2. SnapshotLists = {"pods", "services", "slices", "endpoints", "ingresses", "configmaps", "secrets",
     "serviceaccounts", "policies", "pvcs", "pvs", "priorityclasses", "runtimeclasses",
     "storageclasses", "ingressclasses", "controllers", "replicasets", "gateways", "routes",
     "gatewayclasses", "webhooks", "pdbs", "ns", "failed", "allPods", "index"}
  BY DEF SnapshotLists, ClusterLists
<1> HIDE DEF names, ingresses, claims, services, slices, endpoints, configmaps, secrets, accounts,
             policies, pvs, SnapshotLists
<1>3. DOMAIN v = SnapshotLists
  BY <1>1
<1>4. /\ v.ns = pod.ns /\ v.failed = s.failed /\ v.index = Nothing
      /\ v.pods = {pod} /\ v.allPods = s.allPods
  BY <1>1, <1>2
<1>5. /\ v.services = services /\ v.ingresses = ingresses /\ v.configmaps = configmaps
      /\ v.secrets = secrets /\ v.serviceaccounts = accounts
  BY <1>1, <1>2
<1>6. /\ v.policies = policies /\ v.pvcs = claims /\ v.pvs = pvs
      /\ v.slices = slices /\ v.endpoints = endpoints
  BY <1>1, <1>2
<1>7. \A l \in {"priorityclasses", "runtimeclasses", "storageclasses", "ingressclasses",
                "controllers", "replicasets", "gateways", "routes", "gatewayclasses",
                "webhooks", "pdbs"} : v[l] = s[l]
  BY <1>1, <1>2
<1> QED
  BY <1>3, <1>4, <1>5, <1>6, <1>7 DEF names, ingresses, claims, services, slices, endpoints,
     configmaps, secrets, accounts, policies, pvs, ScopeOf

\* The Services kept for a Pod include its own, and the targets of their aliases.
LEMMA OwnServicesAreKept ==
    ASSUME NEW s, DOMAIN s.services \subseteq Nat \ {0}, NEW pod
    PROVE  /\ OwnServices(s, pod) \subseteq KeptServices(s, pod)
           /\ \A v \in Services(s) :
                 v.external /\ NameOf(v) \in OwnServices(s, pod) /\ v.target # Nothing
                    => v.target \in KeptServices(s, pod)
<1> DEFINE own == OwnServices(s, pod)
           followed == FollowAliases(s.services, own)
<1>1. /\ own \subseteq followed
      /\ \A i \in DOMAIN s.services :
            s.services[i].external /\ NameOf(s.services[i]) \in own /\ s.services[i].target # Nothing
               => s.services[i].target \in followed
  BY AliasesFollowed
<1>2. followed \subseteq KeptServices(s, pod)
  BY DEF KeptServices
<1> HIDE DEF own, followed
<1>3. own \subseteq KeptServices(s, pod)
  BY <1>1, <1>2
<1>4. ASSUME NEW v \in Services(s), v.external, NameOf(v) \in own, v.target # Nothing
      PROVE  v.target \in KeptServices(s, pod)
  <2>1. PICK i \in DOMAIN s.services : v = s.services[i]
    BY DEF Services
  <2> QED
    BY <1>1, <1>2, <1>4, <2>1
<1> QED
  BY <1>3, <1>4 DEF own

\* The own Services of a Pod are the same in what is kept for it.
LEMMA OwnServicesOfTheView ==
    ASSUME NEW s, NEW v, NEW pod, Services(v) \subseteq Services(s)
    PROVE  OwnServices(v, pod) \subseteq OwnServices(s, pod)
BY DEF OwnServices

\* The narrowed list of Services holds exactly the Services kept.
LEMMA ScopedServices ==
    ASSUME NEW s, DOMAIN s = SnapshotLists, NEW pod, NEW v, v = Scope(s, pod)
    PROVE  Services(v) = {w \in Services(s) : NameOf(w) \in KeptServices(s, pod)}
<1>1. v.services = Filtered(s.services, {w \in Services(s) : NameOf(w) \in KeptServices(s, pod)})
  <2>1. ScopeOf(v, s, pod)
    BY ScopeFields
  <2> QED
    BY <2>1 DEF ScopeOf
<1> DEFINE kept == {w \in Services(s) : NameOf(w) \in KeptServices(s, pod)}
<1>2. v.services = Filtered(s.services, kept)
  BY <1>1
<1>3. kept \subseteq Services(s)
  OBVIOUS
<1> HIDE DEF kept
<1>4. Services(v) = Services(s) \intersect kept
  BY <1>2, FilteredServices DEF Services
<1>5. Services(v) = kept
  BY <1>3, <1>4
<1> QED
  BY <1>5 DEF kept

\* What is left of a collected snapshot for one of its Pods is sound.
LEMMA NarrowedIsSound ==
    ASSUME cluster \in Clusters, NEW failed, NEW page, NEW s,
           s = Collected(cluster, run.ns, failed, page), run.mode = "select",
           Available(s, "pods"), NEW pod \in s.pods, NameOf(pod) = run.pod,
           NEW v, v = Scope(s, pod)
    PROVE  Sound(v)
<1>0. s.ns = run.ns /\ s.index = Nothing /\ DOMAIN s = SnapshotLists
  BY CollectedFields DEF SnapshotLists
<1>1. \A l \in NamespacedLists :
         /\ s[l] \subseteq {o \in cluster[l] : Visible(run.ns, o)}
         /\ KeyOf(l) \notin s.failed => s[l] = {o \in cluster[l] : Visible(run.ns, o)}
  BY CollectedNamespaced
<1>2. \A l \in ClusterWide : s[l] \subseteq cluster[l] /\ (l \notin s.failed => s[l] = cluster[l])
  BY CollectedWide
<1>3. /\ DOMAIN s.services \subseteq Nat \ {0}
      /\ Services(s) \subseteq {w \in Services(cluster) : Visible(run.ns, w)}
      /\ "services" \notin s.failed => Services(s) = {w \in Services(cluster) : Visible(run.ns, w)}
  BY CollectedServices
<1>4. "all_pods" \notin s.failed => s.allPods = cluster.pods
  BY CollectedPods
<1>5. ScopeOf(v, s, pod)
  BY <1>0, ScopeFields
<1>6. Services(v) = {w \in Services(s) : NameOf(w) \in KeptServices(s, pod)}
  BY <1>0, ScopedServices
<1>7. pod \in cluster.pods /\ Visible(run.ns, pod)
  BY <1>1 DEF NamespacedLists
<1>8. pod.ns # "" /\ References(pod)
  BY <1>7, ClustersAssumption
<1>9. v.ns = pod.ns /\ v.failed = s.failed /\ v.index = Nothing /\ v.pods = {pod} /\ v.allPods = s.allPods
  BY <1>5 DEF ScopeOf
<1>10. OfTheCluster(v)
  <2>1. /\ v.pvcs \subseteq s.pvcs /\ v.policies \subseteq s.policies /\ v.pdbs = s.pdbs
        /\ v.storageclasses = s.storageclasses /\ v.ingressclasses = s.ingressclasses
        /\ v.gatewayclasses = s.gatewayclasses
    BY <1>5 DEF ScopeOf, InNamespace, KeptPolicies
  <2>2. /\ s.pvcs \subseteq cluster.pvcs /\ s.policies \subseteq cluster.policies
        /\ s.pdbs \subseteq cluster.pdbs
    BY <1>1 DEF NamespacedLists
  <2>3. \A l \in {"storageclasses", "ingressclasses", "gatewayclasses"} :
            l \notin s.failed => s[l] = cluster[l]
    BY <1>2 DEF ClusterWide, NamespacedLists, ClusterLists
  <2> QED
    BY <1>3, <1>6, <1>7, <1>9, <2>1, <2>2, <2>3 DEF OfTheCluster, Available
<1>11. ReferencesKept(v)
  <2> SUFFICES ASSUME NEW d \in PodDependencies(pod), d.kind \in DependencyKinds,
                      Available(s, ListOf(d.kind)), NEW o \in cluster[ListOf(d.kind)],
                      NameOf(o) = <<NamespaceOf(pod, d.kind), d.name>>
               PROVE  o \in v[ListOf(d.kind)]
    BY <1>9 DEF ReferencesKept, Available
  <2>1. CASE d.kind \in InNamespaceDependencies
    <3>1. o.ns = pod.ns /\ o.name = d.name
      BY <2>1 DEF InNamespaceDependencies, NamespaceOf, NameOf
    <3>2. Visible(run.ns, o)
      BY <1>7, <3>1 DEF Visible
    <3>3. ListOf(d.kind) \in NamespacedLists /\ KeyOf(ListOf(d.kind)) = ListOf(d.kind)
      BY <2>1, ListOfKinds DEF InNamespaceDependencies, NamespacedLists, KeyOf
    <3>4. o \in s[ListOf(d.kind)]
      BY <1>1, <3>2, <3>3 DEF Available
    <3>5. CASE d.kind = "ConfigMap"
      <4>1. d.name \in ReferencedNames(pod, "ConfigMap")
        BY <1>8, <3>5, ReferencesOfAPod
      <4>2. v.configmaps = InNamespace(s.configmaps, pod.ns, ReferencedNames(pod, "ConfigMap"))
        BY <1>5 DEF ScopeOf
      <4> QED
        BY <3>1, <3>4, <3>5, <4>1, <4>2, ListOfKinds DEF InNamespace
    <3>6. CASE d.kind = "Secret"
      <4>1. d.name \in SecretNames(pod, KeptIngresses(s, KeptServices(s, pod)))
        BY <1>8, <3>6, ReferencesOfAPod DEF SecretNames
      <4>2. v.secrets = InNamespace(s.secrets, pod.ns,
                            SecretNames(pod, KeptIngresses(s, KeptServices(s, pod))))
        BY <1>5 DEF ScopeOf
      <4> QED
        BY <3>1, <3>4, <3>6, <4>1, <4>2, ListOfKinds DEF InNamespace
    <3>7. CASE d.kind = "PersistentVolumeClaim"
      <4>1. d.name \in ClaimNames(pod)
        BY <1>8, <3>7, ReferencesOfAPod
      <4>2. v.pvcs = InNamespace(s.pvcs, pod.ns, ClaimNames(pod))
        BY <1>5 DEF ScopeOf
      <4> QED
        BY <3>1, <3>4, <3>7, <4>1, <4>2, ListOfKinds DEF InNamespace
    <3>8. CASE d.kind = "ServiceAccount"
      <4>1. d.name = pod.serviceAccount
        BY <1>8, <3>8, ReferencesOfAPod
      <4>2. v.serviceaccounts = InNamespace(s.serviceaccounts, pod.ns, {pod.serviceAccount})
        BY <1>5 DEF ScopeOf
      <4> QED
        BY <3>1, <3>4, <3>8, <4>1, <4>2, ListOfKinds DEF InNamespace
    <3> QED
      BY <2>1, <3>5, <3>6, <3>7, <3>8 DEF InNamespaceDependencies
  <2>2. CASE d.kind \in {"PriorityClass", "RuntimeClass"}
    <3>1. ListOf(d.kind) \in ClusterWide
      BY <2>2, ListOfKinds DEF ClusterWide, NamespacedLists, ClusterLists
    <3>2. v[ListOf(d.kind)] = s[ListOf(d.kind)]
      BY <1>5, <2>2, ListOfKinds DEF ScopeOf
    <3> QED
      BY <1>2, <3>1, <3>2 DEF Available
  <2> QED
    BY <2>1, <2>2 DEF DependencyKinds
<1>12. ASSUME Available(s, "services"), NEW w \in Services(cluster), w.ns = pod.ns,
              NameOf(w) \in KeptServices(s, pod)
       PROVE  NameOf(w) \in Names(v)
  <2>1. Visible(run.ns, w)
    BY <1>7, <1>12 DEF Visible
  <2>2. w \in Services(v)
    BY <1>3, <1>6, <1>12, <2>1 DEF Available
  <2> QED
    BY <2>2 DEF Names
<1>13. AliasTargetsKept(v)
  <2> SUFFICES ASSUME Available(s, "services"), NEW a \in Services(v), a.external, a.target # Nothing,
                      pod.ns \in {"", a.target[1]}, a.target \in ClusterServices,
                      NameOf(a) \in OwnServices(v, pod)
               PROVE  a.target \in Names(v)
    BY <1>9 DEF AliasTargetsKept, Available
  <2>1. PICK w \in Services(cluster) : NameOf(w) = a.target
    BY DEF ClusterServices
  <2>2. w.ns = a.target[1]
    BY <2>1, NamespaceOfAName
  <2>3. NameOf(a) \in OwnServices(s, pod) /\ a \in Services(s)
    BY <1>6 DEF OwnServices
  <2>4. a.target \in KeptServices(s, pod)
    BY <1>3, <2>3, OwnServicesAreKept
  <2> QED
    BY <1>8, <1>12, <2>1, <2>2, <2>4
<1>14. HostsKept(v)
  <2> SUFFICES ASSUME Available(s, "services"), NEW h \in pod.hosts, h.form = "fqdn",
                      pod.ns \in {"", h.ns}, <<h.ns, h.name>> \in ClusterServices
               PROVE  <<h.ns, h.name>> \in Names(v)
    BY <1>9 DEF HostsKept, Available
  <2>1. PICK w \in Services(cluster) : NameOf(w) = <<h.ns, h.name>>
    BY DEF ClusterServices
  <2>2. w.ns = h.ns /\ w.name = h.name
    BY <2>1 DEF NameOf
  <2>3. MentionsService(pod, w)
    BY <1>8, <2>2 DEF MentionsService
  <2>4. w \in Services(s)
    BY <1>3, <1>7, <1>8, <2>2 DEF Available, Visible
  <2>5. NameOf(w) \in KeptServices(s, pod)
    BY <1>3, <2>3, <2>4, OwnServicesAreKept DEF OwnServices
  <2> QED
    BY <1>8, <1>12, <2>1, <2>2, <2>5
<1>15. CertificatesKept(v)
  <2> SUFFICES ASSUME Available(s, "secrets"), NEW i \in v.ingresses, NEW t \in i.tls,
                      i.ns = run.pod[1], NEW o \in cluster.secrets, NameOf(o) = <<i.ns, t>>
               PROVE  o \in v.secrets
    BY <1>9 DEF CertificatesKept, Available
  <2>1. o.ns = i.ns /\ o.name = t
    BY DEF NameOf
  <2>2. o.ns = pod.ns
    BY <2>1, NamespaceOfAName
  <2>3. o \in s.secrets
    BY <1>1, <1>7, <2>2 DEF Available, Visible, NamespacedLists, KeyOf
  <2>4. /\ v.secrets = InNamespace(s.secrets, pod.ns, SecretNames(pod, v.ingresses))
    BY <1>5 DEF ScopeOf
  <2>5. t \in SecretNames(pod, v.ingresses)
    BY DEF SecretNames
  <2> QED
    BY <2>1, <2>2, <2>3, <2>4, <2>5 DEF InNamespace
<1>16. SelectedKept(v)
  <2> SUFFICES ASSUME Available(s, "all_pods"), NEW w \in Services(v), NEW p \in cluster.pods
               PROVE  p \in SelectorPods(v)
    BY <1>9 DEF SelectedKept, Available
  <2>1. v.allPods = cluster.pods /\ v.allPods # {} /\ AvailableOrUntracked(v, "all_pods")
    BY <1>4, <1>9 DEF Available, AvailableOrUntracked
  <2> QED
    BY <2>1 DEF SelectorPods
<1>17. PoliciesKept(v)
  <2> SUFFICES ASSUME NEW q \in v.policies, q.selector # "invalid"
               PROVE  Matching(v.pods, q.ns, q.labels) # {}
    BY DEF PoliciesKept
  <2>1. q.ns = pod.ns /\ q.labels \subseteq pod.labels
    BY <1>5 DEF ScopeOf, KeptPolicies
  <2> QED
    BY <1>9, <2>1 DEF Matching
<1> QED
  BY <1>10, <1>11, <1>13, <1>14, <1>15, <1>16, <1>17 DEF Sound

-----------------------------------------------------------------------------
(* Findings that say something does not exist                               *)

ObjectCodes ==
    {"MISSING_OBJECT", "OPTIONAL_OBJECT_MISSING", "EPHEMERAL_MISSING_OBJECT", "MISSING_IMAGE_PULL_SECRET"}

ServiceCodes ==
    {"EXTERNAL_NAME_TARGET_NOT_FOUND", "ENV_SERVICE_NOT_FOUND", "WEBHOOK_MISSING_SERVICE", "BACKEND_NOT_FOUND"}

KeyCodes == {"MISSING_KEY", "OPTIONAL_KEY_MISSING", "EPHEMERAL_MISSING_KEY"}

AbsenceCodes ==
    ObjectCodes \union ServiceCodes \union KeyCodes \union
    {"MISSING_SERVICE", "MISSING_TLS_SECRET", "PARENT_NOT_FOUND", "SELECTOR_NO_MATCH",
     "PEER_NO_MATCH", "STORAGE_CLASS_NOT_FOUND", "CLASS_NOT_FOUND", "GATEWAY_CLASS_NOT_FOUND",
     "POLICY_NO_MATCH", "PDB_NO_MATCH"}

\* The fields of a finding.
LEMMA FindingFields ==
    ASSUME NEW level, NEW code, NEW object, NEW detail
    PROVE  /\ Finding(level, code, object, detail).level = level
           /\ Finding(level, code, object, detail).code = code
           /\ Finding(level, code, object, detail).object = object
           /\ Finding(level, code, object, detail).detail = detail
BY DEF Finding

\* Only the codes of absence can be invented.
LEMMA OtherCodes ==
    ASSUME NEW f, f.code \notin AbsenceCodes
    PROVE  ~Invented(f)
BY DEF Invented, AbsenceCodes, ObjectCodes, ServiceCodes, KeyCodes

\* What an invented finding about a referenced object says.
LEMMA InventedObject ==
    ASSUME NEW f, f.code \in ObjectCodes
    PROVE  Invented(f) => \E o \in cluster[ListOf(f.detail)] : NameOf(o) = f.object
BY DEF Invented, ObjectCodes

\* What an invented finding about a Service says.
LEMMA InventedService ==
    ASSUME NEW f, f.code \in ServiceCodes
    PROVE  Invented(f) => f.detail \in ClusterServices
BY DEF Invented, ServiceCodes

\* What an invented finding about a key says.
LEMMA InventedKey ==
    ASSUME NEW f, f.code \in KeyCodes, Invented(f)
    PROVE  \E o \in cluster[ListOf(f.detail[1])] :
               NameOf(o) = f.object /\ f.detail[2] \in KeysIn(o, f.detail[1])
BY DEF Invented, KeyCodes

\* What the other invented findings say.
LEMMA InventedOthers ==
    ASSUME NEW f, Invented(f)
    PROVE  /\ f.code = "MISSING_SERVICE" => <<f.object[1], f.detail>> \in ClusterServices
           /\ f.code = "MISSING_TLS_SECRET" =>
                 \E o \in cluster.secrets : NameOf(o) = <<f.object[1], f.detail>>
           /\ f.code = "PARENT_NOT_FOUND" => \E o \in cluster.gateways : NameOf(o) = f.detail
           /\ f.code = "SELECTOR_NO_MATCH" =>
                 \E v \in Services(cluster), p \in cluster.pods : NameOf(v) = f.object /\ SelectsPod(v, p)
           /\ f.code = "PEER_NO_MATCH" => Matching(cluster.pods, f.object[1], f.detail) # {}
           /\ f.code = "STORAGE_CLASS_NOT_FOUND" =>
                 \E c \in cluster.pvcs, d \in cluster.storageclasses :
                     NameOf(c) = f.object /\ d.name = c.class
           /\ f.code = "CLASS_NOT_FOUND" => f.detail \in cluster.ingressclasses
           /\ f.code = "GATEWAY_CLASS_NOT_FOUND" => f.detail \in cluster.gatewayclasses
           /\ f.code = "POLICY_NO_MATCH" =>
                 \E q \in cluster.policies :
                     NameOf(q) = f.object /\ Matching(cluster.pods, q.ns, q.labels) # {}
           /\ f.code = "PDB_NO_MATCH" =>
                 \E b \in cluster.pdbs :
                     NameOf(b) = f.object /\ Matching(cluster.pods, b.ns, b.labels) # {}
BY DEF Invented

\* A finding about a missing object has one of the four codes and names it and its kind.
LEMMA MissingObjectFields ==
    ASSUME NEW d, NEW object
    PROVE  /\ MissingObject(d, object).code \in ObjectCodes
           /\ MissingObject(d, object).object = object
           /\ MissingObject(d, object).detail = d.kind
           /\ MissingObject(d, object).level \in {"Issue", "Warning", "Candidate"}
<1> DEFINE level == {"Issue", "Warning", "Candidate"}
<1>1. \E l \in {"Issue", "Warning", "Candidate"}, c \in ObjectCodes :
          MissingObject(d, object) = Finding(l, c, object, d.kind)
  <2>1. CASE d.optional
    BY <2>1 DEF MissingObject, ObjectCodes
  <2> QED
    BY <2>1 DEF MissingObject, ObjectCodes
<1> QED
  BY <1>1, FindingFields

\* A finding about a missing key has one of the three codes and names its object and it.
LEMMA MissingKeyFields ==
    ASSUME NEW d, NEW object
    PROVE  /\ MissingKey(d, object).code \in KeyCodes
           /\ MissingKey(d, object).object = object
           /\ MissingKey(d, object).detail = <<d.kind, d.key>>
           /\ MissingKey(d, object).level \in {"Issue", "Warning", "Candidate"}
<1>1. \E l \in {"Issue", "Warning", "Candidate"}, c \in KeyCodes :
          MissingKey(d, object) = Finding(l, c, object, <<d.kind, d.key>>)
  BY DEF MissingKey, KeyCodes
<1> QED
  BY <1>1, FindingFields

\* The rules over dependencies invent no absence.
LEMMA DependencyAbsence ==
    ASSUME Sound(snapshot), NEW kinds, kinds \subseteq DependencyKinds,
           \A k \in kinds : Available(snapshot, ListOf(k)),
           NEW f \in DependencyFindings(snapshot, kinds)
    PROVE  /\ ~Invented(f)
           /\ f.level \in {"Issue", "Warning", "Candidate"}
<1>0. PICK p \in snapshot.pods :
          f \in UNION {DependencyFinding(snapshot, p, d) : d \in MergedDependencies(p, kinds)}
  BY DEF DependencyFindings
<1>1. PICK d \in MergedDependencies(p, kinds) : f \in DependencyFinding(snapshot, p, d)
  BY <1>0
<1>2. d \in PodDependencies(p) /\ d.kind \in kinds
  BY <1>1 DEF MergedDependencies
<1> DEFINE object == <<NamespaceOf(p, d.kind), d.name>>
<1>3. CASE ~ObjectExists(snapshot, p, d)
  <2>1. f = MissingObject(d, object)
    BY <1>1, <1>3 DEF DependencyFinding
  <2>2. ListOf(d.kind) \in IndexedLists
    BY <1>2, ListOfKinds DEF DependencyKinds, InNamespaceDependencies, IndexedLists
  <2>3. ~ \E o \in snapshot[ListOf(d.kind)] : NameOf(o) = object
    BY <1>3, <2>2, FoundIs DEF ObjectExists, Target, Sound, OfTheCluster
  <2>4. ~ \E o \in cluster[ListOf(d.kind)] : NameOf(o) = object
    BY <1>2, <2>3 DEF Sound, ReferencesKept
  <2> HIDE DEF object
  <2>5. f.code \in ObjectCodes /\ f.object = object /\ f.detail = d.kind
        /\ f.level \in {"Issue", "Warning", "Candidate"}
    BY <2>1, MissingObjectFields
  <2> QED
    BY <2>4, <2>5, InventedObject
<1>4. CASE ObjectExists(snapshot, p, d)
  <2>1. f = MissingKey(d, object) /\ ~KeyExists(snapshot, p, d)
    BY <1>1, <1>4 DEF DependencyFinding, When
  <2>2. ListOf(d.kind) \in IndexedLists
    BY <1>2, ListOfKinds DEF DependencyKinds, InNamespaceDependencies, IndexedLists
  <2>3. ASSUME NEW o \in cluster[ListOf(d.kind)], NameOf(o) = object
        PROVE  d.key \notin KeysIn(o, d.kind)
    <3>1. o \in snapshot[ListOf(d.kind)]
      BY <1>2, <2>3 DEF Sound, ReferencesKept
    <3>2. o \in Target(snapshot, p, d)
      BY <2>2, <2>3, <3>1, FoundIs DEF Target, Sound, OfTheCluster
    <3>3. d.key \notin KeysFor(o, d)
      BY <2>1, <3>2 DEF KeyExists
    <3> QED
      BY <3>3 DEF KeysIn, KeysFor
  <2> HIDE DEF object
  <2>4. /\ f.code \in KeyCodes /\ f.object = object /\ f.detail = <<d.kind, d.key>>
        /\ f.level \in {"Issue", "Warning", "Candidate"}
    BY <2>1, MissingKeyFields
  <2>5. f.detail[1] = d.kind /\ f.detail[2] = d.key
    BY <2>4
  <2> QED
    BY <2>3, <2>4, <2>5, InventedKey
<1> QED
  BY <1>3, <1>4

Levels == {"Issue", "Warning", "Candidate", "Unavailable"}

\* A finding that says nothing of the existence of another object.
NoAbsence(f) == f.code \notin AbsenceCodes /\ f.level \in Levels

\* Such a finding is not invented.
LEMMA NoAbsenceIsInvented ==
    ASSUME NEW f, NoAbsence(f)
    PROVE  ~Invented(f) /\ f.level \in Levels
BY OtherCodes DEF NoAbsence

\* A finding made with one of the other codes is such a finding.
LEMMA NoAbsenceFinding ==
    ASSUME NEW f, NEW l \in Levels, NEW c, c \notin AbsenceCodes, NEW o, NEW d, f = Finding(l, c, o, d)
    PROVE  NoAbsence(f)
BY FindingFields DEF NoAbsence

\* The levels, and the codes that say nothing of another object's existence.
LEMMA LevelsAndCodes ==
    /\ "Issue" \in Levels /\ "Warning" \in Levels /\ "Candidate" \in Levels /\ "Unavailable" \in Levels
    /\ \A c \in {"STARTUP_NOT_GATED", "FQDN_SEARCH_EXPANSION", "ENV_RESTART_REQUIRED",
                  "INTERNAL_TRAFFIC_LOCAL_GAP", "SELECTOR_PARTIAL_MATCH", "NO_READY_ENDPOINT",
                  "TERMINATING_ENDPOINTS_ONLY", "TARGET_PORT_UNRESOLVED", "TARGET_PORT_UNDECLARED",
                  "LOAD_BALANCER_PENDING", "INVALID_TLS_SECRET", "GATEWAY_CONDITION",
                  "ROUTE_CONDITION", "HOSTNAME_MISMATCH", "PATH_BACKEND_MISMATCH", "RESIZE_PENDING",
                  "LOST", "NOT_BOUND", "PV_NOT_USABLE", "SELECTOR_UNAVAILABLE",
                  "SERVICE_UNVERIFIABLE", "HEALTH_BELOW_DESIRED", "NO_DISRUPTIONS_ALLOWED",
                  "SIZE_NEAR_LIMIT", "ENV_KEY_SHADOWED", "SUBPATH_NOT_UPDATED",
                  "PARTIAL_UNAVAILABLE", "RULE_UNAVAILABLE"} : c \notin AbsenceCodes
BY DEF Levels, AbsenceCodes, ObjectCodes, ServiceCodes, KeyCodes

\* The rule over runtime dependencies invents no absent Service.
LEMMA RuntimeAbsence ==
    ASSUME Sound(snapshot), Available(snapshot, "services"), NEW f \in RuntimeFindings(snapshot)
    PROVE  ~Invented(f) /\ f.level \in Levels
<1>1. PICK p \in snapshot.pods : f \in EnvServiceFindings(snapshot, p) \union RestartFindings(snapshot, p)
  BY DEF RuntimeFindings
<1>2. CASE f \in RestartFindings(snapshot, p)
  <2>1. PICK o, d : f = Finding("Candidate", "ENV_RESTART_REQUIRED", o, d)
    BY <1>2 DEF RestartFindings
  <2> QED
    BY <2>1, NoAbsenceFinding, NoAbsenceIsInvented, LevelsAndCodes
<1>3. CASE f \in EnvServiceFindings(snapshot, p)
  <2>1. \/ NoAbsence(f)
        \/ \E h \in p.hosts :
              /\ h.form = "fqdn" /\ <<h.ns, h.name>> \notin Names(snapshot) /\ snapshot.ns \in {"", h.ns}
              /\ f = Finding("Warning", "ENV_SERVICE_NOT_FOUND", NameOf(p), <<h.ns, h.name>>)
    <3> DEFINE services == {NameOf(v) : v \in Services(snapshot)}
               values == {h \in p.hosts : h.via = "env" /\ h.place = "app"}
               full == {h \in values : h.form = "fqdn"}
               short == {h \in values : h.form = "short"}
    <3>1. \/ f \in {Finding("Warning", "ENV_SERVICE_NOT_FOUND", NameOf(p), <<h.ns, h.name>>) :
                      h \in {g \in full : <<g.ns, g.name>> \notin services /\ snapshot.ns \in {"", g.ns}}}
          \/ f \in {Finding("Candidate", "STARTUP_NOT_GATED", NameOf(p), <<p.ns, h.name>>) :
                      h \in {g \in short : <<p.ns, g.name>> \in services /\ ~p.gated}}
          \/ f \in {Finding("Candidate", "FQDN_SEARCH_EXPANSION", NameOf(p), <<h.ns, h.name>>) :
                      h \in {g \in full : <<g.ns, g.name>> \in services /\ ~g.dot /\ p.ndots >= 5}}
      BY <1>3 DEF EnvServiceFindings
    <3>2. CASE f \in {Finding("Candidate", "STARTUP_NOT_GATED", NameOf(p), <<p.ns, h.name>>) :
                      h \in {g \in short : <<p.ns, g.name>> \in services /\ ~p.gated}}
      <4>1. PICK o, d : f = Finding("Candidate", "STARTUP_NOT_GATED", o, d)
        BY <3>2
      <4> QED
        BY <4>1, NoAbsenceFinding, LevelsAndCodes
    <3>3. CASE f \in {Finding("Candidate", "FQDN_SEARCH_EXPANSION", NameOf(p), <<h.ns, h.name>>) :
                      h \in {g \in full : <<g.ns, g.name>> \in services /\ ~g.dot /\ p.ndots >= 5}}
      <4>1. PICK o, d : f = Finding("Candidate", "FQDN_SEARCH_EXPANSION", o, d)
        BY <3>3
      <4> QED
        BY <4>1, NoAbsenceFinding, LevelsAndCodes
    <3> QED
      BY <3>1, <3>2, <3>3 DEF Names
  <2>2. CASE NoAbsence(f)
    BY <2>2, NoAbsenceIsInvented
  <2>3. ASSUME NEW h \in p.hosts, h.form = "fqdn", <<h.ns, h.name>> \notin Names(snapshot),
               snapshot.ns \in {"", h.ns},
               f = Finding("Warning", "ENV_SERVICE_NOT_FOUND", NameOf(p), <<h.ns, h.name>>)
        PROVE  ~Invented(f) /\ f.level \in Levels
    <3>1. f.code = "ENV_SERVICE_NOT_FOUND" /\ f.level = "Warning" /\ f.detail = <<h.ns, h.name>>
      BY <2>3 DEF Finding
    <3>2. <<h.ns, h.name>> \notin ClusterServices
      BY <2>3 DEF Sound, HostsKept
    <3> QED
      BY <3>1, <3>2, InventedService DEF ServiceCodes, Levels
  <2> QED
    BY <2>1, <2>2, <2>3
<1> QED
  BY <1>1, <1>2, <1>3

\* The rule over Services invents no absent target and no empty selection, but for
\* what the narrowed view cannot tell.
LEMMA ServiceAbsence ==
    ASSUME Sound(snapshot), cluster \in Clusters, Available(snapshot, "services"),
           NEW f \in ServiceFindings(snapshot)
    PROVE  (Invented(f) => BeyondTheNarrowedView(f)) /\ f.level \in Levels
<1>1. PICK v \in Services(snapshot) : f \in ServiceFindingsOf(snapshot, v)
  BY DEF ServiceFindings
<1>2. CASE v.external
  <2>1. ExternalNameTargetMissing(snapshot, v)
        /\ f = Finding("Warning", "EXTERNAL_NAME_TARGET_NOT_FOUND", NameOf(v), v.target)
    BY <1>1, <1>2 DEF ServiceFindingsOf, When
  <2>2. f.code = "EXTERNAL_NAME_TARGET_NOT_FOUND" /\ f.level = "Warning" /\ f.detail = v.target
        /\ f.object = NameOf(v)
    BY <2>1 DEF Finding
  <2>3. ASSUME Invented(f)
        PROVE  BeyondTheNarrowedView(f)
    <3>1. v.target \in ClusterServices
      BY <2>2, <2>3, InventedService DEF ServiceCodes
    <3>2. ~(run.mode = "select" => \E p \in snapshot.pods : NameOf(v) \in OwnServices(snapshot, p))
      BY <1>2, <2>1, <3>1 DEF Sound, AliasTargetsKept, ExternalNameTargetMissing, Names
    <3> QED
      BY <2>2, <3>2 DEF BeyondTheNarrowedView
  <2> QED
    BY <2>2, <2>3 DEF Levels
<1>3. CASE NoAbsence(f)
  BY <1>3, NoAbsenceIsInvented
<1>4. CASE f = Finding("Warning", "SELECTOR_NO_MATCH", NameOf(v), "")
           /\ Selected(snapshot, v) = {} /\ Available(snapshot, "pods")
  <2>1. f.code = "SELECTOR_NO_MATCH" /\ f.level = "Warning" /\ f.object = NameOf(v)
    BY <1>4 DEF Finding
  <2>2. ASSUME Invented(f), ~JudgedOnOnePod
        PROVE  FALSE
    <3>1. PICK w \in Services(cluster), p \in cluster.pods : NameOf(w) = NameOf(v) /\ SelectsPod(w, p)
      BY <2>1, <2>2, InventedOthers
    <3>2. v \in Services(cluster) /\ OneOfEachName(Services(cluster))
      BY ClustersAssumption DEF Sound, OfTheCluster
    <3>3. w = v
      BY <3>1, <3>2 DEF OneOfEachName
    <3>4. p \in SelectorPods(snapshot)
      BY <1>4, <2>2, <3>1, <3>3 DEF Sound, SelectedKept, JudgedOnOnePod
    <3> QED
      BY <1>4, <3>1, <3>3, <3>4 DEF Selected
  <2> QED
    BY <2>1, <2>2 DEF BeyondTheNarrowedView, Levels
<1>5. ASSUME ~v.external
      PROVE  \/ NoAbsence(f)
             \/ /\ f = Finding("Warning", "SELECTOR_NO_MATCH", NameOf(v), "")
                /\ Selected(snapshot, v) = {} /\ Available(snapshot, "pods")
  <2>1. \/ f \in SelectorFindings(snapshot, v) \/ f \in EndpointFindings(snapshot, v)
        \/ f \in PortFindings(snapshot, v)
        \/ f = Finding("Candidate", "LOAD_BALANCER_PENDING", NameOf(v), "")
    BY <1>1, <1>5 DEF ServiceFindingsOf, When
  <2>2. CASE f \in SelectorFindings(snapshot, v)
    <3>1. Available(snapshot, "pods")
      BY <2>2 DEF SelectorFindings, Available, AvailableOrUntracked
    <3>2. \/ f = Finding("Candidate", "INTERNAL_TRAFFIC_LOCAL_GAP", NameOf(v), "")
          \/ f = Finding("Warning", "SELECTOR_NO_MATCH", NameOf(v), "") /\ Selected(snapshot, v) = {}
          \/ \E owner : f = Finding("Warning", "SELECTOR_PARTIAL_MATCH", NameOf(v), owner)
      BY <2>2 DEF SelectorFindings, When
    <3>3. CASE f = Finding("Candidate", "INTERNAL_TRAFFIC_LOCAL_GAP", NameOf(v), "")
      BY <3>3, NoAbsenceFinding, LevelsAndCodes
    <3>4. CASE \E owner : f = Finding("Warning", "SELECTOR_PARTIAL_MATCH", NameOf(v), owner)
      BY <3>4, NoAbsenceFinding, LevelsAndCodes
    <3> QED
      BY <3>1, <3>2, <3>3, <3>4
  <2>3. CASE f \in EndpointFindings(snapshot, v)
    <3>1. \E c \in {"NO_READY_ENDPOINT", "TERMINATING_ENDPOINTS_ONLY"} :
              f = Finding("Warning", c, NameOf(v), "")
      BY <2>3 DEF EndpointFindings, When
    <3> QED
      BY <3>1, NoAbsenceFinding, LevelsAndCodes
  <2>4. CASE f \in PortFindings(snapshot, v)
    <3>1. \E o, d : \E l \in {"Issue", "Candidate"}, c \in {"TARGET_PORT_UNRESOLVED", "TARGET_PORT_UNDECLARED"} :
              f = Finding(l, c, o, d)
      BY <2>4 DEF PortFindings
    <3> QED
      BY <3>1, NoAbsenceFinding, LevelsAndCodes
  <2>5. CASE f = Finding("Candidate", "LOAD_BALANCER_PENDING", NameOf(v), "")
    BY <2>5, NoAbsenceFinding, LevelsAndCodes
  <2> QED
    BY <2>1, <2>2, <2>3, <2>4, <2>5
<1> QED
  BY <1>2, <1>3, <1>4, <1>5

-----------------------------------------------------------------------------
(* A view that is not narrowed                                              *)

\* What a view that is not narrowed also holds.
WholeView(s) ==
    /\ s.ns = run.ns
    /\ Available(s, "services") =>
          \A n \in ClusterServices : run.ns \in {"", n[1]} => n \in Names(s)
    /\ \A o \in s.ingresses \union s.policies \union s.pdbs : Visible(run.ns, o)
    /\ Available(s, "gateways") => {g \in cluster.gateways : Visible(run.ns, g)} \subseteq s.gateways
    /\ Available(s, "pods") => {p \in cluster.pods : Visible(run.ns, p)} \subseteq s.pods

\* What was collected is such a view.
LEMMA CollectedIsWhole ==
    ASSUME cluster \in Clusters, NEW failed, NEW page, NEW s,
           s = Collected(cluster, run.ns, failed, page)
    PROVE  WholeView(s)
<1>0. s.ns = run.ns
  BY CollectedFields
<1>1. \A l \in NamespacedLists :
         /\ s[l] \subseteq {o \in cluster[l] : Visible(run.ns, o)}
         /\ KeyOf(l) \notin s.failed => s[l] = {o \in cluster[l] : Visible(run.ns, o)}
  BY CollectedNamespaced
<1>3. "services" \notin s.failed => Services(s) = {v \in Services(cluster) : Visible(run.ns, v)}
  BY CollectedServices
<1>4. ASSUME Available(s, "services"), NEW n \in ClusterServices, run.ns \in {"", n[1]}
      PROVE  n \in Names(s)
  <2>1. PICK w \in Services(cluster) : NameOf(w) = n
    BY DEF ClusterServices
  <2>2. w.ns = n[1]
    BY <2>1, NamespaceOfAName
  <2>3. w \in Services(s)
    BY <1>3, <1>4, <2>2 DEF Visible, Available
  <2> QED
    BY <2>1, <2>3 DEF Names
<1>5. \A o \in s.ingresses \union s.policies \union s.pdbs : Visible(run.ns, o)
  BY <1>1 DEF NamespacedLists
<1>6. Available(s, "gateways") => {g \in cluster.gateways : Visible(run.ns, g)} \subseteq s.gateways
  BY <1>1 DEF NamespacedLists, KeyOf, Available
<1>7. Available(s, "pods") => {p \in cluster.pods : Visible(run.ns, p)} \subseteq s.pods
  BY <1>1 DEF NamespacedLists, KeyOf, Available
<1> QED
  BY <1>0, <1>4, <1>5, <1>6, <1>7 DEF WholeView

\* The rule over Ingresses invents no absent Service or certificate, but for what the
\* narrowed view dropped.
LEMMA IngressAbsence ==
    ASSUME Sound(snapshot), run.mode # "select" => WholeView(snapshot),
           NEW f \in IngressFindings(snapshot)
    PROVE  (Invented(f) => BeyondTheNarrowedView(f)) /\ f.level \in Levels
<1>1. PICK i \in snapshot.ingresses :
         \/ \E b \in i.backends : /\ Available(snapshot, "services")
                                  /\ <<i.ns, b>> \notin Names(snapshot)
                                  /\ f = Finding("Issue", "MISSING_SERVICE", NameOf(i), b)
         \/ \E t \in i.tls : /\ Available(snapshot, "secrets")
                             /\ Found(snapshot, "secrets", <<i.ns, t>>) = {}
                             /\ f = Finding("Issue", "MISSING_TLS_SECRET", NameOf(i), t)
         \/ \E t : f = Finding("Issue", "INVALID_TLS_SECRET", NameOf(i), t)
         \/ /\ Available(snapshot, "ingressclasses") /\ i.class \notin snapshot.ingressclasses
            /\ f = Finding("Warning", "CLASS_NOT_FOUND", NameOf(i), i.class)
         \/ f = Finding("Candidate", "LOAD_BALANCER_PENDING", NameOf(i), "")
  <2> DEFINE services == {NameOf(v) : v \in Services(snapshot)}
             of(i) ==
                {Finding("Issue", "MISSING_SERVICE", NameOf(i), b) :
                    b \in {c \in i.backends : /\ AvailableOrUntracked(snapshot, "services")
                                              /\ <<i.ns, c>> \notin services}}
                \union
                {Finding("Issue", "MISSING_TLS_SECRET", NameOf(i), t) :
                    t \in {u \in i.tls : /\ AvailableOrUntracked(snapshot, "secrets")
                                         /\ Found(snapshot, "secrets", <<i.ns, u>>) = {}}}
                \union
                {Finding("Issue", "INVALID_TLS_SECRET", NameOf(i), t) :
                    t \in {u \in i.tls : /\ AvailableOrUntracked(snapshot, "secrets")
                                         /\ \E x \in Found(snapshot, "secrets", <<i.ns, u>>) :
                                                ~({"tls.crt", "tls.key"} \subseteq x.keys)}}
                \union
                When(/\ AvailableOrUntracked(snapshot, "ingressclasses")
                     /\ i.class # "" /\ i.class \notin snapshot.ingressclasses,
                     Finding("Warning", "CLASS_NOT_FOUND", NameOf(i), i.class))
                \union
                When(i.pendingAddress, Finding("Candidate", "LOAD_BALANCER_PENDING", NameOf(i), ""))
  <2>1. f \in UNION {of(i) : i \in snapshot.ingresses}
    BY DEF IngressFindings
  <2>2. PICK i \in snapshot.ingresses : f \in of(i)
    BY <2>1
  <2> QED
    BY <2>2 DEF When, Names, Available, AvailableOrUntracked
<1>2. CASE \/ \E t : f = Finding("Issue", "INVALID_TLS_SECRET", NameOf(i), t)
           \/ f = Finding("Candidate", "LOAD_BALANCER_PENDING", NameOf(i), "")
  BY <1>2, NoAbsenceFinding, NoAbsenceIsInvented, LevelsAndCodes
<1>3. ASSUME NEW b \in i.backends, Available(snapshot, "services"), <<i.ns, b>> \notin Names(snapshot),
             f = Finding("Issue", "MISSING_SERVICE", NameOf(i), b)
      PROVE  (Invented(f) => BeyondTheNarrowedView(f)) /\ f.level \in Levels
  <2>1. f.code = "MISSING_SERVICE" /\ f.level = "Issue" /\ f.object = NameOf(i) /\ f.detail = b
    BY <1>3 DEF Finding
  <2>2. f.object[1] = i.ns
    BY <2>1, NamespaceOfAName
  <2>3. CASE run.mode = "select"
    BY <2>1, <2>3 DEF BeyondTheNarrowedView, Levels
  <2>4. CASE run.mode # "select"
    <3>1. Visible(run.ns, i)
      BY <2>4 DEF WholeView
    <3>2. <<i.ns, b>>[1] = i.ns
      OBVIOUS
    <3>3. <<i.ns, b>> \notin ClusterServices
      BY <1>3, <2>4, <3>1, <3>2 DEF WholeView, Visible
    <3> QED
      BY <2>1, <2>2, <3>3, InventedOthers DEF Levels
  <2> QED
    BY <2>3, <2>4
<1>4. ASSUME NEW t \in i.tls, Available(snapshot, "secrets"), Found(snapshot, "secrets", <<i.ns, t>>) = {},
             f = Finding("Issue", "MISSING_TLS_SECRET", NameOf(i), t)
      PROVE  (Invented(f) => BeyondTheNarrowedView(f)) /\ f.level \in Levels
  <2>1. f.code = "MISSING_TLS_SECRET" /\ f.level = "Issue" /\ f.object = NameOf(i) /\ f.detail = t
    BY <1>4 DEF Finding
  <2>2. f.object[1] = i.ns
    BY <2>1, NamespaceOfAName
  <2>3. ~ \E o \in snapshot.secrets : NameOf(o) = <<i.ns, t>>
    BY <1>4, FoundIs DEF Sound, OfTheCluster, IndexedLists
  <2>4. ASSUME Invented(f)
        PROVE  run.mode = "select" /\ i.ns # run.pod[1]
    <3>1. PICK o \in cluster.secrets : NameOf(o) = <<i.ns, t>>
      BY <2>1, <2>2, <2>4, InventedOthers
    <3> QED
      BY <1>4, <2>3, <3>1 DEF Sound, CertificatesKept
  <2> QED
    BY <2>1, <2>2, <2>4 DEF BeyondTheNarrowedView, Levels
<1>5. ASSUME Available(snapshot, "ingressclasses"), i.class \notin snapshot.ingressclasses,
             f = Finding("Warning", "CLASS_NOT_FOUND", NameOf(i), i.class)
      PROVE  ~Invented(f) /\ f.level \in Levels
  <2>1. f.code = "CLASS_NOT_FOUND" /\ f.level = "Warning" /\ f.detail = i.class
    BY <1>5 DEF Finding
  <2>2. f.detail \notin cluster.ingressclasses
    BY <1>5, <2>1 DEF Sound, OfTheCluster
  <2> QED
    BY <2>1, <2>2, InventedOthers DEF Levels
<1> QED
  BY <1>1, <1>2, <1>3, <1>4, <1>5

\* The rule over claims invents no absent StorageClass.
LEMMA StorageAbsence ==
    ASSUME Sound(snapshot), cluster \in Clusters, NEW f \in StorageFindings(snapshot)
    PROVE  ~Invented(f) /\ f.level \in Levels
<1>1. PICK claim \in snapshot.pvcs : f \in ClaimFinding(snapshot, claim)
  BY DEF StorageFindings
<1>2. \/ f = Finding("Warning", "RESIZE_PENDING", NameOf(claim), "")
      \/ f = Finding("Issue", "LOST", NameOf(claim), "")
      \/ f = Finding("Warning", "NOT_BOUND", NameOf(claim), "")
      \/ /\ f = Finding("Issue", "STORAGE_CLASS_NOT_FOUND", NameOf(claim), "")
         /\ Available(snapshot, "storageclasses")
         /\ ~ \E c \in snapshot.storageclasses : c.name = claim.class
  BY <1>1 DEF ClaimFinding, When, Available, AvailableOrUntracked
<1>3. CASE \/ f = Finding("Warning", "RESIZE_PENDING", NameOf(claim), "")
           \/ f = Finding("Issue", "LOST", NameOf(claim), "")
           \/ f = Finding("Warning", "NOT_BOUND", NameOf(claim), "")
  BY <1>3, NoAbsenceFinding, NoAbsenceIsInvented, LevelsAndCodes
<1>4. CASE /\ f = Finding("Issue", "STORAGE_CLASS_NOT_FOUND", NameOf(claim), "")
           /\ Available(snapshot, "storageclasses")
           /\ ~ \E c \in snapshot.storageclasses : c.name = claim.class
  <2>1. f.code = "STORAGE_CLASS_NOT_FOUND" /\ f.level = "Issue" /\ f.object = NameOf(claim)
    BY <1>4 DEF Finding
  <2>2. claim \in cluster.pvcs /\ OneOfEachName(cluster.pvcs)
    BY ClustersAssumption DEF Sound, OfTheCluster
  <2>3. ASSUME NEW c \in cluster.pvcs, NEW d \in cluster.storageclasses,
               NameOf(c) = NameOf(claim), d.name = c.class
        PROVE  FALSE
    <3>1. c = claim
      BY <2>2, <2>3 DEF OneOfEachName
    <3>2. d \in snapshot.storageclasses
      BY <1>4 DEF Sound, OfTheCluster
    <3> QED
      BY <1>4, <2>3, <3>1, <3>2
  <2> QED
    BY <2>1, <2>3, InventedOthers DEF Levels
<1> QED
  BY <1>2, <1>3, <1>4

\* The rule over volumes says nothing of another object's existence.
LEMMA VolumeAbsence ==
    ASSUME NEW f \in VolumeFindings(snapshot)
    PROVE  ~Invented(f) /\ f.level \in Levels
<1>1. PICK v \in snapshot.pvs :
         /\ v.phase \in {"Failed", "Released", "Pending"}
         /\ f = Finding(CASE v.phase = "Failed" -> "Issue"
                          [] v.phase = "Released" -> "Warning"
                          [] v.phase = "Pending" -> "Candidate",
                        "PV_NOT_USABLE", <<"", v.name>>, v.phase)
  BY DEF VolumeFindings
<1>2. (CASE v.phase = "Failed" -> "Issue"
         [] v.phase = "Released" -> "Warning"
         [] v.phase = "Pending" -> "Candidate") \in Levels
  BY <1>1 DEF Levels
<1> QED
  BY <1>1, <1>2, NoAbsenceFinding, NoAbsenceIsInvented, LevelsAndCodes

\* The rule over NetworkPolicies invents no empty selection, and no empty peer in a
\* whole view.
LEMMA PolicyAbsence ==
    ASSUME Sound(snapshot), cluster \in Clusters, run.mode # "select" => WholeView(snapshot), Available(snapshot, "pods"),
           NEW f \in PolicyFindings(snapshot)
    PROVE  (Invented(f) => BeyondTheNarrowedView(f)) /\ f.level \in Levels
<1>1. PICK p \in snapshot.policies :
         \/ f = Finding("Unavailable", "SELECTOR_UNAVAILABLE", NameOf(p), "")
         \/ /\ p.selector # "invalid" /\ Matching(snapshot.pods, p.ns, p.labels) = {}
            /\ f = Finding("Candidate", "POLICY_NO_MATCH", NameOf(p), "")
         \/ \E peer \in p.peers : /\ Matching(snapshot.pods, p.ns, peer) = {}
                                  /\ f = Finding("Candidate", "PEER_NO_MATCH", NameOf(p), peer)
  <2> DEFINE of(p) ==
                IF p.selector = "invalid"
                THEN {Finding("Unavailable", "SELECTOR_UNAVAILABLE", NameOf(p), "")}
                ELSE IF Matching(snapshot.pods, p.ns, p.labels) = {}
                THEN When(p.old, Finding("Candidate", "POLICY_NO_MATCH", NameOf(p), ""))
                ELSE {Finding("Candidate", "PEER_NO_MATCH", NameOf(p), peer) :
                         peer \in {q \in p.peers : Matching(snapshot.pods, p.ns, q) = {}}}
  <2>1. f \in UNION {of(p) : p \in snapshot.policies}
    BY DEF PolicyFindings
  <2>2. PICK p \in snapshot.policies : f \in of(p)
    BY <2>1
  <2> QED
    BY <2>2 DEF When
<1>2. CASE f = Finding("Unavailable", "SELECTOR_UNAVAILABLE", NameOf(p), "")
  BY <1>2, NoAbsenceFinding, NoAbsenceIsInvented, LevelsAndCodes
<1>4. ASSUME p.selector # "invalid", Matching(snapshot.pods, p.ns, p.labels) = {},
             f = Finding("Candidate", "POLICY_NO_MATCH", NameOf(p), "")
      PROVE  ~Invented(f) /\ f.level \in Levels
  <2>1. f.code = "POLICY_NO_MATCH" /\ f.level = "Candidate" /\ f.object = NameOf(p)
    BY <1>4 DEF Finding
  <2>2. Matching(cluster.pods, p.ns, p.labels) = {}
    BY <1>4 DEF Sound, PoliciesKept
  <2>3. p \in cluster.policies /\ OneOfEachName(cluster.policies)
    BY ClustersAssumption DEF Sound, OfTheCluster
  <2>4. \A q \in cluster.policies : NameOf(q) = NameOf(p) => q = p
    BY <2>3 DEF OneOfEachName
  <2> QED
    BY <2>1, <2>2, <2>4, InventedOthers DEF Levels
<1>3. ASSUME NEW peer \in p.peers, Matching(snapshot.pods, p.ns, peer) = {},
             f = Finding("Candidate", "PEER_NO_MATCH", NameOf(p), peer)
      PROVE  (Invented(f) => BeyondTheNarrowedView(f)) /\ f.level \in Levels
  <2>1. f.code = "PEER_NO_MATCH" /\ f.level = "Candidate" /\ f.object = NameOf(p) /\ f.detail = peer
    BY <1>3 DEF Finding
  <2>2. f.object[1] = p.ns
    BY <2>1, NamespaceOfAName
  <2>3. CASE run.mode = "select"
    BY <2>1, <2>3 DEF BeyondTheNarrowedView, Levels
  <2>4. CASE run.mode # "select"
    <3>1. Visible(run.ns, p)
      BY <2>4 DEF WholeView
    <3>2. Matching(cluster.pods, p.ns, peer) = {}
      BY <1>3, <2>4, <3>1 DEF WholeView, Visible, Matching
    <3> QED
      BY <2>1, <2>2, <3>2, InventedOthers DEF Levels
  <2> QED
    BY <2>3, <2>4
<1> QED
  BY <1>1, <1>2, <1>3, <1>4

\* The rule over ConfigMaps says nothing of another object's existence.
LEMMA ConfigMapAbsence ==
    ASSUME NEW f \in ConfigMapFindings(snapshot)
    PROVE  ~Invented(f) /\ f.level \in Levels
<1>1. CASE f \in {Finding("Warning", "SIZE_NEAR_LIMIT", NameOf(c), "") : c \in {d \in snapshot.configmaps : d.full}}
  <2>1. PICK o : f = Finding("Warning", "SIZE_NEAR_LIMIT", o, "")
    BY <1>1
  <2> QED
    BY <2>1, NoAbsenceFinding, NoAbsenceIsInvented, LevelsAndCodes
<1>2. ASSUME NEW p \in snapshot.pods, f \in ShadowFindings(snapshot, p)
      PROVE  ~Invented(f) /\ f.level \in Levels
  <2>1. PICK o, d : f = Finding("Candidate", "ENV_KEY_SHADOWED", o, d)
    BY <1>2 DEF ShadowFindings
  <2> QED
    BY <2>1, NoAbsenceFinding, NoAbsenceIsInvented, LevelsAndCodes
<1>3. ASSUME NEW p \in snapshot.pods, f \in SubPathFindings(snapshot, p)
      PROVE  ~Invented(f) /\ f.level \in Levels
  <2>1. PICK o, d : f = Finding("Candidate", "SUBPATH_NOT_UPDATED", o, d)
    BY <1>3 DEF SubPathFindings
  <2> QED
    BY <2>1, NoAbsenceFinding, NoAbsenceIsInvented, LevelsAndCodes
<1> QED
  BY <1>1, <1>2, <1>3 DEF ConfigMapFindings

\* The rule over webhooks invents no absent Service.
LEMMA WebhookAbsence ==
    ASSUME WholeView(snapshot), Available(snapshot, "services"),
           NEW f \in WebhookFindings(snapshot, run.ns)
    PROVE  ~Invented(f) /\ f.level \in Levels
<1>1. PICK w \in snapshot.webhooks :
         \/ f = Finding("Unavailable", "SERVICE_UNVERIFIABLE", <<"", w.name>>, w.service)
         \/ /\ w.service \notin Names(snapshot) /\ run.ns \in {"", w.service[1]}
            /\ f = Finding(IF w.ignores THEN "Warning" ELSE "Issue", "WEBHOOK_MISSING_SERVICE",
                           <<"", w.name>>, w.service)
  BY DEF WebhookFindings, Names
<1>2. CASE f = Finding("Unavailable", "SERVICE_UNVERIFIABLE", <<"", w.name>>, w.service)
  BY <1>2, NoAbsenceFinding, NoAbsenceIsInvented, LevelsAndCodes
<1>3. CASE /\ w.service \notin Names(snapshot) /\ run.ns \in {"", w.service[1]}
           /\ f = Finding(IF w.ignores THEN "Warning" ELSE "Issue", "WEBHOOK_MISSING_SERVICE",
                          <<"", w.name>>, w.service)
  <2>1. f.code = "WEBHOOK_MISSING_SERVICE" /\ f.level \in Levels /\ f.detail = w.service
    BY <1>3 DEF Finding, Levels
  <2>2. w.service \notin ClusterServices
    BY <1>3 DEF WholeView
  <2> QED
    BY <2>1, <2>2, InventedService DEF ServiceCodes
<1> QED
  BY <1>1, <1>2, <1>3

\* The rule over budgets invents no budget that protects nothing.
LEMMA BudgetAbsence ==
    ASSUME Sound(snapshot), cluster \in Clusters, WholeView(snapshot),
           NEW f \in BudgetFindings(snapshot)
    PROVE  ~Invented(f) /\ f.level \in Levels
<1>1. PICK b \in snapshot.pdbs :
         \/ /\ Available(snapshot, "pods") /\ Matching(snapshot.pods, b.ns, b.labels) = {}
            /\ f = Finding("Warning", "PDB_NO_MATCH", NameOf(b), "")
         \/ f = Finding("Warning", "HEALTH_BELOW_DESIRED", NameOf(b), "")
         \/ f = Finding("Candidate", "NO_DISRUPTIONS_ALLOWED", NameOf(b), "")
  BY DEF BudgetFindings, When, Available, AvailableOrUntracked
<1>2. CASE \/ f = Finding("Warning", "HEALTH_BELOW_DESIRED", NameOf(b), "")
           \/ f = Finding("Candidate", "NO_DISRUPTIONS_ALLOWED", NameOf(b), "")
  BY <1>2, NoAbsenceFinding, NoAbsenceIsInvented, LevelsAndCodes
<1>3. ASSUME Available(snapshot, "pods"), Matching(snapshot.pods, b.ns, b.labels) = {},
             f = Finding("Warning", "PDB_NO_MATCH", NameOf(b), "")
      PROVE  ~Invented(f) /\ f.level \in Levels
  <2>1. f.code = "PDB_NO_MATCH" /\ f.level = "Warning" /\ f.object = NameOf(b)
    BY <1>3 DEF Finding
  <2>2. Visible(run.ns, b)
    BY DEF WholeView
  <2>3. Matching(cluster.pods, b.ns, b.labels) = {}
    BY <1>3, <2>2 DEF WholeView, Visible, Matching
  <2>4. b \in cluster.pdbs /\ OneOfEachName(cluster.pdbs)
    BY ClustersAssumption DEF Sound, OfTheCluster
  <2>5. \A c \in cluster.pdbs : NameOf(c) = NameOf(b) => c = b
    BY <2>4 DEF OneOfEachName
  <2> QED
    BY <2>1, <2>3, <2>5, InventedOthers DEF Levels
<1> QED
  BY <1>1, <1>2, <1>3

\* The rule over Gateways and Routes invents no absent class, parent or backend.
LEMMA GatewayAbsence ==
    ASSUME Sound(snapshot), WholeView(snapshot), Available(snapshot, "gateways"), NEW f \in GatewayFindings(snapshot)
    PROVE  ~Invented(f) /\ f.level \in Levels
<1>1. \/ f \in ClassFindings(snapshot) \/ f \in ConditionFindings(snapshot)
      \/ \E route \in snapshot.routes :
            \/ f \in ParentFindings(snapshot, route)
            \/ f \in BackendFindings(snapshot, route) /\ Available(snapshot, "services")
            \/ f \in PathFindings(snapshot, route)
  BY DEF GatewayFindings, Available, AvailableOrUntracked
<1>2. CASE f \in ConditionFindings(snapshot)
  <2>1. \E o : \E c \in {"GATEWAY_CONDITION", "ROUTE_CONDITION"} : f = Finding("Warning", c, o, "")
    BY <1>2 DEF ConditionFindings
  <2> QED
    BY <2>1, NoAbsenceFinding, NoAbsenceIsInvented, LevelsAndCodes
<1>6. CASE f \in ClassFindings(snapshot)
  <2>1. PICK g : /\ Available(snapshot, "gatewayclasses") /\ g.class \notin snapshot.gatewayclasses
                 /\ f = Finding("Issue", "GATEWAY_CLASS_NOT_FOUND", NameOf(g), g.class)
    BY <1>6 DEF ClassFindings, Available, AvailableOrUntracked
  <2>2. f.code = "GATEWAY_CLASS_NOT_FOUND" /\ f.level = "Issue" /\ f.detail = g.class
    BY <2>1 DEF Finding
  <2>3. f.detail \notin cluster.gatewayclasses
    BY <2>1, <2>2 DEF Sound, OfTheCluster
  <2> QED
    BY <2>2, <2>3, InventedOthers DEF Levels
<1>3. ASSUME NEW route \in snapshot.routes, f \in PathFindings(snapshot, route)
      PROVE  ~Invented(f) /\ f.level \in Levels
  <2>1. \E o, d : f = Finding("Candidate", "PATH_BACKEND_MISMATCH", o, d)
    BY <1>3 DEF PathFindings
  <2> QED
    BY <2>1, NoAbsenceFinding, NoAbsenceIsInvented, LevelsAndCodes
<1>4. ASSUME NEW route \in snapshot.routes, f \in ParentFindings(snapshot, route)
      PROVE  ~Invented(f) /\ f.level \in Levels
  <2>1. \/ \E d : f = Finding("Warning", "HOSTNAME_MISMATCH", NameOf(route), d)
        \/ \E q \in route.parents :
              /\ {g \in snapshot.gateways : NameOf(g) = q.gateway} = {}
              /\ InScope(snapshot, q.gateway[1])
              /\ f = Finding("Issue", "PARENT_NOT_FOUND", NameOf(route), q.gateway)
    BY <1>4 DEF ParentFindings
  <2>2. CASE \E d : f = Finding("Warning", "HOSTNAME_MISMATCH", NameOf(route), d)
    BY <2>2, NoAbsenceFinding, NoAbsenceIsInvented, LevelsAndCodes
  <2>3. ASSUME NEW q \in route.parents,
               {g \in snapshot.gateways : NameOf(g) = q.gateway} = {},
               InScope(snapshot, q.gateway[1]),
               f = Finding("Issue", "PARENT_NOT_FOUND", NameOf(route), q.gateway)
        PROVE  ~Invented(f) /\ f.level \in Levels
    <3>1. f.code = "PARENT_NOT_FOUND" /\ f.level = "Issue" /\ f.detail = q.gateway
      BY <2>3 DEF Finding
    <3>2. ASSUME NEW g \in cluster.gateways, NameOf(g) = q.gateway
          PROVE  FALSE
      <4>1. g.ns = q.gateway[1]
        BY <3>2, NamespaceOfAName
      <4>2. Visible(run.ns, g)
        BY <2>3, <4>1 DEF InScope, WholeView, Visible
      <4> QED
        BY <2>3, <3>2, <4>2 DEF WholeView
    <3> QED
      BY <3>1, <3>2, InventedOthers DEF Levels
  <2> QED
    BY <2>1, <2>2, <2>3
<1>5. ASSUME NEW route \in snapshot.routes, f \in BackendFindings(snapshot, route),
             Available(snapshot, "services")
      PROVE  ~Invented(f) /\ f.level \in Levels
  <2>1. PICK b : /\ b \notin Names(snapshot) /\ InScope(snapshot, b[1])
                 /\ f = Finding("Issue", "BACKEND_NOT_FOUND", NameOf(route), b)
    BY <1>5 DEF BackendFindings, Names
  <2>2. f.code = "BACKEND_NOT_FOUND" /\ f.level = "Issue" /\ f.detail = b
    BY <2>1 DEF Finding
  <2>3. b \notin ClusterServices
    BY <1>5, <2>1 DEF WholeView, InScope
  <2> QED
    BY <2>2, <2>3, InventedService DEF ServiceCodes, Levels
<1> QED
  BY <1>1, <1>2, <1>3, <1>4, <1>5, <1>6

-----------------------------------------------------------------------------
(* The registry                                                             *)

Ids ==
    {"dependencies", "runtime-dependencies", "priority-class-dependencies",
     "runtime-class-dependencies", "services", "ingress", "gateway-api", "storage",
     "persistent-volumes", "network-policies", "webhooks", "pdb", "configmaps"}

\* There are thirteen rules.
LEMMA RulesAre ==
    /\ Len(Rules) = 13 /\ DOMAIN Rules = 1..13
    /\ \A i \in 1..13 : Rules[i].id \in Ids
<1>1. Len(Rules) = 13 /\ DOMAIN Rules = 1..13
  BY DEF Rules
<1>2. Rules[1].id = "dependencies"
  BY DEF Rules, Metadata
<1>3. Rules[2].id = "runtime-dependencies"
  BY DEF Rules, Metadata
<1>4. Rules[3].id = "priority-class-dependencies"
  BY DEF Rules, Metadata
<1>5. Rules[4].id = "runtime-class-dependencies"
  BY DEF Rules, Metadata
<1>6. Rules[5].id = "services"
  BY DEF Rules, Metadata
<1>7. Rules[6].id = "ingress"
  BY DEF Rules, Metadata
<1>8. Rules[7].id = "gateway-api"
  BY DEF Rules, Metadata
<1>9. Rules[8].id = "storage"
  BY DEF Rules, Metadata
<1>10. Rules[9].id = "persistent-volumes"
  BY DEF Rules, Metadata
<1>11. Rules[10].id = "network-policies"
  BY DEF Rules, Metadata
<1>12. Rules[11].id = "webhooks"
  BY DEF Rules, Metadata
<1>13. Rules[12].id = "pdb"
  BY DEF Rules, Metadata
<1>14. Rules[13].id = "configmaps"
  BY DEF Rules, Metadata
<1> QED
  BY <1>1, <1>2, <1>3, <1>4, <1>5, <1>6, <1>7, <1>8, <1>9, <1>10, <1>11, <1>12, <1>13, <1>14 DEF Ids

\* What each rule requires; the three rules over whole lists do not run for a
\* selected Pod.
LEMMA RequiredInputs ==
    ASSUME NEW i \in 1..13
    PROVE  /\ \A s : \A k \in Rules[i].required : Unavailable(Rules[i], s) = {} => Available(s, k)
           /\ Rules[i].id = "dependencies" => {"pods", "configmaps", "secrets", "pvcs", "serviceaccounts"} \subseteq Rules[i].required
           /\ Rules[i].id = "runtime-dependencies" => {"pods", "services"} \subseteq Rules[i].required
           /\ Rules[i].id = "priority-class-dependencies" => {"pods", "priorityclasses"} \subseteq Rules[i].required
           /\ Rules[i].id = "runtime-class-dependencies" => {"pods", "runtimeclasses"} \subseteq Rules[i].required
           /\ Rules[i].id = "services" => {"services"} \subseteq Rules[i].required
           /\ Rules[i].id = "ingress" => {"ingresses"} \subseteq Rules[i].required
           /\ Rules[i].id = "gateway-api" => {"gateways", "routes"} \subseteq Rules[i].required
           /\ Rules[i].id = "storage" => {"pvcs"} \subseteq Rules[i].required
           /\ Rules[i].id = "persistent-volumes" => {"pvs"} \subseteq Rules[i].required
           /\ Rules[i].id = "network-policies" => {"policies", "pods"} \subseteq Rules[i].required
           /\ Rules[i].id = "webhooks" => {"webhooks", "services"} \subseteq Rules[i].required
           /\ Rules[i].id = "pdb" => {"pdbs"} \subseteq Rules[i].required
           /\ Rules[i].id = "configmaps" => {"configmaps"} \subseteq Rules[i].required
           /\ Rules[i].id \in {"gateway-api", "webhooks", "pdb"} => Rules[i].modes = WholeCluster
<1>1. \A s : \A k \in Rules[i].required : Unavailable(Rules[i], s) = {} => Available(s, k)
  BY DEF Unavailable
<1>3. CASE i = 1
  <2>1. /\ Rules[i].id = "dependencies"
        /\ Rules[i].required = {"pods", "configmaps", "secrets", "pvcs", "serviceaccounts"}
        /\ Rules[i].modes = AllModes
    BY <1>3 DEF Rules, Metadata
  <2> QED
    BY <1>1, <2>1
<1>4. CASE i = 2
  <2>1. /\ Rules[i].id = "runtime-dependencies"
        /\ Rules[i].required = {"pods", "services"}
        /\ Rules[i].modes = AllModes
    BY <1>4 DEF Rules, Metadata
  <2> QED
    BY <1>1, <2>1
<1>5. CASE i = 3
  <2>1. /\ Rules[i].id = "priority-class-dependencies"
        /\ Rules[i].required = {"pods", "priorityclasses"}
        /\ Rules[i].modes = AllModes
    BY <1>5 DEF Rules, Metadata
  <2> QED
    BY <1>1, <2>1
<1>6. CASE i = 4
  <2>1. /\ Rules[i].id = "runtime-class-dependencies"
        /\ Rules[i].required = {"pods", "runtimeclasses"}
        /\ Rules[i].modes = AllModes
    BY <1>6 DEF Rules, Metadata
  <2> QED
    BY <1>1, <2>1
<1>7. CASE i = 5
  <2>1. /\ Rules[i].id = "services"
        /\ Rules[i].required = {"services"}
        /\ Rules[i].modes = AllModes
    BY <1>7 DEF Rules, Metadata
  <2> QED
    BY <1>1, <2>1
<1>8. CASE i = 6
  <2>1. /\ Rules[i].id = "ingress"
        /\ Rules[i].required = {"ingresses"}
        /\ Rules[i].modes = AllModes
    BY <1>8 DEF Rules, Metadata
  <2> QED
    BY <1>1, <2>1
<1>9. CASE i = 7
  <2>1. /\ Rules[i].id = "gateway-api"
        /\ Rules[i].required = {"gateways", "routes"}
        /\ Rules[i].modes = WholeCluster
    BY <1>9 DEF Rules, Metadata
  <2> QED
    BY <1>1, <2>1
<1>10. CASE i = 8
  <2>1. /\ Rules[i].id = "storage"
        /\ Rules[i].required = {"pvcs"}
        /\ Rules[i].modes = AllModes
    BY <1>10 DEF Rules, Metadata
  <2> QED
    BY <1>1, <2>1
<1>11. CASE i = 9
  <2>1. /\ Rules[i].id = "persistent-volumes"
        /\ Rules[i].required = {"pvs"}
        /\ Rules[i].modes = AllModes
    BY <1>11 DEF Rules, Metadata
  <2> QED
    BY <1>1, <2>1
<1>12. CASE i = 10
  <2>1. /\ Rules[i].id = "network-policies"
        /\ Rules[i].required = {"policies", "pods"}
        /\ Rules[i].modes = AllModes
    BY <1>12 DEF Rules, Metadata
  <2> QED
    BY <1>1, <2>1
<1>13. CASE i = 11
  <2>1. /\ Rules[i].id = "webhooks"
        /\ Rules[i].required = {"webhooks", "services"}
        /\ Rules[i].modes = WholeCluster
    BY <1>13 DEF Rules, Metadata
  <2> QED
    BY <1>1, <2>1
<1>14. CASE i = 12
  <2>1. /\ Rules[i].id = "pdb"
        /\ Rules[i].required = {"pdbs"}
        /\ Rules[i].modes = WholeCluster
    BY <1>14 DEF Rules, Metadata
  <2> QED
    BY <1>1, <2>1
<1>15. CASE i = 13
  <2>1. /\ Rules[i].id = "configmaps"
        /\ Rules[i].required = {"configmaps"}
        /\ Rules[i].modes = AllModes
    BY <1>15 DEF Rules, Metadata
  <2> QED
    BY <1>1, <2>1
<1> QED
  BY <1>3, <1>4, <1>5, <1>6, <1>7, <1>8, <1>9, <1>10, <1>11, <1>12, <1>13, <1>14, <1>15

\* Whatever rule runs, and it runs only on what was fetched, invents no absence but for
\* what the narrowed view cannot tell.
LEMMA EvaluateAbsence ==
    ASSUME cluster \in Clusters, Sound(snapshot), run.mode # "select" => WholeView(snapshot),
           NEW i \in 1..13, run.mode \in Rules[i].modes, Unavailable(Rules[i], snapshot) = {},
           NEW f \in Evaluate(Rules[i].id, snapshot)
    PROVE  (Invented(f) => BeyondTheNarrowedView(f)) /\ f.level \in Levels
<1> DEFINE id == Rules[i].id
<1>1. id \in Ids /\ f \in Evaluate(id, snapshot)
  BY RulesAre
<1>2. \A k \in Rules[i].required : Available(snapshot, k)
  BY RequiredInputs
<1>3. {"Issue", "Warning", "Candidate"} \subseteq Levels
  BY DEF Levels
<1>4. id \in {"gateway-api", "webhooks", "pdb"} => WholeView(snapshot)
  <2>1. ASSUME id \in {"gateway-api", "webhooks", "pdb"}
        PROVE  run.mode \in WholeCluster
    BY <2>1, RequiredInputs
  <2> QED
    BY <2>1 DEF WholeCluster
<1>5. CASE id = "dependencies"
  <2>1. \A k \in InNamespaceDependencies : Available(snapshot, ListOf(k))
    BY <1>2, <1>5, RequiredInputs, ListOfKinds DEF InNamespaceDependencies
  <2>2. f \in DependencyFindings(snapshot, InNamespaceDependencies)
    BY <1>1, <1>5 DEF Evaluate
  <2>3. InNamespaceDependencies \subseteq DependencyKinds
    BY DEF DependencyKinds
  <2> QED
    BY <1>3, <2>1, <2>2, <2>3, DependencyAbsence
<1>6. CASE id = "runtime-dependencies"
  <2>1. f \in RuntimeFindings(snapshot) /\ Available(snapshot, "services")
    BY <1>1, <1>2, <1>6, RequiredInputs DEF Evaluate
  <2> QED
    BY <2>1, RuntimeAbsence
<1>7. CASE id = "priority-class-dependencies"
  <2>1. \A k \in {"PriorityClass"} : Available(snapshot, ListOf(k))
    BY <1>2, <1>7, RequiredInputs, ListOfKinds
  <2>2. f \in DependencyFindings(snapshot, {"PriorityClass"})
    BY <1>1, <1>7 DEF Evaluate
  <2>3. {"PriorityClass"} \subseteq DependencyKinds
    BY DEF DependencyKinds
  <2> QED
    BY <1>3, <2>1, <2>2, <2>3, DependencyAbsence
<1>8. CASE id = "runtime-class-dependencies"
  <2>1. \A k \in {"RuntimeClass"} : Available(snapshot, ListOf(k))
    BY <1>2, <1>8, RequiredInputs, ListOfKinds
  <2>2. f \in DependencyFindings(snapshot, {"RuntimeClass"})
    BY <1>1, <1>8 DEF Evaluate
  <2>3. {"RuntimeClass"} \subseteq DependencyKinds
    BY DEF DependencyKinds
  <2> QED
    BY <1>3, <2>1, <2>2, <2>3, DependencyAbsence
<1>9. CASE id = "services"
  <2>1. f \in ServiceFindings(snapshot) /\ Available(snapshot, "services")
    BY <1>1, <1>2, <1>9, RequiredInputs DEF Evaluate
  <2> QED
    BY <2>1, ServiceAbsence
<1>10. CASE id = "ingress"
  <2>1. f \in IngressFindings(snapshot)
    BY <1>1, <1>10 DEF Evaluate
  <2> QED
    BY <2>1, IngressAbsence
<1>11. CASE id = "gateway-api"
  <2>1. f \in GatewayFindings(snapshot) /\ Available(snapshot, "gateways") /\ WholeView(snapshot)
    BY <1>1, <1>2, <1>4, <1>11, RequiredInputs DEF Evaluate
  <2> QED
    BY <2>1, GatewayAbsence
<1>12. CASE id = "storage"
  <2>1. f \in StorageFindings(snapshot)
    BY <1>1, <1>12 DEF Evaluate
  <2> QED
    BY <2>1, StorageAbsence
<1>13. CASE id = "persistent-volumes"
  <2>1. f \in VolumeFindings(snapshot)
    BY <1>1, <1>13 DEF Evaluate
  <2> QED
    BY <2>1, VolumeAbsence
<1>14. CASE id = "network-policies"
  <2>1. f \in PolicyFindings(snapshot) /\ Available(snapshot, "pods")
    BY <1>1, <1>2, <1>14, RequiredInputs DEF Evaluate
  <2> QED
    BY <2>1, PolicyAbsence
<1>15. CASE id = "webhooks"
  <2>1. f \in WebhookFindings(snapshot, run.ns) /\ Available(snapshot, "services") /\ WholeView(snapshot)
    BY <1>1, <1>2, <1>4, <1>15, RequiredInputs DEF Evaluate
  <2> QED
    BY <2>1, WebhookAbsence
<1>16. CASE id = "pdb"
  <2>1. f \in BudgetFindings(snapshot) /\ WholeView(snapshot)
    BY <1>1, <1>4, <1>16 DEF Evaluate
  <2> QED
    BY <2>1, BudgetAbsence
<1>17. CASE id = "configmaps"
  <2>1. f \in ConfigMapFindings(snapshot)
    BY <1>1, <1>17 DEF Evaluate
  <2> QED
    BY <2>1, ConfigMapAbsence
<1>18. id \in Ids
  BY <1>1
<1> HIDE DEF id
<1> QED
  BY <1>18, <1>5, <1>6, <1>7, <1>8, <1>9, <1>10, <1>11, <1>12, <1>13, <1>14, <1>15, <1>16, <1>17
     DEF Ids

-----------------------------------------------------------------------------

UnavailableFinding(rule) == Finding("Unavailable", "RULE_UNAVAILABLE", <<"", rule.id>>, "")

\* What Registry.Run reports for one rule.
Reported(rule, s) ==
    IF Unavailable(rule, s) = {} THEN PartialFindings(rule, s) \union Evaluate(rule.id, s)
    ELSE {UnavailableFinding(rule)}

\* The rules of the run among the first ones.
RulesBefore(n) == {i \in 1..13 : i < n /\ run.mode \in Rules[i].modes}

DiagnosisInv ==
    /\ cluster \in Clusters
    /\ phase \in {"collect", "narrow", "rules", "done", "refused"}
    /\ next \in 1..14
    /\ phase \in {"collect", "narrow", "refused"} => next = 1
    /\ phase = "narrow" => CollectedView(snapshot) /\ run.mode = "select"
    /\ phase \in {"rules", "done"} => View(snapshot)
    /\ phase = "done" => next = 14
    /\ findings = UNION {Reported(Rules[i], snapshot) : i \in RulesBefore(next)}
    /\ \A c \in checks : c.available \in BOOLEAN

\* The snapshot given to the rules is sound.
LEMMA ViewIsSound ==
    ASSUME cluster \in Clusters, NEW s, View(s)
    PROVE  Sound(s) /\ (run.mode # "select" => WholeView(s))
<1>1. CASE run.mode # "select"
  <2>1. PICK failed \in Failures, page \in FirstPages : s = Collected(cluster, run.ns, failed, page)
    BY <1>1 DEF View, CollectedView
  <2> QED
    BY <1>1, <2>1, CollectedIsSound, CollectedIsWhole
<1>2. CASE run.mode = "select"
  <2>1. PICK t : CollectedView(t) /\ Available(t, "pods")
                 /\ \E pod \in t.pods : NameOf(pod) = run.pod /\ s = Scope(t, pod)
    BY <1>2 DEF View, NarrowedView
  <2>2. PICK failed \in Failures, page \in FirstPages : t = Collected(cluster, run.ns, failed, page)
    BY <2>1 DEF CollectedView
  <2>3. PICK pod \in t.pods : NameOf(pod) = run.pod /\ s = Scope(t, pod)
    BY <2>1
  <2> QED
    BY <1>2, <2>1, <2>2, <2>3, NarrowedIsSound
<1> QED
  BY <1>1, <1>2

\* Every finding of a reachable state is of a level, and invents no absence but for what
\* the narrowed view cannot tell.
LEMMA ReportedAbsence ==
    ASSUME DiagnosisInv, NEW f \in findings
    PROVE  (Invented(f) => BeyondTheNarrowedView(f)) /\ f.level \in Levels
<1>1. PICK i \in RulesBefore(next) : f \in Reported(Rules[i], snapshot)
  BY DEF DiagnosisInv
<1>2. i \in 1..13 /\ run.mode \in Rules[i].modes /\ 1 < next
  BY <1>1 DEF RulesBefore, DiagnosisInv
<1>3. View(snapshot) /\ cluster \in Clusters
  BY <1>2 DEF DiagnosisInv
<1>4. CASE f = UnavailableFinding(Rules[i])
  BY <1>4, NoAbsenceFinding, NoAbsenceIsInvented, LevelsAndCodes DEF UnavailableFinding
<1>5. CASE f \in PartialFindings(Rules[i], snapshot)
  <2>1. \E o, d : f = Finding("Unavailable", "PARTIAL_UNAVAILABLE", o, d)
    BY <1>5 DEF PartialFindings
  <2> QED
    BY <2>1, NoAbsenceFinding, NoAbsenceIsInvented, LevelsAndCodes
<1>6. CASE f \in Evaluate(Rules[i].id, snapshot) /\ Unavailable(Rules[i], snapshot) = {}
  <2>1. Sound(snapshot) /\ (run.mode # "select" => WholeView(snapshot))
    BY <1>3, ViewIsSound
  <2> QED
    BY <1>2, <1>3, <1>6, <2>1, EvaluateAbsence
<1> QED
  BY <1>1, <1>4, <1>5, <1>6 DEF Reported

-----------------------------------------------------------------------------
(* The state machine                                                        *)

\* The rules that have run, one position further.
LEMMA NoRulesBefore ==
    /\ RulesBefore(1) = {}
    /\ \A n \in 1..13 : RulesBefore(n + 1) =
          RulesBefore(n) \union (IF run.mode \in Rules[n].modes THEN {n} ELSE {})
BY DEF RulesBefore

\* Only the run and the snapshot decide what the rules report.
LEMMA ReportedUnchanged ==
    ASSUME UNCHANGED <<run, snapshot>>
    PROVE  /\ \A i \in 1..13 : Reported(Rules[i], snapshot)' = Reported(Rules[i], snapshot)
           /\ \A n : RulesBefore(n)' = RulesBefore(n)
<1>1. \A n : RulesBefore(n)' = RulesBefore(n)
  BY DEF RulesBefore
<1>2. ASSUME NEW i \in 1..13
      PROVE  Reported(Rules[i], snapshot)' = Reported(Rules[i], snapshot)
  <2>1. Evaluate(Rules[i].id, snapshot)' = Evaluate(Rules[i].id, snapshot)
    BY DEF Evaluate
  <2> QED
    BY <2>1 DEF Reported
<1> QED
  BY <1>1, <1>2

\* A view stays one as long as the cluster, the run and the snapshot do.
LEMMA ViewUnchanged ==
    ASSUME UNCHANGED <<cluster, run, snapshot>>
    PROVE  CollectedView(snapshot)' = CollectedView(snapshot) /\ View(snapshot)' = View(snapshot)
<1>1. \A s : CollectedView(s)' = CollectedView(s)
  BY DEF CollectedView
<1> QED
  BY <1>1 DEF View, NarrowedView

\* The invariant holds at the start.
LEMMA DiagnosisInit == Init => DiagnosisInv
<1> SUFFICES ASSUME Init
             PROVE  DiagnosisInv
  OBVIOUS
<1>1. next = 1 /\ RulesBefore(next) = {}
  BY NoRulesBefore DEF Init
<1>2. findings = UNION {Reported(Rules[i], snapshot) : i \in RulesBefore(next)}
  BY <1>1 DEF Init
<1> QED
  BY <1>1, <1>2 DEF Init, DiagnosisInv

\* Every step of a diagnosis keeps the invariant.
LEMMA DiagnosisNext == DiagnosisInv /\ [Next]_vars => DiagnosisInv'
<1> SUFFICES ASSUME DiagnosisInv, [Next]_vars
             PROVE  DiagnosisInv'
  OBVIOUS
<1>1. CASE Collect
  <2>1. next = 1 /\ findings = {} /\ next' = 1 /\ findings' = {} /\ cluster' = cluster /\ run' = run
    BY <1>1, NoRulesBefore DEF Collect, DiagnosisInv
  <2>2. RulesBefore(next)' = {}
    BY <2>1 DEF RulesBefore
  <2>3. findings' = UNION {Reported(Rules[i], snapshot)' : i \in RulesBefore(next)'}
    BY <2>1, <2>2
  <2>4. CollectedView(snapshot)'
    BY <1>1, <2>1 DEF Collect, CollectedView
  <2>5. (phase' = "narrow" /\ run.mode = "select") \/ (phase' = "rules" /\ run.mode # "select")
    BY <1>1 DEF Collect
  <2>6. phase' = "narrow" => CollectedView(snapshot)' /\ (run.mode = "select")'
    BY <2>1, <2>4, <2>5
  <2>7. phase' \in {"rules", "done"} => View(snapshot)'
    BY <2>1, <2>4, <2>5 DEF View
  <2> QED
    BY <1>1, <2>1, <2>3, <2>5, <2>6, <2>7 DEF Collect, DiagnosisInv
<1>2. CASE Narrow
  <2>1. next = 1 /\ findings = {} /\ next' = 1 /\ findings' = {} /\ cluster' = cluster /\ run' = run
    BY <1>2, NoRulesBefore DEF Narrow, DiagnosisInv
  <2>2. RulesBefore(next)' = {}
    BY <2>1 DEF RulesBefore
  <2>3. findings' = UNION {Reported(Rules[i], snapshot)' : i \in RulesBefore(next)'}
    BY <2>1, <2>2
  <2>4. PICK pod \in snapshot.pods : NameOf(pod) = run.pod /\ snapshot' = Scope(snapshot, pod)
    BY <1>2 DEF Narrow, ChosenPods
  <2>5. CollectedView(snapshot) /\ Available(snapshot, "pods") /\ run.mode = "select"
    BY <1>2 DEF Narrow, DiagnosisInv
  <2>6. View(snapshot)'
    <3>1. NarrowedView(snapshot)'
      <4>1. \A s : CollectedView(s)' = CollectedView(s)
        BY <2>1 DEF CollectedView
      <4> QED
        BY <2>1, <2>4, <2>5, <4>1 DEF NarrowedView
    <3> QED
      BY <2>1, <2>5, <3>1 DEF View
  <2> QED
    BY <1>2, <2>1, <2>3, <2>6 DEF Narrow, DiagnosisInv
<1>3. CASE Refuse
  <2>1. UNCHANGED <<cluster, run, snapshot, next, checks, findings>> /\ phase' = "refused" /\ phase = "narrow"
    BY <1>3 DEF Refuse
  <2>2. /\ \A i \in 1..13 : Reported(Rules[i], snapshot)' = Reported(Rules[i], snapshot)
        /\ RulesBefore(next)' = RulesBefore(next)
    BY <2>1, ReportedUnchanged DEF RulesBefore
  <2>3. findings' = UNION {Reported(Rules[i], snapshot)' : i \in RulesBefore(next)'}
    BY <2>1, <2>2 DEF DiagnosisInv, RulesBefore
  <2> QED
    BY <2>1, <2>3 DEF DiagnosisInv
<1>4. ASSUME phase = "rules", next \in 1..13, next' = next + 1,
             UNCHANGED <<cluster, run, phase, snapshot>>,
             findings' = findings \union (IF run.mode \in Rules[next].modes
                                          THEN Reported(Rules[next], snapshot) ELSE {}),
             \A c \in checks' : c.available \in BOOLEAN
      PROVE  DiagnosisInv'
  <2>1. \A i \in 1..13 : Reported(Rules[i], snapshot)' = Reported(Rules[i], snapshot)
    BY <1>4, ReportedUnchanged
  <2>2. RulesBefore(next)' = RulesBefore(next) \union (IF run.mode \in Rules[next].modes THEN {next} ELSE {})
    <3>1. RulesBefore(next)' = RulesBefore(next + 1)
      BY <1>4 DEF RulesBefore
    <3> QED
      BY <1>4, <3>1, NoRulesBefore
  <2>3. RulesBefore(next) \subseteq 1..13
    BY DEF RulesBefore
  <2>4. findings' = UNION {Reported(Rules[i], snapshot)' : i \in RulesBefore(next)'}
    BY <1>4, <2>1, <2>2, <2>3 DEF DiagnosisInv
  <2>5. View(snapshot)'
    BY <1>4, ViewUnchanged DEF DiagnosisInv
  <2> QED
    BY <1>4, <2>4, <2>5 DEF DiagnosisInv
<1>5. CASE RunRule
  <2>1. /\ phase = "rules" /\ next \in 1..13 /\ next' = next + 1
        /\ UNCHANGED <<cluster, run, phase, snapshot>>
        /\ run.mode \in Rules[next].modes
    <3>1. /\ phase = "rules" /\ next <= Len(Rules) /\ next' = next + 1
          /\ run.mode \in Rule.modes
      BY <1>5 DEF RunRule
    <3>2. UNCHANGED <<cluster, run, phase, snapshot>>
      BY <1>5 DEF RunRule
    <3>3. next \in 1..14 /\ Len(Rules) = 13
      BY RulesAre DEF DiagnosisInv
    <3>4. next \in 1..13
      BY <3>1, <3>3
    <3>5. run.mode \in Rules[next].modes
      BY <3>1 DEF Rule
    <3> QED
      BY <3>1, <3>2, <3>4, <3>5
  <2>2. findings' = findings \union Reported(Rules[next], snapshot)
    BY <1>5 DEF RunRule, Rule, Reported
  <2>3. \A c \in checks' : c.available \in BOOLEAN
    <3>1. checks' = checks \union {[id |-> <<Rule.id, "">>, available |-> TRUE]}
                          \union OptionalChecks(Rule, snapshot)
      BY <1>5 DEF RunRule
    <3>2. \A c \in OptionalChecks(Rule, snapshot) : c.available \in BOOLEAN
      <4> SUFFICES ASSUME NEW c \in OptionalChecks(Rule, snapshot)
                   PROVE  c.available \in BOOLEAN
        OBVIOUS
      <4>1. PICK key \in Rule.optional : c = [id |-> <<Rule.id, key>>, available |-> Available(snapshot, key)]
        BY DEF OptionalChecks
      <4>2. Available(snapshot, key) \in BOOLEAN
        BY DEF Available
      <4>3. c.available = Available(snapshot, key)
        BY <4>1
      <4> QED
        BY <4>2, <4>3
    <3>3. \A c \in checks : c.available \in BOOLEAN
      BY DEF DiagnosisInv
    <3> SUFFICES ASSUME NEW c \in checks'
                 PROVE  c.available \in BOOLEAN
      OBVIOUS
    <3>4. CASE c \in checks
      BY <3>3, <3>4
    <3>5. CASE c = [id |-> <<Rule.id, "">>, available |-> TRUE]
      BY <3>5
    <3>6. CASE c \in OptionalChecks(Rule, snapshot)
      BY <3>2, <3>6
    <3> QED
      BY <3>1, <3>4, <3>5, <3>6
  <2> QED
    BY <1>4, <2>1, <2>2, <2>3
<1>6. CASE ReportUnavailable
  <2>1. /\ phase = "rules" /\ next \in 1..13 /\ next' = next + 1
        /\ UNCHANGED <<cluster, run, phase, snapshot>>
        /\ run.mode \in Rules[next].modes
    <3>1. /\ phase = "rules" /\ next <= Len(Rules) /\ next' = next + 1
          /\ run.mode \in Rule.modes
      BY <1>6 DEF ReportUnavailable
    <3>2. UNCHANGED <<cluster, run, phase, snapshot>>
      BY <1>6 DEF ReportUnavailable
    <3>3. next \in 1..14 /\ Len(Rules) = 13
      BY RulesAre DEF DiagnosisInv
    <3>4. next \in 1..13
      BY <3>1, <3>3
    <3>5. run.mode \in Rules[next].modes
      BY <3>1 DEF Rule
    <3> QED
      BY <3>1, <3>2, <3>4, <3>5
  <2>2. findings' = findings \union Reported(Rules[next], snapshot)
    BY <1>6 DEF ReportUnavailable, Rule, Reported, UnavailableFinding
  <2>3. \A c \in checks' : c.available \in BOOLEAN
    <3>1. checks' = checks \union {[id |-> <<Rule.id, "">>, available |-> FALSE]}
      BY <1>6 DEF ReportUnavailable
    <3>2. \A c \in checks : c.available \in BOOLEAN
      BY DEF DiagnosisInv
    <3> SUFFICES ASSUME NEW c \in checks'
                 PROVE  c.available \in BOOLEAN
      OBVIOUS
    <3>4. CASE c \in checks
      BY <3>2, <3>4
    <3>5. CASE c = [id |-> <<Rule.id, "">>, available |-> FALSE]
      BY <3>5
    <3> QED
      BY <3>1, <3>4, <3>5
  <2> QED
    BY <1>4, <2>1, <2>2, <2>3
<1>7. CASE SkipRule
  <2>1. /\ phase = "rules" /\ next \in 1..13 /\ next' = next + 1
        /\ UNCHANGED <<cluster, run, phase, snapshot, checks, findings>>
        /\ run.mode \notin Rules[next].modes
    BY <1>7, RulesAre DEF SkipRule, DiagnosisInv, Rule
  <2>2. \A c \in checks' : c.available \in BOOLEAN
    BY <2>1 DEF DiagnosisInv
  <2> QED
    BY <1>4, <2>1, <2>2
<1>8. CASE Finish
  <2>1. UNCHANGED <<cluster, run, snapshot, next, checks, findings>> /\ phase' = "done" /\ phase = "rules"
        /\ next = 14
    BY <1>8, RulesAre DEF Finish, DiagnosisInv
  <2>2. /\ \A i \in 1..13 : Reported(Rules[i], snapshot)' = Reported(Rules[i], snapshot)
        /\ RulesBefore(next)' = RulesBefore(next)
    BY <2>1, ReportedUnchanged DEF RulesBefore
  <2>3. findings' = UNION {Reported(Rules[i], snapshot)' : i \in RulesBefore(next)'}
    BY <2>1, <2>2 DEF DiagnosisInv, RulesBefore
  <2>4. View(snapshot)'
    BY <2>1, ViewUnchanged DEF DiagnosisInv
  <2> QED
    BY <2>1, <2>3, <2>4 DEF DiagnosisInv
<1>9. CASE UNCHANGED vars
  <2>1. UNCHANGED <<cluster, run, phase, snapshot, next, checks, findings>>
    BY <1>9 DEF vars
  <2>2. /\ \A i \in 1..13 : Reported(Rules[i], snapshot)' = Reported(Rules[i], snapshot)
        /\ RulesBefore(next)' = RulesBefore(next)
    BY <2>1, ReportedUnchanged DEF RulesBefore
  <2>3. findings' = UNION {Reported(Rules[i], snapshot)' : i \in RulesBefore(next)'}
    BY <2>1, <2>2 DEF DiagnosisInv, RulesBefore
  <2>4. View(snapshot)' = View(snapshot) /\ CollectedView(snapshot)' = CollectedView(snapshot)
    BY <2>1, ViewUnchanged
  <2> QED
    BY <2>1, <2>3, <2>4 DEF DiagnosisInv
<1> QED
  BY <1>1, <1>2, <1>3, <1>5, <1>6, <1>7, <1>8, <1>9 DEF Next, Ended

\* The snapshot the rules see is the collected one, narrowed in select mode to the chosen
\* Pod, and the findings are what the rules run so far make of it (app.go diagnose,
\* Registry.Run).
THEOREM DiagnosisInvHolds == Spec => []DiagnosisInv
BY DiagnosisInit, DiagnosisNext, PTL DEF Spec

\* For any cluster, namespace, failed lists and first pages, no finding says that an object
\* which exists does not, but for what the snapshot narrowed to one Pod cannot tell
\* (the rules' checks of AvailableOrUntracked and scopeSnapshotToSelectedPod).
THEOREM AbsenceIsRealHolds == Spec => []AbsenceIsReal
<1>1. DiagnosisInv => AbsenceIsReal
  BY ReportedAbsence DEF AbsenceIsReal
<1> QED
  BY <1>1, DiagnosisInvHolds, PTL

\* The types, and that in select mode the rules judge the chosen Pod and no other
\* (resolveSelectedPod and scopeSnapshotToSelectedPod).
THEOREM TypeCorrect == Spec => []TypeOK
<1>1. ASSUME DiagnosisInv
      PROVE  TypeOK
  <2>1. \A f \in findings : f.level \in {"Issue", "Warning", "Candidate", "Unavailable"}
    BY <1>1, ReportedAbsence DEF Levels
  <2>2. ASSUME run.mode = "select", phase = "rules"
        PROVE  {NameOf(p) : p \in snapshot.pods} = {run.pod}
    <3>1. PICK s : /\ CollectedView(s)
                   /\ \E pod \in s.pods : NameOf(pod) = run.pod /\ snapshot = Scope(s, pod)
      BY <1>1, <2>2 DEF DiagnosisInv, View, NarrowedView
    <3>2. PICK pod \in s.pods : NameOf(pod) = run.pod /\ snapshot = Scope(s, pod)
      BY <3>1
    <3>3. DOMAIN s = SnapshotLists
      <4>1. PICK failed \in Failures : \E page \in FirstPages : s = Collected(cluster, run.ns, failed, page)
        BY <3>1 DEF CollectedView
      <4>2. PICK page \in FirstPages : s = Collected(cluster, run.ns, failed, page)
        BY <4>1
      <4>3. cluster \in Clusters
        BY <1>1 DEF DiagnosisInv
      <4>4. DOMAIN s = ClusterLists \union {"ns", "failed", "allPods", "index"}
        BY <4>2, <4>3, CollectedFields
      <4> QED
        BY <4>4 DEF SnapshotLists, ClusterLists
    <3>4. ScopeOf(snapshot, s, pod)
      BY <3>2, <3>3, ScopeFields
    <3>5. snapshot.pods = {pod}
      BY <3>4 DEF ScopeOf
    <3> QED
      BY <3>2, <3>5
  <2>3. next \in 1..(Len(Rules) + 1)
    BY <1>1, RulesAre DEF DiagnosisInv
  <2> QED
    BY <1>1, <2>1, <2>2, <2>3 DEF TypeOK, DiagnosisInv
<1> QED
  BY <1>1, DiagnosisInvHolds, PTL

-----------------------------------------------------------------------------
(* Two collections of one cluster: what failed and what was complete        *)

\* The lists that are collected, and narrowed, without a look at another list.
PlainLists ==
    {"configmaps", "serviceaccounts", "policies", "pvcs", "priorityclasses", "runtimeclasses",
     "storageclasses", "ingressclasses", "controllers", "replicasets", "gateways", "routes",
     "gatewayclasses", "webhooks", "pdbs"}

\* The lists that lead from the Pod to its Services.
Linked(s) == \A key \in {"services", "endpoint_slices", "endpoints"} : Available(s, key)

\* A list that is available is the complete one, but for those that are kept for the sake
\* of other lists.
SamePlainLists(s, t) ==
    /\ s.ns = t.ns /\ s.index = Nothing /\ t.index = Nothing /\ t.failed = {}
    /\ \A l \in PlainLists : Available(s, l) => s[l] = t[l]
    /\ Available(s, "pods") => s.pods = t.pods

\* Nothing is there that the complete snapshot does not have.
FewerObjects(s, t) ==
    /\ Services(s) \subseteq Services(t)
    /\ s.ingresses \subseteq t.ingresses
    /\ s.secrets \subseteq t.secrets
    /\ s.pvs \subseteq t.pvs

\* What is kept for the sake of other lists is complete when these are.
SameWhenLinked(s, t) ==
    /\ (run.mode = "select" => Linked(s)) =>
          /\ Available(s, "services") => s.services = t.services
          /\ Available(s, "endpoint_slices") => s.slices = t.slices
          /\ Available(s, "endpoints") => s.endpoints = t.endpoints
          /\ Available(s, "ingresses") => s.ingresses = t.ingresses
          /\ Available(s, "ingresses") /\ Available(s, "secrets") => s.secrets = t.secrets
    /\ Available(s, "pvs") /\ (run.mode = "select" => Available(s, "pvcs")) => s.pvs = t.pvs

\* The Pods that the selectors of the Services are matched against.
SameSelection(s, t) ==
    Available(s, "pods") /\ (run.mode = "select" => Available(s, "all_pods")) =>
        \A v \in Services(s) : Candidates(s, v) = Candidates(t, v)

\* The Services that the environment of a Pod names are there as in the complete snapshot,
\* but for names with a dot that only the endpoints could have kept.
SameMentions(s, t) ==
    Available(s, "services") /\ Available(s, "pods") =>
        \A p \in s.pods : \A h \in p.hosts :
            /\ h.form = "fqdn" => (<<h.ns, h.name>> \in Names(s) <=> <<h.ns, h.name>> \in Names(t))
            /\ h.form = "short" /\ (run.mode = "select" => Linked(s) \/ ~h.dot)
                  => (<<p.ns, h.name>> \in Names(s) <=> <<p.ns, h.name>> \in Names(t))

\* The Secrets that a Pod, or an Ingress of its namespace, names are there likewise.
SameSecrets(s, t) ==
    Available(s, "secrets") =>
        /\ Available(s, "pods") => \A p \in s.pods : \A n \in ReferencedNames(p, "Secret") :
              Found(s, "secrets", <<p.ns, n>>) = Found(t, "secrets", <<p.ns, n>>)
        /\ \A i \in s.ingresses : (run.mode = "select" => i.ns = run.pod[1]) =>
              \A u \in i.tls : Found(s, "secrets", <<i.ns, u>>) = Found(t, "secrets", <<i.ns, u>>)

\* The targets of the aliases are there likewise, in select mode those of the own aliases.
SameAliases(s, t) ==
    Available(s, "services") =>
        \A v \in Services(s) :
            /\ v.external /\ v.target # Nothing
            /\ run.mode = "select" => \E p \in s.pods : NameOf(v) \in OwnServices(s, p)
            => (v.target \in Names(s) <=> v.target \in Names(t))

\* What the snapshot s has in common with the one t that nothing failed for.
Compared(s, t) ==
    /\ SamePlainLists(s, t)
    /\ FewerObjects(s, t)
    /\ SameWhenLinked(s, t)
    /\ SameSelection(s, t)
    /\ SameMentions(s, t)
    /\ SameSecrets(s, t)
    /\ SameAliases(s, t)

\* A filtered list is the same when the list and what is kept of it are.
LEMMA SameServicesSameNames ==
    ASSUME NEW s, NEW t, s.services = t.services
    PROVE  Services(s) = Services(t) /\ Names(s) = Names(t)
BY DEF Services, Names

\* The services of a collected snapshot, at their positions.
LEMMA CollectedPositions ==
    ASSUME NEW c \in Clusters, NEW namespace, NEW failed, NEW page, NEW s,
           s = Collected(c, namespace, failed, page)
    PROVE  \E kept : /\ s.services = Filtered(c.services, kept)
                     /\ "services" \notin s.failed =>
                           kept = {v \in Services(c) : Visible(namespace, v)}
                     /\ kept \subseteq {v \in Services(c) : Visible(namespace, v)}
<1>1. DOMAIN c = ClusterLists
  BY ClustersAssumption
<1>3. s.failed = Outcome(namespace, failed)
  BY CollectedFields
<1> DEFINE fetched == IF "services" \in Outcome(namespace, failed) THEN {o \in Services(c) : o.name \in page}
                      ELSE Services(c)
           kept == {v \in fetched : Visible(namespace, v)}
<1>2. "services" \in ClusterLists /\ "services" \notin NamespacedLists
  BY DEF ClusterLists, NamespacedLists
<1>4. s["services"] = Filtered(c.services, kept)
  BY <1>1, <1>2 DEF Collected, Visible
<1>5. "services" \notin s.failed => kept = {v \in Services(c) : Visible(namespace, v)}
  BY <1>3
<1>6. kept \subseteq {v \in Services(c) : Visible(namespace, v)}
  OBVIOUS
<1> QED
  BY <1>4, <1>5, <1>6

\* Nothing fails for the complete collection.
LEMMA NothingFailed ==
    ASSUME NEW namespace
    PROVE  Outcome(namespace, {}) = {}
BY DEF Outcome

\* The lists whose order decides nothing; that of the Services decides what aliases keep.
ObjectLists == ClusterLists \ {"services"}

\* Two snapshots of which the first holds a part of the second, list by list.
PartOf(s, t) ==
    /\ s.ns = t.ns /\ s.index = Nothing /\ t.index = Nothing /\ t.failed = {}
    /\ DOMAIN s = SnapshotLists /\ DOMAIN t = SnapshotLists
    /\ \A l \in ObjectLists : s[l] \subseteq t[l] /\ (Available(s, KeyOf(l)) => s[l] = t[l])
    /\ DOMAIN t.services \subseteq Nat \ {0}
    /\ DOMAIN s.services \subseteq DOMAIN t.services
    /\ \A i \in DOMAIN s.services : s.services[i] = t.services[i]
    /\ Available(s, "services") => s.services = t.services
    /\ Available(s, "all_pods") => s.allPods = t.allPods

\* A filter that keeps less.
LEMMA FilteredLess ==
    ASSUME NEW list, NEW less, NEW more, less \subseteq more
    PROVE  /\ DOMAIN Filtered(list, less) \subseteq DOMAIN Filtered(list, more)
           /\ \A i \in DOMAIN Filtered(list, less) : Filtered(list, less)[i] = Filtered(list, more)[i]
BY DEF Filtered

\* What was collected although some lists failed is a part of the complete collection.
LEMMA CollectedIsPart ==
    ASSUME cluster \in Clusters, NEW failed, NEW page, NEW s,
           s = Collected(cluster, run.ns, failed, page),
           NEW t, t = Collected(cluster, run.ns, {}, {})
    PROVE  PartOf(s, t)
<1>1. /\ s.ns = run.ns /\ s.index = Nothing /\ DOMAIN s = SnapshotLists
      /\ t.ns = run.ns /\ t.index = Nothing /\ DOMAIN t = SnapshotLists
  BY CollectedFields DEF SnapshotLists
<1>2. t.failed = {}
  BY CollectedFields, NothingFailed
<1>3. ASSUME NEW l \in ObjectLists
      PROVE  s[l] \subseteq t[l] /\ (Available(s, KeyOf(l)) => s[l] = t[l])
  <2>1. CASE l \in NamespacedLists
    <3>1. /\ s[l] \subseteq {o \in cluster[l] : Visible(run.ns, o)}
          /\ KeyOf(l) \notin s.failed => s[l] = {o \in cluster[l] : Visible(run.ns, o)}
      BY <2>1, CollectedNamespaced
    <3>2. t[l] = {o \in cluster[l] : Visible(run.ns, o)}
      BY <1>2, <2>1, CollectedNamespaced
    <3> QED
      BY <3>1, <3>2 DEF Available
  <2>2. CASE l \notin NamespacedLists
    <3>1. l \in ClusterWide /\ KeyOf(l) = l
      BY <2>2 DEF ObjectLists, ClusterWide, KeyOf, NamespacedLists
    <3>2. s[l] \subseteq cluster[l] /\ (l \notin s.failed => s[l] = cluster[l])
      BY <3>1, CollectedWide
    <3>3. t[l] = cluster[l]
      BY <1>2, <3>1, CollectedWide
    <3> QED
      BY <3>1, <3>2, <3>3 DEF Available
  <2> QED
    BY <2>1, <2>2
<1>4. PICK less : /\ s.services = Filtered(cluster.services, less)
                  /\ "services" \notin s.failed =>
                        less = {v \in Services(cluster) : Visible(run.ns, v)}
                  /\ less \subseteq {v \in Services(cluster) : Visible(run.ns, v)}
  BY CollectedPositions
<1>5. t.services = Filtered(cluster.services, {v \in Services(cluster) : Visible(run.ns, v)})
  <2>1. PICK more : /\ t.services = Filtered(cluster.services, more)
                    /\ "services" \notin t.failed =>
                          more = {v \in Services(cluster) : Visible(run.ns, v)}
    BY CollectedPositions
  <2> QED
    BY <1>2, <2>1
<1>6. DOMAIN t.services \subseteq Nat \ {0}
  BY CollectedServices
<1>7. /\ DOMAIN s.services \subseteq DOMAIN t.services
      /\ \A i \in DOMAIN s.services : s.services[i] = t.services[i]
  BY <1>4, <1>5, FilteredLess
<1>8. Available(s, "services") => s.services = t.services
  BY <1>4, <1>5 DEF Available
<1>9. Available(s, "all_pods") => s.allPods = t.allPods
  BY <1>2, CollectedPods DEF Available
<1> QED
  BY <1>1, <1>2, <1>3, <1>6, <1>7, <1>8, <1>9 DEF PartOf

\* The Services of a part are Services of the whole.
LEMMA FewerServices ==
    ASSUME NEW s, NEW t, PartOf(s, t)
    PROVE  Services(s) \subseteq Services(t) /\ Names(s) \subseteq Names(t)
BY DEF PartOf, Services, Names

\* The Pods in question are the same in both collections.
LEMMA CollectedCandidates ==
    ASSUME cluster \in Clusters, run.mode # "select", NEW failed, NEW page, NEW s,
           s = Collected(cluster, run.ns, failed, page), Available(s, "pods"), NEW v \in Services(s)
    PROVE  Candidates(s, v) = {p \in cluster.pods : p.ns = v.ns}
<1>1. Visible(run.ns, v)
  BY CollectedServices
<1>2. s.pods = {p \in cluster.pods : Visible(run.ns, p)}
  <2>1. "pods" \in NamespacedLists /\ KeyOf("pods") = "pods"
    BY DEF NamespacedLists, KeyOf
  <2> QED
    BY <2>1, CollectedNamespaced DEF Available
<1>3. "all_pods" \notin s.failed => s.allPods = cluster.pods
  BY CollectedPods
<1>4. s.failed = Outcome(run.ns, failed)
  BY CollectedFields
<1>5. CASE run.ns = ""
  <2>1. "all_pods" \notin s.failed
    BY <1>4, <1>5 DEF Outcome, Available
  <2>2. s.pods = cluster.pods /\ s.allPods = cluster.pods
    BY <1>2, <1>3, <1>5, <2>1 DEF Visible
  <2>3. SelectorPods(s) = cluster.pods
    BY <2>2 DEF SelectorPods
  <2> QED
    BY <2>3 DEF Candidates
<1>6. CASE run.ns # ""
  <2>1. v.ns = run.ns
    BY <1>1, <1>6 DEF Visible
  <2>2. {p \in s.pods : p.ns = v.ns} = {p \in cluster.pods : p.ns = v.ns}
    BY <1>2, <2>1 DEF Visible
  <2>3. CASE s.allPods # {} /\ AvailableOrUntracked(s, "all_pods")
    <3>1. SelectorPods(s) = cluster.pods
      BY <1>3, <2>3 DEF SelectorPods, AvailableOrUntracked
    <3> QED
      BY <3>1 DEF Candidates
  <2>4. CASE ~(s.allPods # {} /\ AvailableOrUntracked(s, "all_pods"))
    <3>1. SelectorPods(s) = s.pods
      BY <2>4 DEF SelectorPods
    <3> QED
      BY <2>2, <3>1 DEF Candidates
  <2> QED
    BY <2>3, <2>4
<1> QED
  BY <1>5, <1>6

\* Without narrowing, what was fetched is what a complete collection fetches.
LEMMA CollectedCompared ==
    ASSUME cluster \in Clusters, run.mode # "select", NEW failed, NEW page, NEW s,
           s = Collected(cluster, run.ns, failed, page),
           NEW t, t = Collected(cluster, run.ns, {}, {})
    PROVE  Compared(s, t)
<1>1. PartOf(s, t)
  BY CollectedIsPart
<1>2. \A l \in ObjectLists : s[l] \subseteq t[l] /\ (Available(s, KeyOf(l)) => s[l] = t[l])
  BY <1>1 DEF PartOf
<1>3. /\ "pods" \in ObjectLists /\ "slices" \in ObjectLists /\ "endpoints" \in ObjectLists
      /\ "ingresses" \in ObjectLists /\ "secrets" \in ObjectLists /\ "pvs" \in ObjectLists
      /\ PlainLists \subseteq ObjectLists
  BY DEF ObjectLists, ClusterLists, PlainLists
<1>4. /\ KeyOf("slices") = "endpoint_slices" /\ \A l \in PlainLists : KeyOf(l) = l
      /\ KeyOf("pods") = "pods" /\ KeyOf("endpoints") = "endpoints" /\ KeyOf("ingresses") = "ingresses"
      /\ KeyOf("secrets") = "secrets" /\ KeyOf("pvs") = "pvs"
  BY DEF KeyOf, PlainLists
<1>5. SamePlainLists(s, t)
  BY <1>1, <1>2, <1>3, <1>4 DEF PartOf, SamePlainLists
<1>6. FewerObjects(s, t)
  BY <1>1, <1>2, <1>3, FewerServices DEF FewerObjects
<1>7. /\ Available(s, "services") => s.services = t.services
      /\ Available(s, "endpoint_slices") => s.slices = t.slices
      /\ Available(s, "endpoints") => s.endpoints = t.endpoints
      /\ Available(s, "ingresses") => s.ingresses = t.ingresses
      /\ Available(s, "secrets") => s.secrets = t.secrets
      /\ Available(s, "pvs") => s.pvs = t.pvs
  BY <1>1, <1>2, <1>3, <1>4 DEF PartOf
<1>8. SameWhenLinked(s, t)
  BY <1>7 DEF SameWhenLinked
<1>9. SameSelection(s, t)
  <2> SUFFICES ASSUME Available(s, "pods"), NEW v \in Services(s)
               PROVE  Candidates(s, v) = Candidates(t, v)
    BY DEF SameSelection
  <2>1. v \in Services(t)
    BY <1>6 DEF FewerObjects
  <2>2. Available(t, "pods")
    BY <1>5 DEF SamePlainLists, Available
  <2> QED
    BY <2>1, <2>2, CollectedCandidates
<1>10. Available(s, "services") => Names(s) = Names(t)
  BY <1>7, SameServicesSameNames
<1>11. SameMentions(s, t)
  BY <1>10 DEF SameMentions
<1>12. SameAliases(s, t)
  BY <1>10 DEF SameAliases
<1>13. SameSecrets(s, t)
  <2>1. Available(s, "secrets") => \A name : Found(s, "secrets", name) = Found(t, "secrets", name)
    <3>1. s.index = Nothing /\ t.index = Nothing /\ "secrets" \in IndexedLists
      BY <1>1 DEF PartOf, IndexedLists
    <3>2. \A name : /\ Found(s, "secrets", name) = {o \in s["secrets"] : NameOf(o) = name}
                    /\ Found(t, "secrets", name) = {o \in t["secrets"] : NameOf(o) = name}
      BY <3>1, FoundIs
    <3> QED
      BY <1>7, <3>2
  <2> QED
    BY <2>1 DEF SameSecrets
<1> QED
  BY <1>5, <1>6, <1>8, <1>9, <1>11, <1>12, <1>13 DEF Compared

-----------------------------------------------------------------------------
(* What is kept for a Pod, of two collections                               *)

\* The pass over fewer Services from fewer names keeps no more.
LEMMA AliasesOfFewer ==
    ASSUME NEW few, NEW many, DOMAIN many \subseteq Nat \ {0}, DOMAIN few \subseteq DOMAIN many,
           \A i \in DOMAIN few : few[i] = many[i],
           NEW less, NEW more, less \subseteq more
    PROVE  FollowAliases(few, less) \subseteq FollowAliases(many, more)
<1>1. PICK a : /\ Pass(a, few, less)
               /\ FollowAliases(few, less) = less \union UNION {a[i] : i \in DOMAIN few}
  BY PassExists
<1>2. PICK b : /\ Pass(b, many, more)
               /\ FollowAliases(many, more) = more \union UNION {b[i] : i \in DOMAIN many}
  BY PassExists
<1> DEFINE T == {n \in Nat : a[n] \subseteq b[n]}
<1>3. 0 \in T
  BY <1>1, <1>2 DEF Pass
<1>4. ASSUME NEW n \in Nat, n \in T
      PROVE  n + 1 \in T
  <2>1. n + 1 \in Nat \ {0} /\ (n + 1) - 1 = n
    OBVIOUS
  <2>2. /\ a[n + 1] = a[n] \union AliasTargets(few, n + 1, a[n])
        /\ b[n + 1] = b[n] \union AliasTargets(many, n + 1, b[n])
    BY <1>1, <1>2, <2>1 DEF Pass
  <2>3. AliasTargets(few, n + 1, a[n]) \subseteq AliasTargets(many, n + 1, b[n])
    BY <1>4 DEF AliasTargets
  <2> QED
    BY <1>4, <2>1, <2>2, <2>3
<1>5. Nat \subseteq T
  <2> HIDE DEF T
  <2> QED
    BY <1>3, <1>4, InductionOverNat
<1>6. \A i \in DOMAIN few : a[i] \subseteq b[i] /\ i \in DOMAIN many
  BY <1>5
<1> QED
  BY <1>1, <1>2, <1>6

\* The two ways endpoints lead to Services, for a Pod.
ServicesOfSlices(s, pod) ==
    {<<x.ns, x.service>> : x \in {w \in s.slices : SliceTargetsPod(w, pod) /\ w.service # ""}}

ServicesOfEndpoints(s, pod) == {NameOf(x) : x \in {w \in s.endpoints : EndpointsTargetPod(w, pod)}}

\* The Services kept, by the reason they are kept for.
LEMMA KeptServicesAre ==
    ASSUME NEW s, NEW pod
    PROVE  KeptServices(s, pod) = FollowAliases(s.services, OwnServices(s, pod))
              \union ServicesOfSlices(s, pod) \union ServicesOfEndpoints(s, pod)
BY DEF KeptServices, ServicesOfSlices, ServicesOfEndpoints

\* Endpoints that point to a Pod are in its namespace.
LEMMA LinkedInNamespace ==
    ASSUME NEW s, NEW pod, NEW name \in ServicesOfSlices(s, pod) \union ServicesOfEndpoints(s, pod)
    PROVE  name[1] = pod.ns
<1>1. CASE name \in ServicesOfSlices(s, pod)
  <2>1. PICK x \in s.slices : SliceTargetsPod(x, pod) /\ name = <<x.ns, x.service>>
    BY <1>1 DEF ServicesOfSlices
  <2> QED
    BY <2>1 DEF SliceTargetsPod, TargetsPod
<1>2. CASE name \in ServicesOfEndpoints(s, pod)
  <2>1. PICK x \in s.endpoints : EndpointsTargetPod(x, pod) /\ name = NameOf(x)
    BY <1>2 DEF ServicesOfEndpoints
  <2> QED
    BY <2>1, NamespaceOfAName DEF EndpointsTargetPod, TargetsPod
<1> QED
  BY <1>1, <1>2

\* A part of a snapshot keeps no Service that the whole does not keep; outside the
\* namespace of the Pod it keeps the same ones when it has all the Services.
LEMMA KeptOfAPart ==
    ASSUME NEW s, NEW t, PartOf(s, t), NEW pod
    PROVE  /\ KeptServices(s, pod) \subseteq KeptServices(t, pod)
           /\ Available(s, "services") =>
                 \A name \in KeptServices(t, pod) : name[1] # pod.ns => name \in KeptServices(s, pod)
           /\ Linked(s) => KeptServices(s, pod) = KeptServices(t, pod)
<1>1. Services(s) \subseteq Services(t)
  BY FewerServices
<1>2. OwnServices(s, pod) \subseteq OwnServices(t, pod)
  BY <1>1, OwnServicesOfTheView
<1>3. /\ "slices" \in ObjectLists /\ "endpoints" \in ObjectLists
      /\ KeyOf("slices") = "endpoint_slices" /\ KeyOf("endpoints") = "endpoints"
  BY DEF ObjectLists, ClusterLists, KeyOf
<1>4. /\ s.slices \subseteq t.slices /\ (Available(s, "endpoint_slices") => s.slices = t.slices)
      /\ s.endpoints \subseteq t.endpoints /\ (Available(s, "endpoints") => s.endpoints = t.endpoints)
  BY <1>3 DEF PartOf
<1>5. FollowAliases(s.services, OwnServices(s, pod)) \subseteq FollowAliases(t.services, OwnServices(t, pod))
  BY <1>2, AliasesOfFewer DEF PartOf
<1>6. /\ ServicesOfSlices(s, pod) \subseteq ServicesOfSlices(t, pod)
      /\ ServicesOfEndpoints(s, pod) \subseteq ServicesOfEndpoints(t, pod)
  BY <1>4 DEF ServicesOfSlices, ServicesOfEndpoints
<1>7. ASSUME Available(s, "services")
      PROVE  FollowAliases(s.services, OwnServices(s, pod)) = FollowAliases(t.services, OwnServices(t, pod))
  <2>1. s.services = t.services
    BY <1>7 DEF PartOf
  <2>2. OwnServices(s, pod) = OwnServices(t, pod)
    BY <2>1, SameServicesSameNames DEF OwnServices
  <2> QED
    BY <2>1, <2>2
<1>8. ASSUME Available(s, "services"), NEW name \in KeptServices(t, pod), name[1] # pod.ns
      PROVE  name \in KeptServices(s, pod)
  <2>1. name \in FollowAliases(t.services, OwnServices(t, pod))
    BY <1>8, KeptServicesAre, LinkedInNamespace
  <2> QED
    BY <1>7, <1>8, <2>1, KeptServicesAre
<1>9. ASSUME Linked(s)
      PROVE  KeptServices(s, pod) = KeptServices(t, pod)
  <2>1. Available(s, "services") /\ Available(s, "endpoint_slices") /\ Available(s, "endpoints")
    BY <1>9 DEF Linked
  <2>2. ServicesOfSlices(s, pod) = ServicesOfSlices(t, pod)
        /\ ServicesOfEndpoints(s, pod) = ServicesOfEndpoints(t, pod)
    BY <1>4, <2>1 DEF ServicesOfSlices, ServicesOfEndpoints
  <2> QED
    BY <1>7, <2>1, <2>2, KeptServicesAre
<1>10. KeptServices(s, pod) \subseteq KeptServices(t, pod)
  BY <1>5, <1>6, KeptServicesAre
<1> QED
  BY <1>8, <1>9, <1>10

\* A Service that the Pod names is its own.
LEMMA NamedServiceIsOwn ==
    ASSUME NEW s, NEW pod, NEW h \in pod.hosts,
           (h.form = "fqdn" /\ h.ns = pod.ns) \/ (h.form = "short" /\ ~h.dot),
           <<pod.ns, h.name>> \in Names(s)
    PROVE  <<pod.ns, h.name>> \in OwnServices(s, pod)
<1>1. PICK v \in Services(s) : <<v.ns, v.name>> = <<pod.ns, h.name>>
  BY DEF Names, NameOf
<1>2. v.ns = pod.ns /\ v.name = h.name
  BY <1>1
<1>3. MentionsService(pod, v)
  BY <1>2 DEF MentionsService
<1>4. NameOf(v) = <<pod.ns, h.name>>
  BY <1>1 DEF NameOf
<1> QED
  BY <1>3, <1>4 DEF OwnServices

\* Only what the Pod and the lists of ingresses decide is kept of the Secrets.
LEMMA NarrowedSecrets ==
    ASSUME NEW s, DOMAIN s = SnapshotLists, NEW pod, NEW v, v = Scope(s, pod),
           NEW n \in SecretNames(pod, KeptIngresses(s, KeptServices(s, pod)))
    PROVE  Found(v, "secrets", <<pod.ns, n>>) = {o \in s.secrets : NameOf(o) = <<pod.ns, n>>}
<1>1. ScopeOf(v, s, pod)
  BY ScopeFields
<1>2. v.index = Nothing /\ "secrets" \in IndexedLists
  BY <1>1 DEF ScopeOf, IndexedLists
<1>3. Found(v, "secrets", <<pod.ns, n>>) = {o \in v["secrets"] : NameOf(o) = <<pod.ns, n>>}
  BY <1>2, FoundIs
<1>4. v.secrets = InNamespace(s.secrets, pod.ns, SecretNames(pod, KeptIngresses(s, KeptServices(s, pod))))
  BY <1>1 DEF ScopeOf
<1>5. \A o : NameOf(o) = <<pod.ns, n>> => o.ns = pod.ns /\ o.name = n
  BY DEF NameOf
<1> QED
  BY <1>3, <1>4, <1>5 DEF InNamespace

\* The lists of a snapshot narrowed to one Pod, of a part of the lists and of all of them.
LEMMA NarrowedCompared ==
    ASSUME run.mode = "select", NEW s, NEW t, PartOf(s, t),
           Available(s, "pods"), NEW pod \in s.pods, NameOf(pod) = run.pod,
           NEW v, v = Scope(s, pod), NEW w, w = Scope(t, pod)
    PROVE  Compared(v, w)
<1>1. ScopeOf(v, s, pod) /\ ScopeOf(w, t, pod)
  BY ScopeFields DEF PartOf
<1>2. /\ v.failed = s.failed /\ w.failed = {} /\ v.ns = pod.ns /\ w.ns = pod.ns
      /\ v.index = Nothing /\ w.index = Nothing /\ v.pods = {pod} /\ w.pods = {pod}
      /\ v.allPods = s.allPods /\ w.allPods = t.allPods
  BY <1>1 DEF ScopeOf, PartOf
<1>3. \A key : Available(v, key) <=> Available(s, key)
  BY <1>2 DEF Available
<1>4. \A l \in ObjectLists : s[l] \subseteq t[l] /\ (Available(s, KeyOf(l)) => s[l] = t[l])
  BY DEF PartOf
<1>5. /\ "pods" \in ObjectLists /\ "slices" \in ObjectLists /\ "endpoints" \in ObjectLists
      /\ "ingresses" \in ObjectLists /\ "secrets" \in ObjectLists /\ "pvs" \in ObjectLists
      /\ "pvcs" \in ObjectLists /\ PlainLists \subseteq ObjectLists
  BY DEF ObjectLists, ClusterLists, PlainLists
<1>6. /\ KeyOf("slices") = "endpoint_slices" /\ \A l \in PlainLists : KeyOf(l) = l
      /\ KeyOf("pods") = "pods" /\ KeyOf("endpoints") = "endpoints" /\ KeyOf("ingresses") = "ingresses"
      /\ KeyOf("secrets") = "secrets" /\ KeyOf("pvs") = "pvs" /\ KeyOf("pvcs") = "pvcs"
  BY DEF KeyOf, PlainLists
<1>7. /\ s.slices \subseteq t.slices /\ (Available(s, "endpoint_slices") => s.slices = t.slices)
      /\ s.endpoints \subseteq t.endpoints /\ (Available(s, "endpoints") => s.endpoints = t.endpoints)
      /\ s.ingresses \subseteq t.ingresses /\ (Available(s, "ingresses") => s.ingresses = t.ingresses)
      /\ s.secrets \subseteq t.secrets /\ (Available(s, "secrets") => s.secrets = t.secrets)
      /\ s.pvs \subseteq t.pvs /\ (Available(s, "pvs") => s.pvs = t.pvs)
      /\ s.pvcs \subseteq t.pvcs /\ (Available(s, "pvcs") => s.pvcs = t.pvcs)
  BY <1>4, <1>5, <1>6
<1>8. \A l \in PlainLists : Available(s, l) => s[l] = t[l]
  BY <1>4, <1>5, <1>6
<1>9. /\ KeptServices(s, pod) \subseteq KeptServices(t, pod)
      /\ Available(s, "services") =>
            \A name \in KeptServices(t, pod) : name[1] # pod.ns => name \in KeptServices(s, pod)
      /\ Linked(s) => KeptServices(s, pod) = KeptServices(t, pod)
  BY KeptOfAPart
<1>10. /\ Services(v) = {x \in Services(s) : NameOf(x) \in KeptServices(s, pod)}
       /\ Services(w) = {x \in Services(t) : NameOf(x) \in KeptServices(t, pod)}
  BY ScopedServices DEF PartOf
<1>11. /\ Names(v) = Names(s) \intersect KeptServices(s, pod)
       /\ Names(w) = Names(t) \intersect KeptServices(t, pod)
  BY <1>10 DEF Names
<1>12. Services(s) \subseteq Services(t)
  BY FewerServices
<1>13. Available(s, "services") => s.services = t.services /\ Names(s) = Names(t)
  BY SameServicesSameNames DEF PartOf
<1> DEFINE few == KeptIngresses(s, KeptServices(s, pod))
           many == KeptIngresses(t, KeptServices(t, pod))
<1>14. few \subseteq many
  BY <1>7, <1>9 DEF KeptIngresses, UsesService
<1>15. v.ingresses = few /\ w.ingresses = many
  BY <1>1 DEF ScopeOf
<1>16. /\ v.secrets = InNamespace(s.secrets, pod.ns, SecretNames(pod, few))
       /\ w.secrets = InNamespace(t.secrets, pod.ns, SecretNames(pod, many))
  BY <1>1 DEF ScopeOf
<1>17. SecretNames(pod, few) \subseteq SecretNames(pod, many)
  BY <1>14 DEF SecretNames
<1>18. pod.ns = run.pod[1]
  BY NamespaceOfAName
<1>19. SamePlainLists(v, w)
  <2>1. \A l \in {"priorityclasses", "runtimeclasses", "storageclasses", "ingressclasses",
                  "controllers", "replicasets", "gateways", "routes", "gatewayclasses",
                  "webhooks", "pdbs"} : v[l] = s[l] /\ w[l] = t[l]
    BY <1>1 DEF ScopeOf
  <2>2. Available(s, "configmaps") => v.configmaps = w.configmaps
    BY <1>1, <1>8 DEF ScopeOf, PlainLists
  <2>3. Available(s, "serviceaccounts") => v.serviceaccounts = w.serviceaccounts
    BY <1>1, <1>8 DEF ScopeOf, PlainLists
  <2>4. Available(s, "policies") => v.policies = w.policies
    <3>1. v.policies = KeptPolicies(s, pod) /\ w.policies = KeptPolicies(t, pod)
      BY <1>1 DEF ScopeOf
    <3>2. Available(s, "policies") => s.policies = t.policies
      BY <1>8 DEF PlainLists
    <3> QED
      BY <3>1, <3>2 DEF KeptPolicies
  <2>5. Available(s, "pvcs") => v.pvcs = w.pvcs
    BY <1>1, <1>7 DEF ScopeOf
  <2>6. ASSUME NEW l \in PlainLists, Available(v, l)
        PROVE  v[l] = w[l]
    BY <1>3, <1>8, <2>1, <2>2, <2>3, <2>4, <2>5, <2>6 DEF PlainLists
  <2> QED
    BY <1>2, <2>6 DEF SamePlainLists
<1>20. FewerObjects(v, w)
  <2>1. Services(v) \subseteq Services(w)
    BY <1>9, <1>10, <1>12
  <2>2. v.secrets \subseteq w.secrets
    BY <1>7, <1>16, <1>17 DEF InNamespace
  <2>3. v.pvs \subseteq w.pvs
    <3>1. /\ v.pvs = KeptVolumes(s, pod, InNamespace(s.pvcs, pod.ns, ClaimNames(pod)))
          /\ w.pvs = KeptVolumes(t, pod, InNamespace(t.pvcs, pod.ns, ClaimNames(pod)))
      BY <1>1 DEF ScopeOf
    <3>2. InNamespace(s.pvcs, pod.ns, ClaimNames(pod)) \subseteq InNamespace(t.pvcs, pod.ns, ClaimNames(pod))
      BY <1>7 DEF InNamespace
    <3> QED
      BY <1>7, <3>1, <3>2 DEF KeptVolumes
  <2> QED
    BY <1>14, <1>15, <2>1, <2>2, <2>3 DEF FewerObjects
<1>21. SameWhenLinked(v, w)
  <2>1. ASSUME Linked(s)
        PROVE  /\ v.services = w.services
               /\ Available(s, "endpoint_slices") => v.slices = w.slices
               /\ Available(s, "endpoints") => v.endpoints = w.endpoints
               /\ Available(s, "ingresses") => v.ingresses = w.ingresses
               /\ Available(s, "ingresses") /\ Available(s, "secrets") => v.secrets = w.secrets
    <3>1. KeptServices(s, pod) = KeptServices(t, pod) /\ s.services = t.services
      BY <1>9, <1>13, <2>1 DEF Linked
    <3>2. v.services = w.services
      <4>1. Services(s) = Services(t)
        BY <3>1, SameServicesSameNames
      <4>2. /\ v.services = Filtered(s.services, {x \in Services(s) : NameOf(x) \in KeptServices(s, pod)})
            /\ w.services = Filtered(t.services, {x \in Services(t) : NameOf(x) \in KeptServices(t, pod)})
        BY <1>1 DEF ScopeOf
      <4>3. {x \in Services(s) : NameOf(x) \in KeptServices(s, pod)}
               = {x \in Services(t) : NameOf(x) \in KeptServices(t, pod)}
        BY <3>1, <4>1
      <4> QED
        BY <3>1, <4>2, <4>3
    <3>3. Available(s, "endpoint_slices") => v.slices = w.slices
      BY <1>1, <1>7, <3>1 DEF ScopeOf
    <3>4. Available(s, "endpoints") => v.endpoints = w.endpoints
      BY <1>1, <1>7, <3>1 DEF ScopeOf
    <3>5. Available(s, "ingresses") => few = many
      BY <1>7, <3>1 DEF KeptIngresses
    <3> HIDE DEF few, many
    <3> QED
      BY <1>7, <1>15, <1>16, <3>2, <3>3, <3>4, <3>5
  <2>2. Available(s, "pvs") /\ Available(s, "pvcs") => v.pvs = w.pvs
    <3>1. /\ v.pvs = KeptVolumes(s, pod, InNamespace(s.pvcs, pod.ns, ClaimNames(pod)))
          /\ w.pvs = KeptVolumes(t, pod, InNamespace(t.pvcs, pod.ns, ClaimNames(pod)))
      BY <1>1 DEF ScopeOf
    <3> QED
      BY <1>7, <3>1 DEF KeptVolumes
  <2>3. Linked(v) => Linked(s)
    BY <1>3 DEF Linked
  <2> QED
    BY <1>3, <2>1, <2>2, <2>3 DEF SameWhenLinked
<1>22. SameSelection(v, w)
  <2> SUFFICES ASSUME Available(s, "all_pods"), NEW x
               PROVE  Candidates(v, x) = Candidates(w, x)
    BY <1>3 DEF SameSelection
  <2>1. v.allPods = w.allPods
    BY <1>2 DEF PartOf
  <2>2. AvailableOrUntracked(v, "all_pods") /\ AvailableOrUntracked(w, "all_pods")
    BY <1>2 DEF Available, AvailableOrUntracked
  <2>3. SelectorPods(v) = SelectorPods(w)
    BY <1>2, <2>1, <2>2 DEF SelectorPods
  <2> QED
    BY <2>3 DEF Candidates
<1>23. SameMentions(v, w)
  <2> SUFFICES ASSUME Available(s, "services"), NEW h \in pod.hosts
               PROVE  /\ h.form = "fqdn" => (<<h.ns, h.name>> \in Names(v) <=> <<h.ns, h.name>> \in Names(w))
                      /\ h.form = "short" /\ (Linked(v) \/ ~h.dot)
                            => (<<pod.ns, h.name>> \in Names(v) <=> <<pod.ns, h.name>> \in Names(w))
    BY <1>2, <1>3 DEF SameMentions
  <2>1. Names(s) = Names(t) /\ DOMAIN s.services \subseteq Nat \ {0}
    BY <1>13 DEF PartOf
  <2>2. OwnServices(s, pod) \subseteq KeptServices(s, pod)
    BY <2>1, OwnServicesAreKept
  <2>3. ASSUME (h.form = "fqdn" /\ h.ns = pod.ns) \/ (h.form = "short" /\ ~h.dot)
        PROVE  <<pod.ns, h.name>> \in Names(v) <=> <<pod.ns, h.name>> \in Names(w)
    <3>1. <<pod.ns, h.name>> \in Names(s) => <<pod.ns, h.name>> \in OwnServices(s, pod)
      BY <2>3, NamedServiceIsOwn
    <3> QED
      BY <1>9, <1>11, <2>1, <2>2, <3>1
  <2>4. ASSUME h.form = "fqdn", h.ns # pod.ns
        PROVE  <<h.ns, h.name>> \in Names(v) <=> <<h.ns, h.name>> \in Names(w)
    <3>1. <<h.ns, h.name>>[1] # pod.ns
      BY <2>4
    <3> QED
      BY <1>9, <1>11, <2>1, <3>1
  <2>5. ASSUME Linked(v)
        PROVE  Names(v) = Names(w)
    <3>1. Linked(s)
      BY <1>3, <2>5 DEF Linked
    <3> QED
      BY <1>9, <1>11, <2>1, <3>1
  <2>6. ASSUME h.form = "fqdn"
        PROVE  <<h.ns, h.name>> \in Names(v) <=> <<h.ns, h.name>> \in Names(w)
    <3>1. CASE h.ns = pod.ns
      <4>1. <<pod.ns, h.name>> \in Names(v) <=> <<pod.ns, h.name>> \in Names(w)
        BY <2>3, <2>6, <3>1
      <4> QED
        BY <3>1, <4>1
    <3>2. CASE h.ns # pod.ns
      BY <2>4, <2>6, <3>2
    <3> QED
      BY <3>1, <3>2
  <2>7. ASSUME h.form = "short", Linked(v) \/ ~h.dot
        PROVE  <<pod.ns, h.name>> \in Names(v) <=> <<pod.ns, h.name>> \in Names(w)
    <3>1. CASE Linked(v)
      BY <2>5, <3>1
    <3> QED
      BY <2>3, <2>7, <3>1
  <2> QED
    BY <2>6, <2>7
<1>24. SameSecrets(v, w)
  <2> SUFFICES ASSUME Available(s, "secrets")
               PROVE  /\ \A n \in ReferencedNames(pod, "Secret") :
                            Found(v, "secrets", <<pod.ns, n>>) = Found(w, "secrets", <<pod.ns, n>>)
                      /\ \A i \in few : i.ns = run.pod[1] => \A u \in i.tls :
                            Found(v, "secrets", <<i.ns, u>>) = Found(w, "secrets", <<i.ns, u>>)
    BY <1>2, <1>3, <1>15 DEF SameSecrets
  <2>1. ASSUME NEW n \in SecretNames(pod, few)
        PROVE  Found(v, "secrets", <<pod.ns, n>>) = Found(w, "secrets", <<pod.ns, n>>)
    <3>1. n \in SecretNames(pod, many)
      BY <1>17
    <3>2. DOMAIN s = SnapshotLists /\ DOMAIN t = SnapshotLists
      BY DEF PartOf
    <3>3. Found(v, "secrets", <<pod.ns, n>>) = {o \in s.secrets : NameOf(o) = <<pod.ns, n>>}
      BY <3>2, NarrowedSecrets
    <3>4. Found(w, "secrets", <<pod.ns, n>>) = {o \in t.secrets : NameOf(o) = <<pod.ns, n>>}
      BY <3>1, <3>2, NarrowedSecrets
    <3> QED
      BY <1>7, <3>3, <3>4
  <2>2. ReferencedNames(pod, "Secret") \subseteq SecretNames(pod, few)
    BY DEF SecretNames
  <2>3. \A i \in few : i.tls \subseteq SecretNames(pod, few)
    BY DEF SecretNames
  <2> HIDE DEF few, many
  <2> QED
    BY <1>18, <2>1, <2>2, <2>3
<1>25. SameAliases(v, w)
  <2> SUFFICES ASSUME Available(s, "services"), NEW x \in Services(v), x.external, x.target # Nothing,
                      NameOf(x) \in OwnServices(v, pod)
               PROVE  x.target \in Names(v) <=> x.target \in Names(w)
    BY <1>2, <1>3 DEF SameAliases
  <2>1. Names(s) = Names(t) /\ DOMAIN s.services \subseteq Nat \ {0}
    BY <1>13 DEF PartOf
  <2>2. NameOf(x) \in OwnServices(s, pod) /\ x \in Services(s)
    BY <1>10, OwnServicesOfTheView
  <2>3. x.target \in KeptServices(s, pod)
    BY <2>1, <2>2, OwnServicesAreKept
  <2> QED
    BY <1>9, <1>11, <2>1, <2>3
<1> QED
  BY <1>19, <1>20, <1>21, <1>22, <1>23, <1>24, <1>25 DEF Compared

\* What the rules are given has that much in common with what a complete collection
\* would have given them.
LEMMA ViewCompared ==
    ASSUME cluster \in Clusters, NEW s, View(s)
    PROVE  Compared(s, Complete)
<1> DEFINE whole == Collected(cluster, run.ns, {}, {})
           chosen == {p \in whole.pods : NameOf(p) = run.pod}
<1>1. CASE run.mode # "select"
  <2>1. PICK failed \in Failures, page \in FirstPages : s = Collected(cluster, run.ns, failed, page)
    BY <1>1 DEF View, CollectedView
  <2>2. Complete = whole
    BY <1>1 DEF Complete
  <2> QED
    BY <1>1, <2>1, <2>2, CollectedCompared
<1>2. CASE run.mode = "select"
  <2>1. PICK u : /\ CollectedView(u)
                 /\ Available(u, "pods")
                 /\ \E pod \in u.pods : NameOf(pod) = run.pod /\ s = Scope(u, pod)
    BY <1>2 DEF View, NarrowedView
  <2>2. PICK failed \in Failures, page \in FirstPages : u = Collected(cluster, run.ns, failed, page)
    BY <2>1 DEF CollectedView
  <2>3. PICK pod \in u.pods : NameOf(pod) = run.pod /\ s = Scope(u, pod)
    BY <2>1
  <2>4. PartOf(u, whole)
    BY <2>2, CollectedIsPart
  <2>5. u.pods = whole.pods /\ whole.pods \subseteq cluster.pods
    <3>1. "pods" \in NamespacedLists /\ KeyOf("pods") = "pods" /\ "pods" \in ObjectLists
      BY DEF NamespacedLists, KeyOf, ObjectLists, ClusterLists
    <3>2. whole.pods \subseteq {o \in cluster.pods : Visible(run.ns, o)}
      BY <3>1, CollectedNamespaced
    <3> HIDE DEF whole
    <3> QED
      BY <2>1, <2>4, <3>1, <3>2 DEF PartOf
  <2>6. chosen = {pod}
    <3>1. OneOfEachName(cluster.pods)
      BY ClustersAssumption
    <3> HIDE DEF whole
    <3> QED
      BY <2>3, <2>5, <3>1 DEF OneOfEachName
  <2>7. Complete = Scope(whole, CHOOSE p \in chosen : TRUE)
    BY <1>2 DEF Complete
  <2>8. (CHOOSE p \in chosen : TRUE) = pod
    <3> HIDE DEF chosen
    <3> QED
      BY <2>6
  <2> HIDE DEF whole, chosen
  <2> QED
    BY <1>2, <2>1, <2>3, <2>4, <2>7, <2>8, NarrowedCompared
<1> QED
  BY <1>1, <1>2

-----------------------------------------------------------------------------
(* The rules on two snapshots                                               *)

\* Everything is available in the complete collection.
LEMMA WholeIsAvailable ==
    ASSUME NEW s, NEW t, SamePlainLists(s, t)
    PROVE  \A key : Available(t, key) /\ AvailableOrUntracked(t, key)
BY DEF SamePlainLists, Available, AvailableOrUntracked

\* A list that is looked into by name, and that was fetched, gives the same objects.
LEMMA SameLookups ==
    ASSUME NEW s, NEW t, SamePlainLists(s, t), NEW l \in IndexedLists \ {"secrets"}, Available(s, l)
    PROVE  \A name : Found(s, l, name) = Found(t, l, name)
<1>1. l \in PlainLists
  BY DEF IndexedLists, PlainLists
<1>2. s[l] = t[l] /\ s.index = Nothing /\ t.index = Nothing
  BY <1>1 DEF SamePlainLists
<1> QED
  BY <1>2, FoundIs

\* What the references of the Pods lead to is the same.
LEMMA SameDependencies ==
    ASSUME NEW s, NEW t, Compared(s, t), NEW kinds, kinds \subseteq DependencyKinds,
           Available(s, "pods"), \A k \in kinds : Available(s, ListOf(k)),
           \A p \in s.pods : References(p)
    PROVE  DependencyFindings(s, kinds) = DependencyFindings(t, kinds)
<1>1. s.pods = t.pods
  BY DEF Compared, SamePlainLists
<1>2. ASSUME NEW p \in s.pods, NEW d \in MergedDependencies(p, kinds)
      PROVE  DependencyFinding(s, p, d) = DependencyFinding(t, p, d)
  <2>1. d \in PodDependencies(p) /\ d.kind \in kinds
    BY DEF MergedDependencies
  <2>2. Target(s, p, d) = Target(t, p, d)
    <3>1. CASE d.kind = "Secret"
      <4>1. d.name \in ReferencedNames(p, "Secret") /\ Available(s, "secrets")
        BY <2>1, <3>1, ReferencesOfAPod, ListOfKinds
      <4>2. ListOf(d.kind) = "secrets" /\ NamespaceOf(p, d.kind) = p.ns
        BY <3>1, ListOfKinds DEF NamespaceOf
      <4> QED
        BY <4>1, <4>2 DEF Compared, SameSecrets, Target
    <3>2. CASE d.kind # "Secret"
      <4>1. ListOf(d.kind) \in IndexedLists \ {"secrets"} /\ Available(s, ListOf(d.kind))
        <5>1. d.kind \in {"ConfigMap", "PersistentVolumeClaim", "ServiceAccount", "PriorityClass", "RuntimeClass"}
          BY <2>1, <3>2 DEF DependencyKinds, InNamespaceDependencies
        <5> QED
          BY <2>1, <5>1, ListOfKinds DEF IndexedLists
      <4> QED
        BY <4>1, SameLookups DEF Compared, Target
    <3> QED
      BY <3>1, <3>2
  <2>3. ObjectExists(s, p, d) = ObjectExists(t, p, d) /\ KeyExists(s, p, d) = KeyExists(t, p, d)
    BY <2>2 DEF ObjectExists, KeyExists
  <2> QED
    BY <2>3 DEF DependencyFinding
<1>3. ASSUME NEW p \in s.pods
      PROVE  UNION {DependencyFinding(s, p, d) : d \in MergedDependencies(p, kinds)}
                = UNION {DependencyFinding(t, p, d) : d \in MergedDependencies(p, kinds)}
  BY <1>2
<1> QED
  BY <1>1, <1>3 DEF DependencyFindings

\* What is said of the Services a Pod names: never more than on the complete data, and
\* nothing else, but for the names with a dot of Services that only their endpoints keep.
LEMMA SameEnvironment ==
    ASSUME NEW s, NEW t, Compared(s, t), Available(s, "services"), Available(s, "pods"),
           NEW p \in s.pods
    PROVE  /\ EnvServiceFindings(s, p) \subseteq EnvServiceFindings(t, p)
           /\ (run.mode = "select" => Linked(s) \/ ~NamesWithADot(p)) =>
                 EnvServiceFindings(t, p) \subseteq EnvServiceFindings(s, p)
<1> DEFINE values == {h \in p.hosts : h.via = "env" /\ h.place = "app"}
           full == {h \in values : h.form = "fqdn"}
           short == {h \in values : h.form = "short"}
           absent(u) == {Finding("Warning", "ENV_SERVICE_NOT_FOUND", NameOf(p), <<h.ns, h.name>>) :
                            h \in {g \in full : <<g.ns, g.name>> \notin Names(u) /\ u.ns \in {"", g.ns}}}
           ungated(u) == {Finding("Candidate", "STARTUP_NOT_GATED", NameOf(p), <<p.ns, h.name>>) :
                            h \in {g \in short : <<p.ns, g.name>> \in Names(u) /\ ~p.gated}}
           expanded(u) == {Finding("Candidate", "FQDN_SEARCH_EXPANSION", NameOf(p), <<h.ns, h.name>>) :
                            h \in {g \in full : <<g.ns, g.name>> \in Names(u) /\ ~g.dot /\ p.ndots >= 5}}
<1>1. /\ EnvServiceFindings(s, p) = absent(s) \union ungated(s) \union expanded(s)
      /\ EnvServiceFindings(t, p) = absent(t) \union ungated(t) \union expanded(t)
  BY DEF EnvServiceFindings, Names
<1>2. s.ns = t.ns
  BY DEF Compared, SamePlainLists
<1>3. Names(s) \subseteq Names(t)
  BY DEF Compared, FewerObjects, Names
<1>4. \A h \in p.hosts : h.form = "fqdn" => (<<h.ns, h.name>> \in Names(s) <=> <<h.ns, h.name>> \in Names(t))
  BY DEF Compared, SameMentions
<1>5. absent(s) = absent(t)
  <2>1. {g \in full : <<g.ns, g.name>> \notin Names(s) /\ s.ns \in {"", g.ns}}
           = {g \in full : <<g.ns, g.name>> \notin Names(t) /\ t.ns \in {"", g.ns}}
    BY <1>2, <1>4
  <2> QED
    BY <2>1
<1>6. expanded(s) = expanded(t)
  <2>1. {g \in full : <<g.ns, g.name>> \in Names(s) /\ ~g.dot /\ p.ndots >= 5}
           = {g \in full : <<g.ns, g.name>> \in Names(t) /\ ~g.dot /\ p.ndots >= 5}
    BY <1>4
  <2> QED
    BY <2>1
<1>7. ungated(s) \subseteq ungated(t)
  BY <1>3
<1>8. ASSUME run.mode = "select" => Linked(s) \/ ~NamesWithADot(p)
      PROVE  ungated(t) \subseteq ungated(s)
  <2>1. \A h \in p.hosts : h.form = "short" => (<<p.ns, h.name>> \in Names(s) <=> <<p.ns, h.name>> \in Names(t))
    BY <1>8 DEF Compared, SameMentions, NamesWithADot
  <2>2. {g \in short : <<p.ns, g.name>> \in Names(t) /\ ~p.gated}
           \subseteq {g \in short : <<p.ns, g.name>> \in Names(s) /\ ~p.gated}
    BY <2>1
  <2> QED
    BY <2>2
<1> HIDE DEF absent, ungated, expanded
<1>9. EnvServiceFindings(s, p) \subseteq EnvServiceFindings(t, p)
  BY <1>1, <1>5, <1>6, <1>7
<1>10. ASSUME run.mode = "select" => Linked(s) \/ ~NamesWithADot(p)
       PROVE  EnvServiceFindings(t, p) \subseteq EnvServiceFindings(s, p)
  BY <1>1, <1>5, <1>6, <1>8, <1>10
<1> QED
  BY <1>9, <1>10

\* What is said of the ConfigMaps whose values a Pod took when it started.
LEMMA SameRestarts ==
    ASSUME NEW s, NEW t, Compared(s, t), NEW p
    PROVE  /\ RestartFindings(s, p) \subseteq RestartFindings(t, p)
           /\ Available(s, "configmaps") => RestartFindings(s, p) = RestartFindings(t, p)
<1>1. CASE ~Available(s, "configmaps")
  <2>1. RestartFindings(s, p) = {}
    BY <1>1 DEF RestartFindings, Available, AvailableOrUntracked
  <2> QED
    BY <1>1, <2>1
<1>2. CASE Available(s, "configmaps")
  <2>1. \A name : Found(s, "configmaps", name) = Found(t, "configmaps", name)
    BY <1>2, SameLookups DEF IndexedLists, Compared
  <2>2. AvailableOrUntracked(s, "configmaps") /\ AvailableOrUntracked(t, "configmaps")
    BY <1>2, WholeIsAvailable DEF Compared, Available, AvailableOrUntracked
  <2>3. {w \in p.env : /\ w.place = "app" /\ w.kind = "ConfigMap"
                       /\ AvailableOrUntracked(s, "configmaps")
                       /\ \E c \in Found(s, "configmaps", <<p.ns, w.object>>) : \E e \in c.data : e[1] = w.key
                       /\ ~p.tracksConfig}
        = {w \in p.env : /\ w.place = "app" /\ w.kind = "ConfigMap"
                         /\ AvailableOrUntracked(t, "configmaps")
                         /\ \E c \in Found(t, "configmaps", <<p.ns, w.object>>) : \E e \in c.data : e[1] = w.key
                         /\ ~p.tracksConfig}
    BY <2>1, <2>2
  <2>4. RestartFindings(s, p) = RestartFindings(t, p)
    BY <2>3 DEF RestartFindings
  <2> QED
    BY <2>4
<1> QED
  BY <1>1, <1>2

\* The rule on both snapshots.
LEMMA SameRuntime ==
    ASSUME NEW s, NEW t, Compared(s, t), Available(s, "services"), Available(s, "pods")
    PROVE  /\ RuntimeFindings(s) \subseteq RuntimeFindings(t)
           /\ /\ Available(s, "configmaps")
              /\ run.mode = "select" => Linked(s) \/ \A p \in s.pods : ~NamesWithADot(p)
              => RuntimeFindings(t) \subseteq RuntimeFindings(s)
<1>1. s.pods = t.pods
  BY DEF Compared, SamePlainLists
<1>2. \A p \in s.pods : /\ EnvServiceFindings(s, p) \subseteq EnvServiceFindings(t, p)
                        /\ RestartFindings(s, p) \subseteq RestartFindings(t, p)
  BY SameEnvironment, SameRestarts
<1>3. RuntimeFindings(s) \subseteq RuntimeFindings(t)
  BY <1>1, <1>2 DEF RuntimeFindings
<1>4. ASSUME Available(s, "configmaps"),
             run.mode = "select" => Linked(s) \/ \A p \in s.pods : ~NamesWithADot(p)
      PROVE  RuntimeFindings(t) \subseteq RuntimeFindings(s)
  <2>1. \A p \in s.pods : EnvServiceFindings(t, p) \subseteq EnvServiceFindings(s, p)
    BY <1>4, SameEnvironment
  <2>2. \A p \in s.pods : RestartFindings(t, p) = RestartFindings(s, p)
    BY <1>4, SameRestarts
  <2> QED
    BY <1>1, <2>1, <2>2 DEF RuntimeFindings
<1> QED
  BY <1>3, <1>4

\* The selectors are judged on the same Pods.
JudgedAlike(s) == Available(s, "pods") /\ (run.mode = "select" => Available(s, "all_pods"))

\* A Service selects the same Pods, and leaves out the same ones.
LEMMA SameSelected ==
    ASSUME NEW s, NEW t, Compared(s, t), JudgedAlike(s), NEW v \in Services(s)
    PROVE  /\ s.pods = t.pods
           /\ Candidates(s, v) = Candidates(t, v)
           /\ Selected(s, v) = Selected(t, v)
<1>1. Candidates(s, v) = Candidates(t, v)
  BY DEF Compared, SameSelection, JudgedAlike
<1>2. \A u : Selected(u, v) = {p \in Candidates(u, v) : SelectsPod(v, p)}
  BY DEF Selected, Candidates, SelectsPod
<1>3. s.pods = t.pods
  BY DEF Compared, SamePlainLists, JudgedAlike
<1> QED
  BY <1>1, <1>2, <1>3

\* The clients a Service with local traffic cuts off are the same.
LEMMA SameLocalGap ==
    ASSUME NEW s, NEW t, Compared(s, t), JudgedAlike(s), NEW v \in Services(s)
    PROVE  LocalGap(s, v) = LocalGap(t, v)
<1>1. s.pods = t.pods /\ Selected(s, v) = Selected(t, v)
  BY SameSelected
<1> QED
  BY <1>1 DEF LocalGap

\* The owner of a Pod is the same.
LEMMA SameOwner ==
    ASSUME NEW s, NEW t, s.replicasets = t.replicasets, s.controllers = t.controllers
    PROVE  \A p : OwnerOf(s, p) = OwnerOf(t, p)
BY DEF OwnerOf

\* The workloads a selector splits are the same.
LEMMA SameSplit ==
    ASSUME NEW s, NEW t, Compared(s, t), JudgedAlike(s), NEW v \in Services(s),
           Available(s, "replicasets"), Available(s, "controllers")
    PROVE  PartialWorkloads(s, v) = PartialWorkloads(t, v)
<1>1. Selected(s, v) = Selected(t, v) /\ Candidates(s, v) = Candidates(t, v)
  BY SameSelected
<1>2. s.replicasets = t.replicasets /\ s.controllers = t.controllers
  BY DEF Compared, SamePlainLists, PlainLists
<1>3. \A p : OwnerOf(s, p) = OwnerOf(t, p)
  BY <1>2, SameOwner
<1>4. \A p : Related(s, v, p) = Related(t, v, p)
  BY <1>1 DEF Related
<1> DEFINE selected == Selected(t, v)
           missed == Candidates(t, v) \ selected
<1>5. /\ {OwnerOf(s, p) : p \in selected} = {OwnerOf(t, p) : p \in selected}
      /\ {OwnerOf(s, p) : p \in missed} = {OwnerOf(t, p) : p \in missed}
  BY <1>3
<1>6. {p \in missed : OwnerOf(s, p) = Nothing /\ Related(s, v, p)}
         = {p \in missed : OwnerOf(t, p) = Nothing /\ Related(t, v, p)}
  BY <1>3, <1>4
<1> QED
  BY <1>1, <1>5, <1>6 DEF PartialWorkloads

\* The verdict on the selector is the same.
LEMMA SameSelector ==
    ASSUME NEW s, NEW t, Compared(s, t), JudgedAlike(s), NEW v \in Services(s),
           Available(s, "replicasets"), Available(s, "controllers")
    PROVE  SelectorFindings(s, v) = SelectorFindings(t, v)
<1>1. AvailableOrUntracked(s, "pods") /\ AvailableOrUntracked(t, "pods")
  BY WholeIsAvailable DEF Compared, JudgedAlike, Available, AvailableOrUntracked
<1>2. /\ LocalGap(s, v) = LocalGap(t, v) /\ Selected(s, v) = Selected(t, v)
      /\ PartialWorkloads(s, v) = PartialWorkloads(t, v)
  BY SameLocalGap, SameSelected, SameSplit
<1> QED
  BY <1>1, <1>2 DEF SelectorFindings

\* The verdict on the endpoints is the same.
LEMMA SameEndpoints ==
    ASSUME NEW s, NEW t, Compared(s, t), JudgedAlike(s), NEW v \in Services(s), Linked(s)
    PROVE  EndpointFindings(s, v) = EndpointFindings(t, v)
<1>1. s.slices = t.slices /\ s.endpoints = t.endpoints
  BY DEF Compared, SameWhenLinked, Linked
<1>2. /\ EndpointSlicesAuthoritative(s) /\ EndpointSlicesAuthoritative(t)
      /\ EndpointDataAvailable(s) /\ EndpointDataAvailable(t)
      /\ AvailableOrUntracked(s, "pods") /\ AvailableOrUntracked(t, "pods")
  BY WholeIsAvailable DEF Compared, JudgedAlike, Available, AvailableOrUntracked, Linked,
     EndpointSlicesAuthoritative, EndpointDataAvailable
<1>3. Selected(s, v) = Selected(t, v)
  BY SameSelected
<1>4. SliceEndpoints(s, v) = SliceEndpoints(t, v)
  BY <1>1 DEF SliceEndpoints
<1>5. ReadyEndpoints(s, v) = ReadyEndpoints(t, v) /\ FallbackEndpoints(s, v) = FallbackEndpoints(t, v)
  BY <1>2, <1>4 DEF ReadyEndpoints, FallbackEndpoints
<1> QED
  BY <1>2, <1>3, <1>5 DEF EndpointFindings

\* The verdict on a number that no container declares depends on the Pods only.
LEMMA SameNumericTargets ==
    ASSUME NEW s, NEW t, Compared(s, t), JudgedAlike(s), NEW v \in Services(s)
    PROVE  \A q : NumericTargetUndeclared(s, v, q) = NumericTargetUndeclared(t, v, q)
<1>1. Selected(s, v) = Selected(t, v)
  BY SameSelected
<1> QED
  BY <1>1 DEF NumericTargetUndeclared

\* The verdict on the target ports is the same.
LEMMA SamePorts ==
    ASSUME NEW s, NEW t, Compared(s, t), JudgedAlike(s), NEW v \in Services(s), Linked(s)
    PROVE  PortFindings(s, v) = PortFindings(t, v)
<1>1. s.slices = t.slices
  BY DEF Compared, SameWhenLinked, Linked
<1>2. /\ AvailableOrUntracked(s, "pods") /\ AvailableOrUntracked(t, "pods")
      /\ AvailableOrUntracked(s, "endpoint_slices") /\ AvailableOrUntracked(t, "endpoint_slices")
  BY WholeIsAvailable DEF Compared, JudgedAlike, Available, AvailableOrUntracked, Linked
<1>3. Selected(s, v) = Selected(t, v)
  BY SameSelected
<1>4. \A q : SliceResolvesPort(s, v, q) = SliceResolvesPort(t, v, q)
  BY <1>1 DEF SliceResolvesPort
<1>5. \A q : NamedTargetUnresolved(s, v, q) = NamedTargetUnresolved(t, v, q)
  BY <1>2, <1>3, <1>4 DEF NamedTargetUnresolved
<1>6. {q \in v.ports : NamedTargetUnresolved(s, v, q)} = {q \in v.ports : NamedTargetUnresolved(t, v, q)}
  BY <1>5
<1>7. {q \in v.ports : NumericTargetUndeclared(s, v, q)} = {q \in v.ports : NumericTargetUndeclared(t, v, q)}
  BY SameNumericTargets
<1> QED
  BY <1>2, <1>3, <1>6, <1>7 DEF PortFindings

\* The verdict on the target of an alias of the Pod is the same.
LEMMA SameAliasTarget ==
    ASSUME NEW s, NEW t, Compared(s, t), Available(s, "services"), NEW v \in Services(s), v.external,
           run.mode = "select" => \E p \in s.pods : NameOf(v) \in OwnServices(s, p)
    PROVE  ExternalNameTargetMissing(s, v) = ExternalNameTargetMissing(t, v)
<1>1. s.ns = t.ns
  BY DEF Compared, SamePlainLists
<1>2. v.target # Nothing => (v.target \in Names(s) <=> v.target \in Names(t))
  BY DEF Compared, SameAliases
<1> QED
  BY <1>1, <1>2 DEF ExternalNameTargetMissing, Names

\* With everything it declares, and the Pods of every namespace, the rule says the same.
LEMMA SameServices ==
    ASSUME NEW s, NEW t, Compared(s, t), JudgedAlike(s), Linked(s),
           Available(s, "replicasets"), Available(s, "controllers")
    PROVE  ServiceFindings(s) = ServiceFindings(t)
<1>1. s.services = t.services
  BY DEF Compared, SameWhenLinked, Linked
<1>2. Services(s) = Services(t) /\ Names(s) = Names(t)
  BY <1>1, SameServicesSameNames
<1>3. s.ns = t.ns
  BY DEF Compared, SamePlainLists
<1>4. ASSUME NEW v \in Services(s)
      PROVE  ServiceFindingsOf(s, v) = ServiceFindingsOf(t, v)
  <2>1. ExternalNameTargetMissing(s, v) = ExternalNameTargetMissing(t, v)
    BY <1>2, <1>3 DEF ExternalNameTargetMissing, Names
  <2>2. /\ SelectorFindings(s, v) = SelectorFindings(t, v)
        /\ EndpointFindings(s, v) = EndpointFindings(t, v)
        /\ PortFindings(s, v) = PortFindings(t, v)
    BY SameSelector, SameEndpoints, SamePorts
  <2> QED
    BY <2>1, <2>2 DEF ServiceFindingsOf
<1> QED
  BY <1>2, <1>4 DEF ServiceFindings

\* What may be said of a Service on incomplete data only.
OnlyOnIncompleteData(s, f) ==
    \/ f.code \in MayDiffer
    \/ /\ run.mode = "select" /\ ~Available(s, "all_pods")
       /\ f.code \in {"SELECTOR_NO_MATCH", "TARGET_PORT_UNDECLARED"}
    \/ /\ run.mode = "select" /\ f.code = "EXTERNAL_NAME_TARGET_NOT_FOUND"
       /\ \A p \in s.pods : f.object \notin OwnServices(s, p)

\* For one Pod alone no node is found to be cut off.
LEMMA NoGapOfOnePod ==
    ASSUME NEW s, NEW pod, s.pods = {pod}, ~Available(s, "all_pods"), NEW v
    PROVE  ~LocalGap(s, v)
<1>1. SelectorPods(s) = {pod}
  BY DEF SelectorPods, Available, AvailableOrUntracked
<1>2. Selected(s, v) \subseteq {pod}
  BY <1>1 DEF Selected
<1> QED
  BY <1>2 DEF LocalGap

\* On incomplete data nothing else is said of a Service.
LEMMA ServicesInventNothing ==
    ASSUME NEW s, NEW t, Compared(s, t), Available(s, "services"),
           run.mode = "select" => Available(s, "pods") /\ \E pod : s.pods = {pod},
           NEW f \in ServiceFindings(s)
    PROVE  OnlyOnIncompleteData(s, f) \/ f \in ServiceFindings(t)
<1>1. PICK v \in Services(s) : f \in ServiceFindingsOf(s, v)
  BY DEF ServiceFindings
<1>2. v \in Services(t)
  BY DEF Compared, FewerObjects
<1> SUFFICES ASSUME ~OnlyOnIncompleteData(s, f)
             PROVE  f \in ServiceFindingsOf(t, v)
  BY <1>2 DEF ServiceFindings
<1>3. \A key : AvailableOrUntracked(t, key)
  BY WholeIsAvailable DEF Compared
<1>4. CASE v.external
  <2>1. ExternalNameTargetMissing(s, v)
        /\ f = Finding("Warning", "EXTERNAL_NAME_TARGET_NOT_FOUND", NameOf(v), v.target)
    BY <1>1, <1>4 DEF ServiceFindingsOf, When
  <2>2. f.code = "EXTERNAL_NAME_TARGET_NOT_FOUND" /\ f.object = NameOf(v)
    BY <2>1, FindingFields
  <2>3. run.mode = "select" => \E p \in s.pods : NameOf(v) \in OwnServices(s, p)
    BY <2>2 DEF OnlyOnIncompleteData
  <2>4. ExternalNameTargetMissing(t, v)
    BY <1>4, <2>1, <2>3, SameAliasTarget
  <2> QED
    BY <1>4, <2>1, <2>4 DEF ServiceFindingsOf, When
<1>5. CASE ~v.external
  <2>1. v.selector # {}
    BY <1>1, <1>5 DEF ServiceFindingsOf
  <2>2. ServiceFindingsOf(t, v) = SelectorFindings(t, v) \union EndpointFindings(t, v) \union PortFindings(t, v)
           \union When(v.pendingAddress, Finding("Candidate", "LOAD_BALANCER_PENDING", NameOf(v), ""))
    BY <1>5, <2>1 DEF ServiceFindingsOf
  <2>3. f \in SelectorFindings(s, v) \union EndpointFindings(s, v) \union PortFindings(s, v)
           \union When(v.pendingAddress, Finding("Candidate", "LOAD_BALANCER_PENDING", NameOf(v), ""))
    BY <1>1, <1>5, <2>1 DEF ServiceFindingsOf
  <2>4. CASE f \in SelectorFindings(s, v)
    <3>1. AvailableOrUntracked(s, "pods") /\ Available(s, "pods")
      BY <2>4 DEF SelectorFindings, Available, AvailableOrUntracked
    <3>2. CASE LocalGap(s, v) /\ f = Finding("Candidate", "INTERNAL_TRAFFIC_LOCAL_GAP", NameOf(v), "")
      <4>1. JudgedAlike(s)
        BY <3>1, <3>2, NoGapOfOnePod DEF JudgedAlike
      <4>2. LocalGap(t, v)
        BY <3>2, <4>1, SameLocalGap
      <4> QED
        BY <1>3, <2>2, <3>2, <4>2 DEF SelectorFindings, When
    <3>3. CASE Selected(s, v) = {} /\ f = Finding("Warning", "SELECTOR_NO_MATCH", NameOf(v), "")
      <4>1. f.code = "SELECTOR_NO_MATCH"
        <5>1. f = Finding("Warning", "SELECTOR_NO_MATCH", NameOf(v), "")
          BY <3>3
        <5> QED
          BY <5>1 DEF Finding
      <4>2. JudgedAlike(s)
        BY <3>1, <4>1 DEF JudgedAlike, OnlyOnIncompleteData
      <4>3. Selected(t, v) = {}
        BY <3>3, <4>2, SameSelected
      <4> QED
        BY <1>3, <2>2, <3>3, <4>3 DEF SelectorFindings, When
    <3>4. CASE \E owner : f = Finding("Warning", "SELECTOR_PARTIAL_MATCH", NameOf(v), owner)
      <4>1. f.code = "SELECTOR_PARTIAL_MATCH"
        BY <3>4, FindingFields
      <4> QED
        BY <4>1 DEF OnlyOnIncompleteData, MayDiffer
    <3> QED
      BY <2>4, <3>1, <3>2, <3>3, <3>4 DEF SelectorFindings, When
  <2>5. CASE f \in EndpointFindings(s, v)
    <3>1. \/ f = Finding("Warning", "NO_READY_ENDPOINT", NameOf(v), "")
          \/ f = Finding("Warning", "TERMINATING_ENDPOINTS_ONLY", NameOf(v), "")
      BY <2>5 DEF EndpointFindings, When
    <3>2. f.code \in {"NO_READY_ENDPOINT", "TERMINATING_ENDPOINTS_ONLY"}
      <4>1. /\ Finding("Warning", "NO_READY_ENDPOINT", NameOf(v), "").code = "NO_READY_ENDPOINT"
            /\ Finding("Warning", "TERMINATING_ENDPOINTS_ONLY", NameOf(v), "").code = "TERMINATING_ENDPOINTS_ONLY"
        BY DEF Finding
      <4> QED
        BY <3>1, <4>1
    <3> QED
      BY <3>2 DEF OnlyOnIncompleteData, MayDiffer
  <2>6. CASE f \in PortFindings(s, v)
    <3>1. Available(s, "pods") /\ Selected(s, v) # {}
      BY <2>6 DEF PortFindings, Available, AvailableOrUntracked
    <3>2. CASE \E d : f = Finding("Issue", "TARGET_PORT_UNRESOLVED", NameOf(v), d)
      <4>1. f.code = "TARGET_PORT_UNRESOLVED"
        BY <3>2, FindingFields
      <4> QED
        BY <4>1 DEF OnlyOnIncompleteData, MayDiffer
    <3>3. ASSUME NEW q \in v.ports, NumericTargetUndeclared(s, v, q),
                 f = Finding("Candidate", "TARGET_PORT_UNDECLARED", NameOf(v), q.target)
          PROVE  f \in ServiceFindingsOf(t, v)
      <4>1. f.code = "TARGET_PORT_UNDECLARED"
        BY <3>3, FindingFields
      <4>2. JudgedAlike(s)
        BY <3>1, <4>1 DEF JudgedAlike, OnlyOnIncompleteData
      <4>3. NumericTargetUndeclared(t, v, q) /\ Selected(t, v) # {}
        BY <3>1, <3>3, <4>2, SameNumericTargets, SameSelected
      <4>4. f \in PortFindings(t, v)
        BY <1>3, <3>3, <4>3 DEF PortFindings
      <4> QED
        BY <2>2, <4>4
    <3> QED
      BY <2>6, <3>2, <3>3 DEF PortFindings
  <2> QED
    BY <2>2, <2>3, <2>4, <2>5, <2>6
<1> QED
  BY <1>4, <1>5

\* What the rule says of one Ingress.
IngressVerdict(s, i, f) ==
    \/ \E b \in i.backends : /\ AvailableOrUntracked(s, "services")
                             /\ <<i.ns, b>> \notin Names(s)
                             /\ f = Finding("Issue", "MISSING_SERVICE", NameOf(i), b)
    \/ \E u \in i.tls : /\ AvailableOrUntracked(s, "secrets")
                        /\ Found(s, "secrets", <<i.ns, u>>) = {}
                        /\ f = Finding("Issue", "MISSING_TLS_SECRET", NameOf(i), u)
    \/ \E u \in i.tls : /\ AvailableOrUntracked(s, "secrets")
                        /\ \E x \in Found(s, "secrets", <<i.ns, u>>) : ~({"tls.crt", "tls.key"} \subseteq x.keys)
                        /\ f = Finding("Issue", "INVALID_TLS_SECRET", NameOf(i), u)
    \/ /\ AvailableOrUntracked(s, "ingressclasses")
       /\ i.class # "" /\ i.class \notin s.ingressclasses
       /\ f = Finding("Warning", "CLASS_NOT_FOUND", NameOf(i), i.class)
    \/ i.pendingAddress /\ f = Finding("Candidate", "LOAD_BALANCER_PENDING", NameOf(i), "")

\* The rule is its verdicts on the Ingresses.
LEMMA IngressVerdicts ==
    ASSUME NEW s, NEW f
    PROVE  f \in IngressFindings(s) <=> \E i \in s.ingresses : IngressVerdict(s, i, f)
<1> DEFINE of(i) ==
        {Finding("Issue", "MISSING_SERVICE", NameOf(i), b) :
            b \in {c \in i.backends : /\ AvailableOrUntracked(s, "services")
                                      /\ <<i.ns, c>> \notin Names(s)}}
        \union
        {Finding("Issue", "MISSING_TLS_SECRET", NameOf(i), u) :
            u \in {w \in i.tls : /\ AvailableOrUntracked(s, "secrets")
                                 /\ Found(s, "secrets", <<i.ns, w>>) = {}}}
        \union
        {Finding("Issue", "INVALID_TLS_SECRET", NameOf(i), u) :
            u \in {w \in i.tls : /\ AvailableOrUntracked(s, "secrets")
                                 /\ \E x \in Found(s, "secrets", <<i.ns, w>>) :
                                        ~({"tls.crt", "tls.key"} \subseteq x.keys)}}
        \union
        When(/\ AvailableOrUntracked(s, "ingressclasses")
             /\ i.class # "" /\ i.class \notin s.ingressclasses,
             Finding("Warning", "CLASS_NOT_FOUND", NameOf(i), i.class))
        \union
        When(i.pendingAddress, Finding("Candidate", "LOAD_BALANCER_PENDING", NameOf(i), ""))
<1>1. IngressFindings(s) = UNION {of(i) : i \in s.ingresses}
  BY DEF IngressFindings, Names
<1>2. \A i : f \in of(i) <=> IngressVerdict(s, i, f)
  BY DEF IngressVerdict, When
<1> HIDE DEF of
<1> QED
  BY <1>1, <1>2

\* With everything on the way from the Pod to its Ingresses, the rule says the same.
LEMMA SameIngresses ==
    ASSUME NEW s, NEW t, Compared(s, t), Available(s, "ingresses"), Available(s, "services"),
           Available(s, "secrets"), Available(s, "ingressclasses"), run.mode = "select" => Linked(s)
    PROVE  IngressFindings(s) = IngressFindings(t)
<1>1. s.ingresses = t.ingresses /\ s.services = t.services /\ s.secrets = t.secrets
  BY DEF Compared, SameWhenLinked
<1>2. Names(s) = Names(t)
  BY <1>1, SameServicesSameNames
<1>3. s.ingressclasses = t.ingressclasses /\ s.index = Nothing /\ t.index = Nothing
  BY DEF Compared, SamePlainLists, PlainLists
<1>4. \A name : Found(s, "secrets", name) = Found(t, "secrets", name)
  <2>1. "secrets" \in IndexedLists
    BY DEF IndexedLists
  <2>2. \A name : /\ Found(s, "secrets", name) = {o \in s["secrets"] : NameOf(o) = name}
                  /\ Found(t, "secrets", name) = {o \in t["secrets"] : NameOf(o) = name}
    BY <1>3, <2>1, FoundIs
  <2> QED
    BY <1>1, <2>2
<1>5. \A key \in {"services", "secrets", "ingressclasses"} :
         AvailableOrUntracked(s, key) /\ AvailableOrUntracked(t, key)
  BY WholeIsAvailable DEF Compared, Available, AvailableOrUntracked
<1>6. ASSUME NEW i, NEW f
      PROVE  IngressVerdict(s, i, f) <=> IngressVerdict(t, i, f)
  BY <1>2, <1>3, <1>4, <1>5 DEF IngressVerdict
<1>7. \A f : f \in IngressFindings(s) <=> f \in IngressFindings(t)
  BY <1>1, <1>6, IngressVerdicts
<1> QED
  BY <1>7 DEF IngressFindings

\* What may be said of an Ingress on incomplete data only.
OnlyOfTheNarrowedView(f) ==
    /\ run.mode = "select"
    /\ \/ f.code = "MISSING_SERVICE"
       \/ f.code = "MISSING_TLS_SECRET" /\ f.object[1] # run.pod[1]

\* On incomplete data nothing else is said of an Ingress.
LEMMA IngressesInventNothing ==
    ASSUME NEW s, NEW t, Compared(s, t), NEW f \in IngressFindings(s)
    PROVE  OnlyOfTheNarrowedView(f) \/ f \in IngressFindings(t)
<1>1. PICK i \in s.ingresses : IngressVerdict(s, i, f)
  BY IngressVerdicts
<1>2. i \in t.ingresses
  BY DEF Compared, FewerObjects
<1> SUFFICES ASSUME ~OnlyOfTheNarrowedView(f)
             PROVE  IngressVerdict(t, i, f)
  BY <1>2, IngressVerdicts
<1>3. \A key : AvailableOrUntracked(t, key)
  BY WholeIsAvailable DEF Compared
<1>4. s.index = Nothing /\ t.index = Nothing
  BY DEF Compared, SamePlainLists
<1>5. ASSUME NEW b \in i.backends, AvailableOrUntracked(s, "services"), <<i.ns, b>> \notin Names(s),
             f = Finding("Issue", "MISSING_SERVICE", NameOf(i), b)
      PROVE  IngressVerdict(t, i, f)
  <2>1. run.mode # "select"
    BY <1>5 DEF OnlyOfTheNarrowedView, Finding
  <2>2. s.services = t.services
    BY <1>5, <2>1 DEF Compared, SameWhenLinked, Available, AvailableOrUntracked
  <2>3. <<i.ns, b>> \notin Names(t)
    BY <1>5, <2>2, SameServicesSameNames
  <2> QED
    BY <1>3, <1>5, <2>3 DEF IngressVerdict
<1>6. ASSUME NEW u \in i.tls, AvailableOrUntracked(s, "secrets"),
             Found(s, "secrets", <<i.ns, u>>) = {},
             f = Finding("Issue", "MISSING_TLS_SECRET", NameOf(i), u)
      PROVE  IngressVerdict(t, i, f)
  <2>1. f.code = "MISSING_TLS_SECRET" /\ f.object = NameOf(i)
    BY <1>6 DEF Finding
  <2>2. run.mode = "select" => i.ns = run.pod[1]
    BY <2>1, NamespaceOfAName DEF OnlyOfTheNarrowedView
  <2>3. Found(t, "secrets", <<i.ns, u>>) = {}
    BY <1>6, <2>2 DEF Compared, SameSecrets, Available, AvailableOrUntracked
  <2> QED
    BY <1>3, <1>6, <2>3 DEF IngressVerdict
<1>7. ASSUME NEW u \in i.tls, NEW x \in Found(s, "secrets", <<i.ns, u>>),
             ~({"tls.crt", "tls.key"} \subseteq x.keys),
             f = Finding("Issue", "INVALID_TLS_SECRET", NameOf(i), u)
      PROVE  IngressVerdict(t, i, f)
  <2>1. s.secrets \subseteq t.secrets
    BY DEF Compared, FewerObjects
  <2>2. x \in Found(t, "secrets", <<i.ns, u>>)
    BY <1>4, <1>7, <2>1, FoundIs DEF IndexedLists
  <2> QED
    BY <1>3, <1>7, <2>2 DEF IngressVerdict
<1>8. ASSUME AvailableOrUntracked(s, "ingressclasses"), i.class # "", i.class \notin s.ingressclasses,
             f = Finding("Warning", "CLASS_NOT_FOUND", NameOf(i), i.class)
      PROVE  IngressVerdict(t, i, f)
  <2>1. s.ingressclasses = t.ingressclasses
    BY <1>8 DEF Compared, SamePlainLists, PlainLists, Available, AvailableOrUntracked
  <2> QED
    BY <1>3, <1>8, <2>1 DEF IngressVerdict
<1> QED
  BY <1>1, <1>5, <1>6, <1>7, <1>8 DEF IngressVerdict

\* A claim that is judged without the classes would be judged the same with them.
LEMMA ClaimsInventNothing ==
    ASSUME NEW s, NEW t, Compared(s, t), NEW claim
    PROVE  /\ ClaimFinding(s, claim) \subseteq ClaimFinding(t, claim)
           /\ Available(s, "storageclasses") => ClaimFinding(s, claim) = ClaimFinding(t, claim)
<1>1. AvailableOrUntracked(t, "storageclasses")
  BY WholeIsAvailable DEF Compared
<1>2. CASE Available(s, "storageclasses")
  <2>1. s.storageclasses = t.storageclasses /\ AvailableOrUntracked(s, "storageclasses")
    BY <1>2 DEF Compared, SamePlainLists, PlainLists, Available, AvailableOrUntracked
  <2>2. ClaimFinding(s, claim) = ClaimFinding(t, claim)
    BY <1>1, <2>1 DEF ClaimFinding
  <2> QED
    BY <2>2
<1>3. CASE ~Available(s, "storageclasses")
  <2>1. ~AvailableOrUntracked(s, "storageclasses")
    BY <1>3 DEF Available, AvailableOrUntracked
  <2>2. ClaimFinding(s, claim) \subseteq ClaimFinding(t, claim)
    BY <1>1, <2>1 DEF ClaimFinding, When
  <2> QED
    BY <1>3, <2>2
<1> QED
  BY <1>2, <1>3

\* The rule over the claims, on both snapshots.
LEMMA SameStorage ==
    ASSUME NEW s, NEW t, Compared(s, t), Available(s, "pvcs")
    PROVE  /\ StorageFindings(s) \subseteq StorageFindings(t)
           /\ Available(s, "storageclasses") => StorageFindings(s) = StorageFindings(t)
<1>1. s.pvcs = t.pvcs
  BY DEF Compared, SamePlainLists, PlainLists
<1> QED
  BY <1>1, ClaimsInventNothing DEF StorageFindings

\* The rule over the volumes, on both snapshots.
LEMMA SameVolumes ==
    ASSUME NEW s, NEW t, Compared(s, t), Available(s, "pvs")
    PROVE  /\ VolumeFindings(s) \subseteq VolumeFindings(t)
           /\ (run.mode = "select" => Available(s, "pvcs")) => VolumeFindings(s) = VolumeFindings(t)
<1>1. s.pvs \subseteq t.pvs
  BY DEF Compared, FewerObjects
<1>2. (run.mode = "select" => Available(s, "pvcs")) => s.pvs = t.pvs
  BY DEF Compared, SameWhenLinked
<1>3. VolumeFindings(s) \subseteq VolumeFindings(t)
  BY <1>1 DEF VolumeFindings
<1>4. s.pvs = t.pvs => VolumeFindings(s) = VolumeFindings(t)
  BY DEF VolumeFindings
<1> QED
  BY <1>2, <1>3, <1>4

\* The rule over the policies says the same.
LEMMA SamePolicies ==
    ASSUME NEW s, NEW t, Compared(s, t), Available(s, "policies"), Available(s, "pods")
    PROVE  PolicyFindings(s) = PolicyFindings(t)
<1>1. s.policies = t.policies /\ s.pods = t.pods
  BY DEF Compared, SamePlainLists, PlainLists
<1> QED
  BY <1>1 DEF PolicyFindings

\* The rule over the webhooks of a whole cluster says the same.
LEMMA SameWebhooks ==
    ASSUME NEW s, NEW t, Compared(s, t), run.mode # "select", Available(s, "webhooks"),
           Available(s, "services")
    PROVE  WebhookFindings(s, run.ns) = WebhookFindings(t, run.ns)
<1>1. s.webhooks = t.webhooks /\ s.services = t.services
  BY DEF Compared, SamePlainLists, PlainLists, SameWhenLinked
<1>2. {NameOf(v) : v \in Services(s)} = {NameOf(v) : v \in Services(t)}
  BY <1>1 DEF Services
<1> QED
  BY <1>1, <1>2 DEF WebhookFindings

\* What the rule says of one budget.
BudgetVerdict(s, b, f) ==
    LET protectsNothing ==
            /\ AvailableOrUntracked(s, "pods") /\ b.expected = 0
            /\ b.labels # {} /\ {p \in s.pods : p.ns = b.ns} # {}
            /\ Matching(s.pods, b.ns, b.labels) = {}
    IN  IF protectsNothing THEN f = Finding("Warning", "PDB_NO_MATCH", NameOf(b), "")
        ELSE IF b.healthy < b.desired THEN f = Finding("Warning", "HEALTH_BELOW_DESIRED", NameOf(b), "")
        ELSE /\ b.expected > 0 /\ b.allowed = 0
             /\ f = Finding("Candidate", "NO_DISRUPTIONS_ALLOWED", NameOf(b), "")

\* The rule is its verdicts on the budgets.
LEMMA BudgetVerdicts ==
    ASSUME NEW s, NEW f
    PROVE  f \in BudgetFindings(s) <=> \E b \in s.pdbs : b.current /\ BudgetVerdict(s, b, f)
<1> DEFINE inNamespace(b) == {p \in s.pods : p.ns = b.ns}
           protectsNothing(b) ==
              /\ AvailableOrUntracked(s, "pods") /\ b.expected = 0
              /\ b.labels # {} /\ inNamespace(b) # {}
              /\ Matching(s.pods, b.ns, b.labels) = {}
           of(b) ==
              IF protectsNothing(b) THEN {Finding("Warning", "PDB_NO_MATCH", NameOf(b), "")}
              ELSE IF b.healthy < b.desired
              THEN {Finding("Warning", "HEALTH_BELOW_DESIRED", NameOf(b), "")}
              ELSE When(b.expected > 0 /\ b.allowed = 0,
                        Finding("Candidate", "NO_DISRUPTIONS_ALLOWED", NameOf(b), ""))
<1>1. BudgetFindings(s) = UNION {of(b) : b \in {c \in s.pdbs : c.current}}
  BY DEF BudgetFindings
<1>2. \A b : f \in of(b) <=> BudgetVerdict(s, b, f)
  BY DEF BudgetVerdict, When
<1> HIDE DEF of
<1> QED
  BY <1>1, <1>2

\* The rule over the budgets of a whole cluster, on both snapshots.
LEMMA SameBudgets ==
    ASSUME NEW s, NEW t, Compared(s, t), Available(s, "pdbs")
    PROVE  /\ Available(s, "pods") => BudgetFindings(t) \subseteq BudgetFindings(s)
           /\ \A f \in BudgetFindings(s) : f.code = "HEALTH_BELOW_DESIRED" \/ f \in BudgetFindings(t)
<1>1. s.pdbs = t.pdbs /\ AvailableOrUntracked(t, "pods")
  BY WholeIsAvailable DEF Compared, SamePlainLists, PlainLists
<1>2. CASE Available(s, "pods")
  <2>1. s.pods = t.pods /\ AvailableOrUntracked(s, "pods")
    BY <1>2 DEF Compared, SamePlainLists, Available, AvailableOrUntracked
  <2>2. ASSUME NEW b, NEW f
        PROVE  BudgetVerdict(s, b, f) <=> BudgetVerdict(t, b, f)
    BY <1>1, <2>1 DEF BudgetVerdict
  <2>3. \A f : f \in BudgetFindings(s) <=> f \in BudgetFindings(t)
    BY <1>1, <2>2, BudgetVerdicts
  <2> QED
    BY <2>3
<1>3. CASE ~Available(s, "pods")
  <2>1. ASSUME NEW f \in BudgetFindings(s)
        PROVE  f.code = "HEALTH_BELOW_DESIRED" \/ f \in BudgetFindings(t)
    <3>1. PICK b \in s.pdbs : b.current /\ BudgetVerdict(s, b, f)
      BY BudgetVerdicts
    <3>2. ~AvailableOrUntracked(s, "pods")
      BY <1>3 DEF Available, AvailableOrUntracked
    <3>3. CASE b.healthy < b.desired
      <4>1. f = Finding("Warning", "HEALTH_BELOW_DESIRED", NameOf(b), "")
        BY <3>1, <3>2, <3>3 DEF BudgetVerdict
      <4> QED
        BY <4>1 DEF Finding
    <3>4. CASE ~(b.healthy < b.desired)
      <4>1. /\ b.expected > 0 /\ b.allowed = 0
            /\ f = Finding("Candidate", "NO_DISRUPTIONS_ALLOWED", NameOf(b), "")
        BY <3>1, <3>2, <3>4 DEF BudgetVerdict
      <4>2. b.expected # 0
        <5>1. ~(0 > 0)
          OBVIOUS
        <5>2. ASSUME NEW n, n > 0, n = 0
              PROVE  FALSE
          BY <5>1, <5>2, Zenon
        <5> QED
          BY <4>1, <5>2
      <4>3. BudgetVerdict(t, b, f)
        BY <3>4, <4>1, <4>2 DEF BudgetVerdict
      <4> QED
        BY <1>1, <3>1, <4>3, BudgetVerdicts
    <3> QED
      BY <3>3, <3>4
  <2> QED
    BY <1>3, <2>1
<1> QED
  BY <1>2, <1>3

-----------------------------------------------------------------------------

\* The rule over the Gateways and routes of a whole cluster, on both snapshots.
LEMMA SameGateways ==
    ASSUME NEW s, NEW t, Compared(s, t), run.mode # "select", Available(s, "gateways"),
           Available(s, "routes")
    PROVE  /\ GatewayFindings(s) \subseteq GatewayFindings(t)
           /\ Available(s, "services") /\ Available(s, "pods") /\ Available(s, "gatewayclasses")
                 => GatewayFindings(s) = GatewayFindings(t)
<1>1. s.gateways = t.gateways /\ s.routes = t.routes /\ s.ns = t.ns
  BY DEF Compared, SamePlainLists, PlainLists
<1>2. \A key : AvailableOrUntracked(t, key) /\ (AvailableOrUntracked(s, key) <=> Available(s, key))
  BY WholeIsAvailable DEF Compared, Available, AvailableOrUntracked
<1>3. ConditionFindings(s) = ConditionFindings(t)
  BY <1>1 DEF ConditionFindings
<1>4. /\ ClassFindings(s) \subseteq ClassFindings(t)
      /\ Available(s, "gatewayclasses") => ClassFindings(s) = ClassFindings(t)
  <2>1. CASE Available(s, "gatewayclasses")
    <3>1. s.gatewayclasses = t.gatewayclasses
      BY <2>1 DEF Compared, SamePlainLists, PlainLists
    <3>2. ClassFindings(s) = ClassFindings(t)
      BY <1>1, <1>2, <2>1, <3>1 DEF ClassFindings
    <3> QED
      BY <3>2
  <2>2. CASE ~Available(s, "gatewayclasses")
    <3>1. ClassFindings(s) = {}
      BY <1>2, <2>2 DEF ClassFindings
    <3> QED
      BY <2>2, <3>1
  <2> QED
    BY <2>1, <2>2
<1>5. \A r : ParentFindings(s, r) = ParentFindings(t, r)
  BY <1>1 DEF ParentFindings, InScope
<1>6. ASSUME Available(s, "services"), NEW r
      PROVE  BackendFindings(s, r) = BackendFindings(t, r)
  <2>1. s.services = t.services
    BY <1>6 DEF Compared, SameWhenLinked
  <2>2. {NameOf(v) : v \in Services(s)} = {NameOf(v) : v \in Services(t)}
    BY <2>1 DEF Services
  <2> QED
    BY <1>1, <2>2 DEF BackendFindings, InScope
<1>7. ASSUME Available(s, "services"), Available(s, "pods"), NEW r
      PROVE  PathFindings(s, r) = PathFindings(t, r)
  <2>1. s.services = t.services /\ s.pods = t.pods
    BY <1>7 DEF Compared, SameWhenLinked, SamePlainLists
  <2>2. \A b : ServedPaths(s, b) = ServedPaths(t, b)
    BY <2>1 DEF ServedPaths, Services
  <2>3. \A b : InScope(s, b) = InScope(t, b)
    BY <1>1 DEF InScope
  <2> DEFINE accepts(x, path) == x.matches = {} \/ \E m \in x.matches : PathAccepts(m, path)
             mismatched(u, x, b) ==
                /\ ~x.rewrites /\ ~x.regular
                /\ InScope(u, b[1])
                /\ ServedPaths(u, b) # {}
                /\ \A path \in ServedPaths(u, b) : ~accepts(x, path)
             of(u, x) == {Finding("Candidate", "PATH_BACKEND_MISMATCH", NameOf(r), b) :
                             b \in {c \in x.backends : mismatched(u, x, c)}}
  <2>4. PathFindings(s, r) = UNION {of(s, x) : x \in r.rules} /\ PathFindings(t, r) = UNION {of(t, x) : x \in r.rules}
    BY DEF PathFindings
  <2>5. ASSUME NEW x, NEW c
        PROVE  mismatched(s, x, c) <=> mismatched(t, x, c)
    BY <2>2, <2>3
  <2>6. \A x : of(s, x) = of(t, x)
    <3> HIDE DEF mismatched
    <3> QED
      BY <2>5
  <2> HIDE DEF of
  <2> QED
    BY <2>4, <2>6
<1> DEFINE part(u, r) ==
        ParentFindings(u, r)
            \union (IF AvailableOrUntracked(u, "services") THEN BackendFindings(u, r) ELSE {})
            \union (IF AvailableOrUntracked(u, "services") /\ AvailableOrUntracked(u, "pods")
                    THEN PathFindings(u, r) ELSE {})
<1>8. \A u : GatewayFindings(u) = ClassFindings(u) \union ConditionFindings(u) \union UNION {part(u, r) : r \in u.routes}
  BY DEF GatewayFindings
<1>9. \A r : part(s, r) \subseteq part(t, r)
  BY <1>2, <1>5, <1>6, <1>7
<1>10. Available(s, "services") /\ Available(s, "pods") => \A r : part(s, r) = part(t, r)
  BY <1>2, <1>5, <1>6, <1>7
<1> HIDE DEF part
<1>11. GatewayFindings(s) \subseteq GatewayFindings(t)
  BY <1>1, <1>3, <1>4, <1>8, <1>9
<1>12. Available(s, "services") /\ Available(s, "pods") /\ Available(s, "gatewayclasses")
          => GatewayFindings(s) = GatewayFindings(t)
  BY <1>1, <1>3, <1>4, <1>8, <1>10
<1> QED
  BY <1>11, <1>12

\* A set of positions that is not empty has a last one.
LEMMA LastExists ==
    ASSUME NEW n \in Nat
    PROVE  \A S \in SUBSET (1..n) : S = {} \/ \E m \in S : \A k \in S : k <= m
<1> DEFINE T == {i \in Nat : \A S \in SUBSET (1..i) : S = {} \/ \E m \in S : \A k \in S : k <= m}
<1>1. 0 \in T
  OBVIOUS
<1>2. ASSUME NEW i \in Nat, i \in T
      PROVE  i + 1 \in T
  <2> SUFFICES ASSUME NEW S \in SUBSET (1..(i + 1)), S # {}
               PROVE  \E m \in S : \A k \in S : k <= m
    OBVIOUS
  <2>1. CASE i + 1 \in S
    <3>1. \A k \in S : k <= i + 1
      OBVIOUS
    <3> QED
      BY <2>1, <3>1
  <2>2. CASE i + 1 \notin S
    <3>1. S \in SUBSET (1..i)
      BY <2>2
    <3> QED
      BY <1>2, <3>1
  <2> QED
    BY <2>1, <2>2
<1>3. Nat \subseteq T
  <2> HIDE DEF T
  <2> QED
    BY <1>1, <1>2, InductionOverNat
<1> QED
  BY <1>3

\* The container and the name of a variable that a source supplies.
Variable(supply) == <<supply[1], supply[2]>>

\* The env entries that beat the sources of the environment.
Explicit(pod, i, supply) ==
    {v \in pod.env : v.container = pod.envFrom[i].container /\ v.name = Variable(supply)}

\* The sources that come after position i in the container and set the variable again.
LaterSources(s, pod, i, supply) ==
    {j \in DOMAIN pod.envFrom :
        /\ j > i
        /\ pod.envFrom[j].container = pod.envFrom[i].container
        /\ \E x \in Supplies(s, pod, pod.envFrom[j]) : Variable(x) = Variable(supply)}

\* The last of some positions.
LastOf(positions) == CHOOSE j \in positions : \A k \in positions : k <= j

\* The last source gives the variable another value.
Overruled(s, pod, i, supply) ==
    LET later == LaterSources(s, pod, i, supply)
    IN  /\ later # {}
        /\ \E x \in Supplies(s, pod, pod.envFrom[LastOf(later)]) :
              Variable(x) = Variable(supply) /\ x[3] # supply[3]

\* Shadowed, with its parts named.
LEMMA ShadowedIs ==
    ASSUME NEW s, NEW pod, NEW i, NEW supply
    PROVE  Shadowed(s, pod, i, supply) <=>
              IF Explicit(pod, i, supply) # {}
              THEN \E v \in Explicit(pod, i, supply) : v.kind # "value" \/ v.value # supply[3]
              ELSE Overruled(s, pod, i, supply)
BY DEF Shadowed, Explicit, LaterSources, LastOf, Overruled, Variable

\* What the sources of a Pod set, on both snapshots; the value of a Secret is not known.
LEMMA SameSupplies ==
    ASSUME NEW s, NEW t, Compared(s, t), Available(s, "configmaps"), NEW p, References(p),
           NEW i \in DOMAIN p.envFrom
    PROVE  /\ p.envFrom[i].kind \in {"ConfigMap", "Secret"}
           /\ p.envFrom[i].kind = "ConfigMap" =>
                 Supplies(s, p, p.envFrom[i]) = Supplies(t, p, p.envFrom[i])
           /\ p.envFrom[i].kind = "Secret" =>
                 /\ Supplies(s, p, p.envFrom[i]) \subseteq Supplies(t, p, p.envFrom[i])
                 /\ \A x \in Supplies(t, p, p.envFrom[i]) : x[3] = "unknown"
           /\ Available(s, "secrets") /\ p \in s.pods /\ Available(s, "pods") =>
                 Supplies(s, p, p.envFrom[i]) = Supplies(t, p, p.envFrom[i])
<1> DEFINE f == p.envFrom[i]
<1>1. f \in ToSet(p.envFrom)
  BY DEF ToSet
<1>2. f.kind \in {"ConfigMap", "Secret"}
  BY <1>1 DEF References
<1> HIDE DEF f
<1>3. ASSUME f.kind = "ConfigMap"
      PROVE  Supplies(s, p, f) = Supplies(t, p, f)
  <2>1. \A name : Found(s, "configmaps", name) = Found(t, "configmaps", name)
    BY SameLookups DEF IndexedLists, Compared
  <2>2. ListOf(f.kind) = "configmaps"
    BY <1>3, ListOfKinds
  <2> QED
    BY <2>1, <2>2 DEF Supplies
<1>4. ASSUME f.kind = "Secret"
      PROVE  /\ Supplies(s, p, f) \subseteq Supplies(t, p, f)
             /\ \A x \in Supplies(t, p, f) : x[3] = "unknown"
             /\ Available(s, "secrets") /\ p \in s.pods /\ Available(s, "pods")
                   => Supplies(s, p, f) = Supplies(t, p, f)
  <2>1. ListOf(f.kind) = "secrets" /\ f.kind # "ConfigMap"
    BY <1>4, ListOfKinds
  <2> DEFINE objects(u) == Found(u, "secrets", <<p.ns, f.object>>)
             set(u) == UNION {{<<f.prefix, k, "unknown">> : k \in o.keys} : o \in objects(u)}
  <2>2. Supplies(s, p, f) = set(s) /\ Supplies(t, p, f) = set(t)
    BY <2>1 DEF Supplies
  <2>3. objects(s) \subseteq objects(t)
    <3>1. s.index = Nothing /\ t.index = Nothing /\ s.secrets \subseteq t.secrets /\ "secrets" \in IndexedLists
      BY DEF Compared, SamePlainLists, FewerObjects, IndexedLists
    <3>2. /\ objects(s) = {o \in s["secrets"] : NameOf(o) = <<p.ns, f.object>>}
          /\ objects(t) = {o \in t["secrets"] : NameOf(o) = <<p.ns, f.object>>}
      BY <3>1, FoundIs
    <3> QED
      BY <3>1, <3>2
  <2>4. ASSUME Available(s, "secrets"), p \in s.pods, Available(s, "pods")
        PROVE  objects(s) = objects(t)
    <3>1. f.object \in ReferencedNames(p, "Secret")
      BY <1>1, <1>4 DEF ReferencedNames
    <3> QED
      BY <2>4, <3>1 DEF Compared, SameSecrets
  <2>5. \A x \in set(t) : x[3] = "unknown"
    OBVIOUS
  <2>6. objects(s) = objects(t) => set(s) = set(t)
    OBVIOUS
  <2>7. set(s) \subseteq set(t)
    BY <2>3
  <2> HIDE DEF set, objects
  <2> QED
    BY <2>2, <2>4, <2>5, <2>6, <2>7
<1> QED
  BY <1>2, <1>3, <1>4 DEF f

\* A value that is shadowed as far as could be read is shadowed: what a source that could
\* not be read sets comes last or does not matter.
LEMMA ShadowedStays ==
    ASSUME NEW s, NEW t, Compared(s, t), Available(s, "configmaps"), NEW p, References(p),
           NEW i, NEW y, y[3] # "unknown", Shadowed(s, p, i, y)
    PROVE  Shadowed(t, p, i, y)
<1>1. CASE Explicit(p, i, y) # {}
  BY <1>1, ShadowedIs
<1>2. CASE Explicit(p, i, y) = {}
  <2> DEFINE few == LaterSources(s, p, i, y)
             many == LaterSources(t, p, i, y)
             n == Len(p.envFrom)
  <2>1. Overruled(s, p, i, y)
    BY <1>2, ShadowedIs
  <2>2. few \subseteq many
    <3>1. \A j \in DOMAIN p.envFrom : Supplies(s, p, p.envFrom[j]) \subseteq Supplies(t, p, p.envFrom[j])
      BY SameSupplies
    <3> QED
      BY <3>1 DEF LaterSources
  <2>3. n \in Nat /\ DOMAIN p.envFrom = 1..n
    BY DEF References
  <2>4. many \in SUBSET (1..n) /\ few \in SUBSET (1..n) /\ few # {} /\ many # {}
    BY <2>1, <2>2, <2>3 DEF LaterSources, Overruled
  <2>5. \E m \in few : \A k \in few : k <= m
    BY <2>3, <2>4, LastExists
  <2>6. \E m \in many : \A k \in many : k <= m
    BY <2>3, <2>4, LastExists
  <2>7. LastOf(few) \in few /\ \A k \in few : k <= LastOf(few)
    <3> HIDE DEF few
    <3> QED
      BY <2>5 DEF LastOf
  <2>8. LastOf(many) \in many /\ \A k \in many : k <= LastOf(many)
    <3> HIDE DEF many
    <3> QED
      BY <2>6 DEF LastOf
  <2>9. PICK m \in many : m = LastOf(many)
    BY <2>8
  <2>10. m \in DOMAIN p.envFrom
    BY <2>9 DEF LaterSources
  <2>11. \E x \in Supplies(t, p, p.envFrom[m]) : Variable(x) = Variable(y) /\ x[3] # y[3]
    <3>1. CASE p.envFrom[m].kind = "Secret"
      <4>1. PICK x \in Supplies(t, p, p.envFrom[m]) : Variable(x) = Variable(y)
        BY <2>9 DEF LaterSources
      <4>2. x[3] = "unknown"
        BY <2>10, <3>1, <4>1, SameSupplies
      <4> QED
        BY <4>1, <4>2
    <3>2. CASE p.envFrom[m].kind = "ConfigMap"
      <4>1. Supplies(s, p, p.envFrom[m]) = Supplies(t, p, p.envFrom[m])
        BY <2>10, <3>2, SameSupplies
      <4>2. m \in few
        BY <2>9, <4>1 DEF LaterSources
      <4>3. LastOf(few) = m
        <5>1. LastOf(few) <= m /\ m <= LastOf(few)
          BY <2>2, <2>7, <2>8, <2>9, <4>2
        <5>2. LastOf(few) \in Nat /\ m \in Nat
          BY <2>4, <2>7, <4>2
        <5> HIDE DEF few
        <5> QED
          BY <5>1, <5>2
      <4>4. \E x \in Supplies(s, p, p.envFrom[m]) : Variable(x) = Variable(y) /\ x[3] # y[3]
        BY <2>1, <4>3 DEF Overruled
      <4> QED
        BY <4>1, <4>4
    <3> QED
      BY <2>10, <3>1, <3>2, SameSupplies
  <2>12. Overruled(t, p, i, y)
    BY <2>4, <2>9, <2>11 DEF Overruled
  <2> QED
    BY <1>2, <2>12, ShadowedIs
<1> QED
  BY <1>1, <1>2

\* With the Secrets as well, the same values are shadowed.
LEMMA SameShadowed ==
    ASSUME NEW s, NEW t, Compared(s, t), Available(s, "configmaps"), Available(s, "secrets"),
           Available(s, "pods"), NEW p \in s.pods, References(p), NEW i, NEW y
    PROVE  Shadowed(s, p, i, y) <=> Shadowed(t, p, i, y)
<1>1. \A j \in DOMAIN p.envFrom : Supplies(s, p, p.envFrom[j]) = Supplies(t, p, p.envFrom[j])
  BY SameSupplies
<1>2. LaterSources(s, p, i, y) = LaterSources(t, p, i, y)
  BY <1>1 DEF LaterSources
<1>3. ASSUME LaterSources(t, p, i, y) # {}
      PROVE  LastOf(LaterSources(t, p, i, y)) \in DOMAIN p.envFrom
  <2> DEFINE many == LaterSources(t, p, i, y)
             n == Len(p.envFrom)
  <2>1. n \in Nat /\ DOMAIN p.envFrom = 1..n
    BY DEF References
  <2>2. many \in SUBSET (1..n)
    BY <2>1 DEF LaterSources
  <2>3. \E m \in many : \A k \in many : k <= m
    BY <1>3, <2>1, <2>2, LastExists
  <2>4. LastOf(many) \in many
    <3> HIDE DEF many
    <3> QED
      BY <2>3 DEF LastOf
  <2> QED
    BY <2>1, <2>2, <2>4
<1>4. Overruled(s, p, i, y) <=> Overruled(t, p, i, y)
  BY <1>1, <1>2, <1>3 DEF Overruled
<1> QED
  BY <1>4, ShadowedIs

\* What is said of the environment of a Pod, on both snapshots.
LEMMA SameShadows ==
    ASSUME NEW s, NEW t, Compared(s, t), Available(s, "configmaps"), Available(s, "pods"),
           NEW p \in s.pods, References(p),
           \A o \in s.configmaps : \A e \in o.data : e[2] # "unknown"
    PROVE  /\ ShadowFindings(s, p) \subseteq ShadowFindings(t, p)
           /\ Available(s, "secrets") => ShadowFindings(s, p) = ShadowFindings(t, p)
<1> DEFINE positions == {j \in DOMAIN p.envFrom : p.envFrom[j].kind = "ConfigMap"}
           of(u, i) == {Finding("Candidate", "ENV_KEY_SHADOWED", <<p.ns, p.envFrom[i].object>>,
                                <<p.name, x[1], x[2]>>) :
                           x \in {y \in Supplies(u, p, p.envFrom[i]) : Shadowed(u, p, i, y)}}
<1>1. \A u : ShadowFindings(u, p) = UNION {of(u, i) : i \in positions}
  BY DEF ShadowFindings
<1>2. \A i \in positions : Supplies(s, p, p.envFrom[i]) = Supplies(t, p, p.envFrom[i])
  BY SameSupplies
<1>3. ASSUME NEW i \in positions, NEW y \in Supplies(s, p, p.envFrom[i])
      PROVE  y[3] # "unknown"
  <2>1. PICK o \in Found(s, "configmaps", <<p.ns, p.envFrom[i].object>>) :
           \E e \in o.data : y = <<p.envFrom[i].prefix, e[1], e[2]>>
    <3>1. ListOf(p.envFrom[i].kind) = "configmaps" /\ p.envFrom[i].kind = "ConfigMap"
      BY <1>3, ListOfKinds
    <3> QED
      BY <1>3, <3>1 DEF Supplies
  <2>2. s.index = Nothing /\ "configmaps" \in IndexedLists
    BY DEF Compared, SamePlainLists, IndexedLists
  <2>3. o \in s["configmaps"]
    BY <2>1, <2>2, FoundIs
  <2> QED
    BY <2>1, <2>3
<1>4. ASSUME NEW i \in positions
      PROVE  of(s, i) \subseteq of(t, i)
  <2>1. \A y \in Supplies(s, p, p.envFrom[i]) : Shadowed(s, p, i, y) => Shadowed(t, p, i, y)
    BY <1>3, ShadowedStays
  <2> QED
    BY <1>2, <2>1
<1>5. ASSUME NEW i \in positions, Available(s, "secrets")
      PROVE  of(s, i) = of(t, i)
  <2>1. \A y : Shadowed(s, p, i, y) <=> Shadowed(t, p, i, y)
    BY <1>5, SameShadowed
  <2> QED
    BY <1>2, <2>1
<1> HIDE DEF of, positions
<1> QED
  BY <1>1, <1>4, <1>5

\* What is said of the mounts of a Pod is the same.
LEMMA SameSubPaths ==
    ASSUME NEW s, NEW t, Compared(s, t), Available(s, "configmaps"), NEW p
    PROVE  SubPathFindings(s, p) = SubPathFindings(t, p)
<1>1. \A name : Found(s, "configmaps", name) = Found(t, "configmaps", name)
  BY SameLookups DEF IndexedLists, Compared
<1>2. {n \in p.mounts :
          /\ n.subPath
          /\ \E v \in p.volumes : /\ v.name = n.volume /\ v.kind = "ConfigMap" /\ ~v.projected
                                  /\ Found(s, "configmaps", <<p.ns, v.object>>) # {}}
      = {n \in p.mounts :
          /\ n.subPath
          /\ \E v \in p.volumes : /\ v.name = n.volume /\ v.kind = "ConfigMap" /\ ~v.projected
                                  /\ Found(t, "configmaps", <<p.ns, v.object>>) # {}}
  BY <1>1
<1> QED
  BY <1>2 DEF SubPathFindings

\* The rule over the ConfigMaps, on both snapshots.
LEMMA SameConfigMaps ==
    ASSUME NEW s, NEW t, Compared(s, t), Available(s, "configmaps"),
           \A p \in s.pods : References(p),
           \A o \in s.configmaps : \A e \in o.data : e[2] # "unknown"
    PROVE  /\ ConfigMapFindings(s) \subseteq ConfigMapFindings(t)
           /\ Available(s, "pods") /\ Available(s, "secrets") => ConfigMapFindings(s) = ConfigMapFindings(t)
<1> DEFINE sizes(u) == {Finding("Warning", "SIZE_NEAR_LIMIT", NameOf(c), "") : c \in {d \in u.configmaps : d.full}}
           pods(u) == UNION {ShadowFindings(u, p) \union SubPathFindings(u, p) : p \in u.pods}
<1>1. \A u : ConfigMapFindings(u) = sizes(u) \union (IF AvailableOrUntracked(u, "pods") THEN pods(u) ELSE {})
  BY DEF ConfigMapFindings
<1>2. s.configmaps = t.configmaps
  BY DEF Compared, SamePlainLists, PlainLists
<1>3. sizes(s) = sizes(t)
  BY <1>2
<1>4. ASSUME Available(s, "pods")
      PROVE  pods(s) \subseteq pods(t) /\ (Available(s, "secrets") => pods(s) = pods(t))
  <2>1. s.pods = t.pods
    BY <1>4 DEF Compared, SamePlainLists
  <2>2. \A p \in s.pods : /\ ShadowFindings(s, p) \subseteq ShadowFindings(t, p)
                          /\ Available(s, "secrets") => ShadowFindings(s, p) = ShadowFindings(t, p)
                          /\ SubPathFindings(s, p) = SubPathFindings(t, p)
    BY <1>4, SameShadows, SameSubPaths
  <2> QED
    BY <2>1, <2>2
<1>5. AvailableOrUntracked(t, "pods") /\ (AvailableOrUntracked(s, "pods") <=> Available(s, "pods"))
  BY WholeIsAvailable DEF Compared, Available, AvailableOrUntracked
<1> HIDE DEF sizes, pods
<1> QED
  BY <1>1, <1>3, <1>4, <1>5

-----------------------------------------------------------------------------
(* All rules                                                                *)

\* What each rule can do without.
LEMMA OptionalInputs ==
    ASSUME NEW i \in 1..13
    PROVE  /\ Rules[i].id = "runtime-dependencies" => {"configmaps"} \subseteq Rules[i].optional
           /\ Rules[i].id = "services" => {"pods", "endpoint_slices", "endpoints", "replicasets", "controllers"} \subseteq Rules[i].optional
           /\ Rules[i].id = "ingress" => {"services", "secrets", "ingressclasses"} \subseteq Rules[i].optional
           /\ Rules[i].id = "gateway-api" => {"gatewayclasses", "services", "pods"} \subseteq Rules[i].optional
           /\ Rules[i].id = "storage" => {"storageclasses"} \subseteq Rules[i].optional
           /\ Rules[i].id = "pdb" => {"pods"} \subseteq Rules[i].optional
           /\ Rules[i].id = "configmaps" => {"pods", "secrets"} \subseteq Rules[i].optional
<1>1. CASE i = 1
  <2>1. Rules[i].id = "dependencies" /\ Rules[i].optional = {}
    BY <1>1 DEF Rules, Metadata
  <2> QED
    BY <2>1
<1>2. CASE i = 2
  <2>1. Rules[i].id = "runtime-dependencies" /\ Rules[i].optional = {"configmaps"}
    BY <1>2 DEF Rules, Metadata
  <2> QED
    BY <2>1
<1>3. CASE i = 3
  <2>1. Rules[i].id = "priority-class-dependencies" /\ Rules[i].optional = {}
    BY <1>3 DEF Rules, Metadata
  <2> QED
    BY <2>1
<1>4. CASE i = 4
  <2>1. Rules[i].id = "runtime-class-dependencies" /\ Rules[i].optional = {}
    BY <1>4 DEF Rules, Metadata
  <2> QED
    BY <2>1
<1>5. CASE i = 5
  <2>1. Rules[i].id = "services" /\ Rules[i].optional = {"pods", "endpoint_slices", "endpoints", "replicasets", "controllers"}
    BY <1>5 DEF Rules, Metadata
  <2> QED
    BY <2>1
<1>6. CASE i = 6
  <2>1. Rules[i].id = "ingress" /\ Rules[i].optional = {"services", "secrets", "ingressclasses"}
    BY <1>6 DEF Rules, Metadata
  <2> QED
    BY <2>1
<1>7. CASE i = 7
  <2>1. Rules[i].id = "gateway-api" /\ Rules[i].optional = {"gatewayclasses", "services", "pods"}
    BY <1>7 DEF Rules, Metadata
  <2> QED
    BY <2>1
<1>8. CASE i = 8
  <2>1. Rules[i].id = "storage" /\ Rules[i].optional = {"storageclasses"}
    BY <1>8 DEF Rules, Metadata
  <2> QED
    BY <2>1
<1>9. CASE i = 9
  <2>1. Rules[i].id = "persistent-volumes" /\ Rules[i].optional = {}
    BY <1>9 DEF Rules, Metadata
  <2> QED
    BY <2>1
<1>10. CASE i = 10
  <2>1. Rules[i].id = "network-policies" /\ Rules[i].optional = {}
    BY <1>10 DEF Rules, Metadata
  <2> QED
    BY <2>1
<1>11. CASE i = 11
  <2>1. Rules[i].id = "webhooks" /\ Rules[i].optional = {}
    BY <1>11 DEF Rules, Metadata
  <2> QED
    BY <2>1
<1>12. CASE i = 12
  <2>1. Rules[i].id = "pdb" /\ Rules[i].optional = {"pods"}
    BY <1>12 DEF Rules, Metadata
  <2> QED
    BY <2>1
<1>13. CASE i = 13
  <2>1. Rules[i].id = "configmaps" /\ Rules[i].optional = {"pods", "secrets"}
    BY <1>13 DEF Rules, Metadata
  <2> QED
    BY <2>1
<1> QED
  BY <1>1, <1>2, <1>3, <1>4, <1>5, <1>6, <1>7, <1>8, <1>9, <1>10, <1>11, <1>12, <1>13

\* The Pods and ConfigMaps of a view are the cluster's; in select mode it has one Pod.
LEMMA ViewObjects ==
    ASSUME cluster \in Clusters, NEW s, View(s)
    PROVE  /\ \A p \in s.pods : References(p)
           /\ \A o \in s.configmaps : \A e \in o.data : e[2] # "unknown"
           /\ run.mode = "select" => Available(s, "pods") /\ \E pod : s.pods = {pod}
<1>1. "configmaps" \in NamespacedLists /\ "pods" \in NamespacedLists
  BY DEF NamespacedLists
<1>2. ASSUME NEW u, CollectedView(u)
      PROVE  DOMAIN u = SnapshotLists /\ u.configmaps \subseteq cluster.configmaps /\ u.pods \subseteq cluster.pods
  <2>1. PICK failed \in Failures, page \in FirstPages : u = Collected(cluster, run.ns, failed, page)
    BY <1>2 DEF CollectedView
  <2>2. DOMAIN u = SnapshotLists
    BY <2>1, CollectedFields DEF SnapshotLists
  <2>3. \A l \in NamespacedLists : u[l] \subseteq {o \in cluster[l] : Visible(run.ns, o)}
    BY <2>1, CollectedNamespaced
  <2> QED
    BY <1>1, <2>2, <2>3
<1>3. /\ \A p \in cluster.pods : References(p)
      /\ \A o \in cluster.configmaps : \A e \in o.data : e[2] # "unknown"
  BY ClustersAssumption
<1>4. CASE run.mode # "select"
  BY <1>2, <1>3, <1>4 DEF View
<1>5. CASE run.mode = "select"
  <2>1. PICK u : /\ CollectedView(u)
                 /\ Available(u, "pods")
                 /\ \E pod \in u.pods : NameOf(pod) = run.pod /\ s = Scope(u, pod)
    BY <1>5 DEF View, NarrowedView
  <2>2. PICK pod \in u.pods : s = Scope(u, pod)
    BY <2>1
  <2>3. ScopeOf(s, u, pod)
    BY <1>2, <2>1, <2>2, ScopeFields
  <2>4. /\ s.pods = {pod} /\ s.failed = u.failed
        /\ s.configmaps = InNamespace(u.configmaps, pod.ns, ReferencedNames(pod, "ConfigMap"))
    BY <2>3 DEF ScopeOf
  <2>5. s.configmaps \subseteq cluster.configmaps /\ s.pods \subseteq cluster.pods
    BY <1>2, <2>1, <2>2, <2>4 DEF InNamespace
  <2>6. Available(s, "pods")
    BY <2>1, <2>4 DEF Available
  <2> QED
    BY <1>3, <2>4, <2>5, <2>6
<1> QED
  BY <1>4, <1>5

\* The rules whose findings depend on nothing but what they require.
LEMMA SameVerdicts ==
    ASSUME cluster \in Clusters, View(snapshot), NEW i \in 1..13, run.mode \in Rules[i].modes,
           Unavailable(Rules[i], snapshot) = {},
           Rules[i].id \in {"dependencies", "priority-class-dependencies", "runtime-class-dependencies",
                            "network-policies", "webhooks"}
    PROVE  Evaluate(Rules[i].id, snapshot) = Evaluate(Rules[i].id, Complete)
<1> DEFINE id == Rules[i].id
<1>1. \A k \in Rules[i].required : Available(snapshot, k)
  BY RequiredInputs
<1>2. Compared(snapshot, Complete)
  BY ViewCompared
<1>3. \A p \in snapshot.pods : References(p)
  BY ViewObjects
<1>4. CASE id = "dependencies"
  <2>1. \A k \in InNamespaceDependencies : Available(snapshot, ListOf(k))
    BY <1>1, <1>4, RequiredInputs, ListOfKinds DEF InNamespaceDependencies
  <2>2. InNamespaceDependencies \subseteq DependencyKinds /\ Available(snapshot, "pods")
    BY <1>1, <1>4, RequiredInputs DEF DependencyKinds
  <2>3. DependencyFindings(snapshot, InNamespaceDependencies) = DependencyFindings(Complete, InNamespaceDependencies)
    BY <1>2, <1>3, <2>1, <2>2, SameDependencies
  <2> QED
    BY <1>4, <2>3 DEF Evaluate
<1>5. CASE id = "priority-class-dependencies"
  <2>1. \A k \in {"PriorityClass"} : Available(snapshot, ListOf(k))
    BY <1>1, <1>5, RequiredInputs, ListOfKinds
  <2>2. {"PriorityClass"} \subseteq DependencyKinds /\ Available(snapshot, "pods")
    BY <1>1, <1>5, RequiredInputs DEF DependencyKinds
  <2>3. DependencyFindings(snapshot, {"PriorityClass"}) = DependencyFindings(Complete, {"PriorityClass"})
    BY <1>2, <1>3, <2>1, <2>2, SameDependencies
  <2> QED
    BY <1>5, <2>3 DEF Evaluate
<1>6. CASE id = "runtime-class-dependencies"
  <2>1. \A k \in {"RuntimeClass"} : Available(snapshot, ListOf(k))
    BY <1>1, <1>6, RequiredInputs, ListOfKinds
  <2>2. {"RuntimeClass"} \subseteq DependencyKinds /\ Available(snapshot, "pods")
    BY <1>1, <1>6, RequiredInputs DEF DependencyKinds
  <2>3. DependencyFindings(snapshot, {"RuntimeClass"}) = DependencyFindings(Complete, {"RuntimeClass"})
    BY <1>2, <1>3, <2>1, <2>2, SameDependencies
  <2> QED
    BY <1>6, <2>3 DEF Evaluate
<1>7. CASE id = "network-policies"
  <2>1. PolicyFindings(snapshot) = PolicyFindings(Complete)
    BY <1>1, <1>2, <1>7, RequiredInputs, SamePolicies
  <2> QED
    BY <1>7, <2>1 DEF Evaluate
<1>8. CASE id = "webhooks"
  <2>1. run.mode # "select"
    BY <1>8, RequiredInputs DEF WholeCluster
  <2>2. WebhookFindings(snapshot, run.ns) = WebhookFindings(Complete, run.ns)
    BY <1>1, <1>2, <1>8, <2>1, RequiredInputs, SameWebhooks
  <2> QED
    BY <1>8, <2>2 DEF Evaluate
<1> QED
  BY <1>4, <1>5, <1>6, <1>7, <1>8

\* What a complete collection would have shown is shown, when the rule has all it declares.
LEMMA RuleLosesNothing ==
    ASSUME cluster \in Clusters, View(snapshot), NEW i \in 1..13, run.mode \in Rules[i].modes,
           Unavailable(Rules[i], snapshot) = {},
           \A key \in Rules[i].optional : Available(snapshot, key),
           ~(JudgedOnOnePod /\ Rules[i].id = "services"), ~DroppedForALink(Rules[i])
    PROVE  Evaluate(Rules[i].id, Complete) \subseteq Evaluate(Rules[i].id, snapshot)
<1> DEFINE id == Rules[i].id
<1>1. \A k \in Rules[i].required : Available(snapshot, k)
  BY RequiredInputs
<1>2. Compared(snapshot, Complete)
  BY ViewCompared
<1>3. /\ \A p \in snapshot.pods : References(p)
      /\ \A o \in snapshot.configmaps : \A e \in o.data : e[2] # "unknown"
  BY ViewObjects
<1>4. id \in Ids
  BY RulesAre
<1>5. CASE id \in {"dependencies", "priority-class-dependencies", "runtime-class-dependencies",
                   "network-policies", "webhooks"}
  BY <1>5, SameVerdicts
<1>6. CASE id = "runtime-dependencies"
  <2>1. /\ Available(snapshot, "services") /\ Available(snapshot, "pods") /\ Available(snapshot, "configmaps")
    BY <1>1, <1>6, RequiredInputs, OptionalInputs
  <2>2. run.mode = "select" => Linked(snapshot) \/ \A p \in snapshot.pods : ~NamesWithADot(p)
    BY <1>6, <2>1 DEF DroppedForALink, Linked
  <2>3. RuntimeFindings(Complete) \subseteq RuntimeFindings(snapshot)
    BY <1>2, <2>1, <2>2, SameRuntime
  <2> QED
    BY <1>6, <2>3 DEF Evaluate
<1>7. CASE id = "services"
  <2>1. /\ Available(snapshot, "services") /\ Available(snapshot, "pods") /\ Available(snapshot, "endpoint_slices")
        /\ Available(snapshot, "endpoints") /\ Available(snapshot, "replicasets")
        /\ Available(snapshot, "controllers")
    BY <1>1, <1>7, RequiredInputs, OptionalInputs
  <2>2. Linked(snapshot) /\ JudgedAlike(snapshot)
    BY <1>7, <2>1 DEF Linked, JudgedAlike, JudgedOnOnePod
  <2>3. ServiceFindings(snapshot) = ServiceFindings(Complete)
    BY <1>2, <2>1, <2>2, SameServices
  <2> QED
    BY <1>7, <2>3 DEF Evaluate
<1>8. CASE id = "ingress"
  <2>1. /\ Available(snapshot, "ingresses") /\ Available(snapshot, "services")
        /\ Available(snapshot, "secrets") /\ Available(snapshot, "ingressclasses")
    BY <1>1, <1>8, RequiredInputs, OptionalInputs
  <2>2. run.mode = "select" => Linked(snapshot)
    BY <1>8, <2>1 DEF DroppedForALink, Linked
  <2>3. IngressFindings(snapshot) = IngressFindings(Complete)
    BY <1>2, <2>1, <2>2, SameIngresses
  <2> QED
    BY <1>8, <2>3 DEF Evaluate
<1>9. CASE id = "gateway-api"
  <2>1. /\ Available(snapshot, "gateways") /\ Available(snapshot, "routes")
        /\ Available(snapshot, "gatewayclasses") /\ Available(snapshot, "services")
        /\ Available(snapshot, "pods")
    BY <1>1, <1>9, RequiredInputs, OptionalInputs
  <2>2. run.mode # "select"
    BY <1>9, RequiredInputs DEF WholeCluster
  <2>3. GatewayFindings(snapshot) = GatewayFindings(Complete)
    BY <1>2, <2>1, <2>2, SameGateways
  <2> QED
    BY <1>9, <2>3 DEF Evaluate
<1>10. CASE id = "storage"
  <2>1. StorageFindings(snapshot) = StorageFindings(Complete)
    BY <1>1, <1>2, <1>10, RequiredInputs, OptionalInputs, SameStorage
  <2> QED
    BY <1>10, <2>1 DEF Evaluate
<1>11. CASE id = "persistent-volumes"
  <2>1. run.mode = "select" => Available(snapshot, "pvcs")
    BY <1>11 DEF DroppedForALink
  <2>2. VolumeFindings(snapshot) = VolumeFindings(Complete)
    BY <1>1, <1>2, <1>11, <2>1, RequiredInputs, SameVolumes
  <2> QED
    BY <1>11, <2>2 DEF Evaluate
<1>12. CASE id = "pdb"
  <2>1. BudgetFindings(Complete) \subseteq BudgetFindings(snapshot)
    BY <1>1, <1>2, <1>12, RequiredInputs, OptionalInputs, SameBudgets
  <2> QED
    BY <1>12, <2>1 DEF Evaluate
<1>13. CASE id = "configmaps"
  <2>1. Available(snapshot, "configmaps") /\ Available(snapshot, "pods") /\ Available(snapshot, "secrets")
    BY <1>1, <1>13, RequiredInputs, OptionalInputs
  <2>2. ConfigMapFindings(snapshot) = ConfigMapFindings(Complete)
    BY <1>2, <1>3, <2>1, SameConfigMaps
  <2> QED
    BY <1>13, <2>2 DEF Evaluate
<1> HIDE DEF id
<1> QED
  BY <1>4, <1>5, <1>6, <1>7, <1>8, <1>9, <1>10, <1>11, <1>12, <1>13 DEF Ids, id

\* What may be reported on incomplete data only.
Excused(f) ==
    \/ f.code \in MayDiffer \/ BeyondTheNarrowedView(f)
    \/ JudgedOnOnePod /\ f.code = "TARGET_PORT_UNDECLARED"

\* What a rule reports without some of its inputs it reports with them as well.
LEMMA RuleInventsNothing ==
    ASSUME cluster \in Clusters, View(snapshot), NEW i \in 1..13, run.mode \in Rules[i].modes,
           Unavailable(Rules[i], snapshot) = {}, NEW f \in Evaluate(Rules[i].id, snapshot)
    PROVE  Excused(f) \/ f \in Evaluate(Rules[i].id, Complete)
<1> DEFINE id == Rules[i].id
<1>1. \A k \in Rules[i].required : Available(snapshot, k)
  BY RequiredInputs
<1>2. Compared(snapshot, Complete)
  BY ViewCompared
<1>3. /\ \A p \in snapshot.pods : References(p)
      /\ \A o \in snapshot.configmaps : \A e \in o.data : e[2] # "unknown"
      /\ run.mode = "select" => Available(snapshot, "pods") /\ \E pod : snapshot.pods = {pod}
  BY ViewObjects
<1>4. id \in Ids
  BY RulesAre
<1>5. CASE id \in {"dependencies", "priority-class-dependencies", "runtime-class-dependencies",
                   "network-policies", "webhooks"}
  BY <1>5, SameVerdicts
<1>6. CASE id = "runtime-dependencies"
  <2>1. RuntimeFindings(snapshot) \subseteq RuntimeFindings(Complete)
    BY <1>1, <1>2, <1>6, RequiredInputs, SameRuntime
  <2> QED
    BY <1>6, <2>1 DEF Evaluate
<1>7. CASE id = "services"
  <2>1. f \in ServiceFindings(snapshot) /\ Available(snapshot, "services")
    BY <1>1, <1>7, RequiredInputs DEF Evaluate
  <2>2. OnlyOnIncompleteData(snapshot, f) \/ f \in ServiceFindings(Complete)
    BY <1>2, <1>3, <2>1, ServicesInventNothing
  <2>3. OnlyOnIncompleteData(snapshot, f) => Excused(f)
    BY DEF OnlyOnIncompleteData, Excused, BeyondTheNarrowedView, JudgedOnOnePod
  <2> QED
    BY <1>7, <2>2, <2>3 DEF Evaluate
<1>8. CASE id = "ingress"
  <2>1. f \in IngressFindings(snapshot)
    BY <1>8 DEF Evaluate
  <2>2. OnlyOfTheNarrowedView(f) \/ f \in IngressFindings(Complete)
    BY <1>2, <2>1, IngressesInventNothing
  <2>3. OnlyOfTheNarrowedView(f) => Excused(f)
    BY DEF OnlyOfTheNarrowedView, Excused, BeyondTheNarrowedView
  <2> QED
    BY <1>8, <2>2, <2>3 DEF Evaluate
<1>9. CASE id = "gateway-api"
  <2>1. run.mode # "select"
    BY <1>9, RequiredInputs DEF WholeCluster
  <2>2. GatewayFindings(snapshot) \subseteq GatewayFindings(Complete)
    BY <1>1, <1>2, <1>9, <2>1, RequiredInputs, SameGateways
  <2> QED
    BY <1>9, <2>2 DEF Evaluate
<1>10. CASE id = "storage"
  <2>1. StorageFindings(snapshot) \subseteq StorageFindings(Complete)
    BY <1>1, <1>2, <1>10, RequiredInputs, SameStorage
  <2> QED
    BY <1>10, <2>1 DEF Evaluate
<1>11. CASE id = "persistent-volumes"
  <2>1. VolumeFindings(snapshot) \subseteq VolumeFindings(Complete)
    BY <1>1, <1>2, <1>11, RequiredInputs, SameVolumes
  <2> QED
    BY <1>11, <2>1 DEF Evaluate
<1>12. CASE id = "pdb"
  <2>1. f.code = "HEALTH_BELOW_DESIRED" \/ f \in BudgetFindings(Complete)
    BY <1>1, <1>2, <1>12, RequiredInputs, SameBudgets DEF Evaluate
  <2> QED
    BY <1>12, <2>1 DEF Evaluate, Excused, MayDiffer
<1>13. CASE id = "configmaps"
  <2>1. ConfigMapFindings(snapshot) \subseteq ConfigMapFindings(Complete)
    BY <1>1, <1>2, <1>3, <1>13, RequiredInputs, SameConfigMaps
  <2> QED
    BY <1>13, <2>1 DEF Evaluate
<1> HIDE DEF id
<1> QED
  BY <1>4, <1>5, <1>6, <1>7, <1>8, <1>9, <1>10, <1>11, <1>12, <1>13 DEF Ids, id

-----------------------------------------------------------------------------
(* A whole diagnosis, on incomplete data and on complete data               *)

\* A rule that misses an input it declares says so.
LEMMA MissingInputsAreAdmitted ==
    ASSUME NEW i, Reported(Rules[i], snapshot) \subseteq findings,
           Unavailable(Rules[i], snapshot) # {}
              \/ \E key \in Rules[i].optional : ~Available(snapshot, key)
    PROVE  Admits(Rules[i])
<1>1. CASE Unavailable(Rules[i], snapshot) # {}
  <2>1. UnavailableFinding(Rules[i]) \in findings
    BY <1>1 DEF Reported
  <2>2. /\ UnavailableFinding(Rules[i]).level = "Unavailable"
        /\ UnavailableFinding(Rules[i]).object = <<"", Rules[i].id>>
    BY DEF UnavailableFinding, Finding
  <2> QED
    BY <2>1, <2>2 DEF Admits
<1>2. CASE Unavailable(Rules[i], snapshot) = {} /\ \E key \in Rules[i].optional : ~Available(snapshot, key)
  <2>1. PICK key \in Rules[i].optional : ~Available(snapshot, key)
    BY <1>2
  <2> DEFINE f == Finding("Unavailable", "PARTIAL_UNAVAILABLE", <<"", Rules[i].id>>, key)
  <2>2. f \in findings
    BY <1>2, <2>1 DEF Reported, PartialFindings
  <2>3. f.level = "Unavailable" /\ f.object = <<"", Rules[i].id>>
    BY DEF Finding
  <2> QED
    BY <2>2, <2>3 DEF Admits
<1> QED
  BY <1>1, <1>2

\* For any cluster, namespace, failed lists and first pages, whatever a complete collection
\* would have shown is shown, or the rule admits what it missed, but for the selectors judged
\* on one Pod and what the narrowing drops for want of a link (Registry.Run, State.AddCheck,
\* scopeSnapshotToSelectedPod).
THEOREM NothingIsLostHolds == Spec => []NothingIsLostSilently
<1>1. ASSUME DiagnosisInv
      PROVE  NothingIsLostSilently
  <2> SUFFICES ASSUME phase = "done", NEW i \in 1..13, run.mode \in Rules[i].modes,
                      ~Admits(Rules[i]), ~(JudgedOnOnePod /\ Rules[i].id = "services"),
                      ~DroppedForALink(Rules[i])
               PROVE  Evaluate(Rules[i].id, Complete) \subseteq findings
    BY RulesAre DEF NothingIsLostSilently
  <2>1. i \in RulesBefore(next) /\ View(snapshot) /\ cluster \in Clusters
    BY <1>1 DEF DiagnosisInv, RulesBefore
  <2>2. Reported(Rules[i], snapshot) \subseteq findings
    BY <1>1, <2>1 DEF DiagnosisInv
  <2>3. Unavailable(Rules[i], snapshot) = {} /\ \A key \in Rules[i].optional : Available(snapshot, key)
    BY <2>2, MissingInputsAreAdmitted
  <2>4. Evaluate(Rules[i].id, Complete) \subseteq Evaluate(Rules[i].id, snapshot)
    BY <2>1, <2>3, RuleLosesNothing
  <2>5. Evaluate(Rules[i].id, snapshot) \subseteq findings
    BY <2>2, <2>3 DEF Reported
  <2> QED
    BY <2>4, <2>5
<1> QED
  BY <1>1, DiagnosisInvHolds, PTL

\* For any cluster, namespace, failed lists and first pages, what is reported on incomplete
\* data is reported on the complete data as well, but for the verdicts that are told from
\* less (the legacy endpoints, the counters of a budget) and those of the narrowed view
\* (the AvailableOrUntracked checks of the rules).
THEOREM HalfAListHolds == Spec => []HalfAListInventsNothing
<1>1. ASSUME DiagnosisInv
      PROVE  HalfAListInventsNothing
  <2> SUFFICES ASSUME phase = "done", NEW f \in findings, f.level # "Unavailable", ~Excused(f)
               PROVE  f \in Verdicts(Complete)
    BY DEF HalfAListInventsNothing, Excused
  <2>1. PICK i \in RulesBefore(next) : f \in Reported(Rules[i], snapshot)
    BY <1>1 DEF DiagnosisInv
  <2>2. i \in 1..13 /\ run.mode \in Rules[i].modes /\ View(snapshot) /\ cluster \in Clusters
    BY <1>1, <2>1 DEF RulesBefore, DiagnosisInv
  <2>3. f # UnavailableFinding(Rules[i])
    <3>1. UnavailableFinding(Rules[i]).level = "Unavailable"
      BY DEF UnavailableFinding, Finding
    <3> QED
      BY <3>1
  <2>4. f \notin PartialFindings(Rules[i], snapshot)
    <3>1. \A o, d : Finding("Unavailable", "PARTIAL_UNAVAILABLE", o, d).level = "Unavailable"
      BY DEF Finding
    <3> QED
      BY <3>1 DEF PartialFindings
  <2>5. f \in Evaluate(Rules[i].id, snapshot) /\ Unavailable(Rules[i], snapshot) = {}
    BY <2>1, <2>3, <2>4 DEF Reported
  <2>6. f \in Evaluate(Rules[i].id, Complete)
    BY <2>2, <2>5, RuleInventsNothing
  <2>7. Rules[i] \in ToSet(Rules)
    BY <2>2, RulesAre DEF ToSet
  <2> QED
    BY <2>2, <2>6, <2>7 DEF Verdicts
<1> QED
  BY <1>1, DiagnosisInvHolds, PTL

==============================================================================
