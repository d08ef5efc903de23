---------------------------- MODULE ReferenceRules ----------------------------
(***************************************************************************)
(* The rules that say a referenced object does not exist, does not match   *)
(* or does not reach the container: dependencies, ConfigMaps, values of    *)
(* the environment, Ingresses, claims, volumes, policies, budgets and      *)
(* admission webhooks (internal/rules: dependency.go, configmap.go,        *)
(* runtime_dependency.go, ingress_storage.go, lifecycle_policy.go,         *)
(* policy_api.go, webhook_tls.go).                                         *)
(***************************************************************************)
EXTENDS SnapshotScope

-----------------------------------------------------------------------------
(* References of a Pod. *)

\* The places of a reference in the order podDependencies visits them.
Places == <<"init", "app", "ephemeral", "volume", "imagePullSecrets", "pod">>

Rank(place) == CHOOSE i \in 1..Len(Places) : Places[i] = place

\* An env entry reads the data of a ConfigMap only, a volume also binaryData.
Reference(kind, name, key, place, dataOnly, optional) ==
    [kind |-> kind, name |-> name, key |-> key, place |-> place,
     dataOnly |-> dataOnly, optional |-> optional]

EnvironmentReferences(pod) ==
    {Reference(f.kind, f.object, "", f.place, FALSE, f.optional) : f \in ToSet(pod.envFrom)}
        \union {Reference(v.kind, v.object, v.key, v.place, v.kind = "ConfigMap", v.optional) :
                   v \in {w \in pod.env : w.kind # "value"}}

\* A volume without items refers to the whole object.  The claims of generic
\* ephemeral volumes are not references.
VolumeReferences(pod) ==
    UNION {{Reference(v.kind, v.object, k, "volume", FALSE, v.optional) :
               k \in IF v.items = {} THEN {""} ELSE v.items} :
              v \in {w \in pod.volumes : w.kind # "Ephemeral"}}

\* podDependencies.
PodDependencies(pod) ==
    EnvironmentReferences(pod) \union VolumeReferences(pod)
        \union {Reference("Secret", n, "", "imagePullSecrets", FALSE, FALSE) : n \in pod.pullSecrets}
        \union {Reference("ServiceAccount", pod.serviceAccount, "", "pod", FALSE, FALSE)}
        \union When(pod.priorityClass # "",
                    Reference("PriorityClass", pod.priorityClass, "", "pod", FALSE, FALSE))
        \union When(pod.runtimeClass # "",
                    Reference("RuntimeClass", pod.runtimeClass, "", "pod", FALSE, FALSE))

\* Two references that are reported as one.
SameTarget(a, b) ==
    <<a.kind, a.name, a.key, a.dataOnly>> = <<b.kind, b.name, b.key, b.dataOnly>>

\* A required reference wins over an optional one, and the first over a later one.
Precedes(a, b) ==
    \/ ~a.optional /\ b.optional
    \/ a.optional = b.optional /\ Rank(a.place) < Rank(b.place)

MergedDependencies(pod, kinds) ==
    LET asked == {d \in PodDependencies(pod) : d.kind \in kinds}
    IN  {d \in asked : ~\E e \in asked : SameTarget(d, e) /\ Precedes(e, d)}

ListOf(kind) ==
    CASE kind = "ConfigMap" -> "configmaps"
      [] kind = "Secret" -> "secrets"
      [] kind = "PersistentVolumeClaim" -> "pvcs"
      [] kind = "ServiceAccount" -> "serviceaccounts"
      [] kind = "PriorityClass" -> "priorityclasses"
      [] kind = "RuntimeClass" -> "runtimeclasses"

NamespaceOf(pod, kind) == IF kind \in {"PriorityClass", "RuntimeClass"} THEN "" ELSE pod.ns

Target(s, pod, d) == Found(s, ListOf(d.kind), <<NamespaceOf(pod, d.kind), d.name>>)

KeysFor(object, d) ==
    IF d.kind = "Secret" THEN object.keys
    ELSE {entry[1] : entry \in object.data} \union (IF d.dataOnly THEN {} ELSE object.binary)

\* dependencyExists.
ObjectExists(s, pod, d) == Target(s, pod, d) # {}
KeyExists(s, pod, d) ==
    d.key = "" \/ \E object \in Target(s, pod, d) : d.key \in KeysFor(object, d)

MissingObject(d, object) ==
    CASE d.optional -> Finding("Candidate", "OPTIONAL_OBJECT_MISSING", object, d.kind)
      [] d.place = "imagePullSecrets" ->
             Finding("Warning", "MISSING_IMAGE_PULL_SECRET", object, d.kind)
      [] d.place = "ephemeral" /\ ~d.optional ->
             Finding("Warning", "EPHEMERAL_MISSING_OBJECT", object, d.kind)
      [] OTHER -> Finding("Issue", "MISSING_OBJECT", object, d.kind)

MissingKey(d, object) ==
    CASE d.optional -> Finding("Candidate", "OPTIONAL_KEY_MISSING", object, <<d.kind, d.key>>)
      [] d.place = "ephemeral" /\ ~d.optional ->
             Finding("Warning", "EPHEMERAL_MISSING_KEY", object, <<d.kind, d.key>>)
      [] OTHER -> Finding("Issue", "MISSING_KEY", object, <<d.kind, d.key>>)

\* evaluateDependencies for one reference.
DependencyFinding(s, pod, d) ==
    LET object == <<NamespaceOf(pod, d.kind), d.name>>
    IN  IF ~ObjectExists(s, pod, d) THEN {MissingObject(d, object)}
        ELSE When(~KeyExists(s, pod, d), MissingKey(d, object))

DependencyFindings(s, kinds) ==
    UNION {UNION {DependencyFinding(s, p, d) : d \in MergedDependencies(p, kinds)} : p \in s.pods}

-----------------------------------------------------------------------------
(* ConfigMaps: what never reaches the container. *)

\* containerEnvSupplies of one envFrom source: the variables it sets; the
\* values of a Secret are not known.
Supplies(s, pod, source) ==
    LET objects == Found(s, ListOf(source.kind), <<pod.ns, source.object>>)
    IN  IF source.kind = "ConfigMap"
        THEN UNION {{<<source.prefix, e[1], e[2]>> : e \in o.data} : o \in objects}
        ELSE UNION {{<<source.prefix, k, "unknown">> : k \in o.keys} : o \in objects}

\* envShadowWinner: an env entry beats every envFrom source, otherwise the last
\* source wins; the same value again is no finding.
Shadowed(s, pod, i, supply) ==
    LET source == pod.envFrom[i]
        variable == <<supply[1], supply[2]>>
        explicit == {v \in pod.env : v.container = source.container /\ v.name = variable}
        later == {j \in DOMAIN pod.envFrom :
                     /\ j > i
                     /\ pod.envFrom[j].container = source.container
                     /\ \E x \in Supplies(s, pod, pod.envFrom[j]) : <<x[1], x[2]>> = variable}
        last == Supplies(s, pod, pod.envFrom[CHOOSE j \in later : \A k \in later : k <= j])
    IN  IF explicit # {} THEN \E v \in explicit : v.kind # "value" \/ v.value # supply[3]
        ELSE later # {} /\ \E x \in last : <<x[1], x[2]>> = variable /\ x[3] # supply[3]

\* configMapEnvShadowFindings.
ShadowFindings(s, pod) ==
    UNION {{Finding("Candidate", "ENV_KEY_SHADOWED", <<pod.ns, pod.envFrom[i].object>>,
                    <<pod.name, x[1], x[2]>>) :
               x \in {y \in Supplies(s, pod, pod.envFrom[i]) : Shadowed(s, pod, i, y)}} :
              i \in {j \in DOMAIN pod.envFrom : pod.envFrom[j].kind = "ConfigMap"}}

\* configMapSubPathFindings: a mount by subPath of a ConfigMap that exists.
SubPathFindings(s, pod) ==
    {Finding("Candidate", "SUBPATH_NOT_UPDATED", NameOf(pod), m.volume) :
        m \in {n \in pod.mounts :
                  /\ n.subPath
                  /\ \E v \in pod.volumes :
                         /\ v.name = n.volume /\ v.kind = "ConfigMap" /\ ~v.projected
                         /\ Found(s, "configmaps", <<pod.ns, v.object>>) # {}}}

ConfigMapFindings(s) ==
    {Finding("Warning", "SIZE_NEAR_LIMIT", NameOf(c), "") : c \in {d \in s.configmaps : d.full}}
        \union (IF AvailableOrUntracked(s, "pods")
                THEN UNION {ShadowFindings(s, p) \union SubPathFindings(s, p) : p \in s.pods}
                ELSE {})

-----------------------------------------------------------------------------
(* Values of the environment of the app containers. *)

\* envServiceFindings: only a fully qualified name proves that a Service is
\* absent, and only in a namespace that was collected.
EnvServiceFindings(s, pod) ==
    LET services == {NameOf(v) : v \in Services(s)}
        values == {h \in pod.hosts : h.via = "env" /\ h.place = "app"}
        full == {h \in values : h.form = "fqdn"}
        short == {h \in values : h.form = "short"}
    IN  {Finding("Warning", "ENV_SERVICE_NOT_FOUND", NameOf(pod), <<h.ns, h.name>>) :
            h \in {g \in full : <<g.ns, g.name>> \notin services /\ s.ns \in {"", g.ns}}}
        \union
        {Finding("Candidate", "STARTUP_NOT_GATED", NameOf(pod), <<pod.ns, h.name>>) :
            h \in {g \in short : <<pod.ns, g.name>> \in services /\ ~pod.gated}}
        \union
        {Finding("Candidate", "FQDN_SEARCH_EXPANSION", NameOf(pod), <<h.ns, h.name>>) :
            h \in {g \in full : <<g.ns, g.name>> \in services /\ ~g.dot /\ pod.ndots >= 5}}

\* ENV_RESTART_REQUIRED: the value is there and no annotation of the Pod tracks it.
RestartFindings(s, pod) ==
    {Finding("Candidate", "ENV_RESTART_REQUIRED", <<pod.ns, v.object>>, <<pod.name, v.name>>) :
        v \in {w \in pod.env :
                  /\ w.place = "app" /\ w.kind = "ConfigMap"
                  /\ AvailableOrUntracked(s, "configmaps")
                  /\ \E c \in Found(s, "configmaps", <<pod.ns, w.object>>) :
                         \E e \in c.data : e[1] = w.key
                  /\ ~pod.tracksConfig}}

RuntimeFindings(s) ==
    UNION {EnvServiceFindings(s, p) \union RestartFindings(s, p) : p \in s.pods}

-----------------------------------------------------------------------------
(* Ingresses, claims and volumes. *)

\* MissingService and MissingTLSSecret share one code.
IngressFindings(s) ==
    LET services == {NameOf(v) : v \in Services(s)}
        of(i) ==
            {Finding("Issue", "MISSING_SERVICE", NameOf(i), b) :
                b \in {c \in i.backends : /\ AvailableOrUntracked(s, "services")
                                          /\ <<i.ns, c>> \notin services}}
            \union
            {Finding("Issue", "MISSING_TLS_SECRET", NameOf(i), t) :
                t \in {u \in i.tls : /\ AvailableOrUntracked(s, "secrets")
                                     /\ Found(s, "secrets", <<i.ns, u>>) = {}}}
            \union
            {Finding("Issue", "INVALID_TLS_SECRET", NameOf(i), t) :
                t \in {u \in i.tls : /\ AvailableOrUntracked(s, "secrets")
                                     /\ \E x \in Found(s, "secrets", <<i.ns, u>>) :
                                            ~({"tls.crt", "tls.key"} \subseteq x.keys)}}
            \union
            When(/\ AvailableOrUntracked(s, "ingressclasses")
                 /\ i.class # "" /\ i.class \notin s.ingressclasses,
                 Finding("Warning", "CLASS_NOT_FOUND", NameOf(i), i.class))
            \union
            When(i.pendingAddress, Finding("Candidate", "LOAD_BALANCER_PENDING", NameOf(i), ""))
    IN  UNION {of(i) : i \in s.ingresses}

\* StorageRule: a pending claim is judged only when the classes are known, and
\* waiting for its first consumer is normal.
ClaimFinding(s, claim) ==
    LET classes == {c \in s.storageclasses : c.name = claim.class}
        pending == claim.phase = "Pending"
        unknown == ~AvailableOrUntracked(s, "storageclasses")
        missing == pending /\ ~unknown /\ claim.class # "" /\ classes = {}
        waiting == pending /\ (unknown \/ \E c \in classes : c.waits)
        report(condition, level, code) == When(condition, Finding(level, code, NameOf(claim), ""))
    IN  report(claim.phase = "Bound" /\ claim.resizing, "Warning", "RESIZE_PENDING")
        \union report(claim.phase = "Lost", "Issue", "LOST")
        \union report(missing, "Issue", "STORAGE_CLASS_NOT_FOUND")
        \union report(claim.phase \notin {"Bound", "Lost"} /\ ~missing /\ ~waiting,
                      "Warning", "NOT_BOUND")

StorageFindings(s) == UNION {ClaimFinding(s, c) : c \in s.pvcs}

VolumeFindings(s) ==
    {Finding(CASE v.phase = "Failed" -> "Issue"
               [] v.phase = "Released" -> "Warning"
               [] v.phase = "Pending" -> "Candidate",
             "PV_NOT_USABLE", <<"", v.name>>, v.phase) :
        v \in {w \in s.pvs : w.phase \in {"Failed", "Released"} \/ (w.phase = "Pending" /\ w.old)}}

-----------------------------------------------------------------------------
(* Policies, budgets and webhooks. *)

Matching(pods, namespace, selector) ==
    {p \in pods : p.ns = namespace /\ selector \subseteq p.labels}

\* NetworkPolicyRule: both selectors are matched against the Pods of the
\* snapshot, and peers count only when the policy selects some Pod.
PolicyFindings(s) ==
    LET of(p) ==
            IF p.selector = "invalid"
            THEN {Finding("Unavailable", "SELECTOR_UNAVAILABLE", NameOf(p), "")}
            ELSE IF Matching(s.pods, p.ns, p.labels) = {}
            THEN When(p.old, Finding("Candidate", "POLICY_NO_MATCH", NameOf(p), ""))
            ELSE {Finding("Candidate", "PEER_NO_MATCH", NameOf(p), peer) :
                     peer \in {q \in p.peers : Matching(s.pods, p.ns, q) = {}}}
    IN  UNION {of(p) : p \in s.policies}

\* PDBRule: a budget that protects nothing is reported instead of its counters,
\* but not in a namespace without Pods.  Its selector is one that can be parsed.
BudgetFindings(s) ==
    LET inNamespace(b) == {p \in s.pods : p.ns = b.ns}
        protectsNothing(b) ==
            /\ AvailableOrUntracked(s, "pods") /\ b.expected = 0
            /\ b.labels # {} /\ inNamespace(b) # {}
            /\ Matching(s.pods, b.ns, b.labels) = {}
        of(b) ==
            IF protectsNothing(b) THEN {Finding("Warning", "PDB_NO_MATCH", NameOf(b), "")}
            ELSE IF b.healthy < b.desired
            THEN {Finding("Warning", "HEALTH_BELOW_DESIRED", NameOf(b), "")}
            ELSE When(b.expected > 0 /\ b.allowed = 0,
                      Finding("Candidate", "NO_DISRUPTIONS_ALLOWED", NameOf(b), ""))
    IN  UNION {of(b) : b \in {c \in s.pdbs : c.current}}

\* WebhookRule: outside the namespace of the run a missing Service cannot be told
\* from one that was not collected.
WebhookFindings(s, namespace) ==
    LET missing == {w \in s.webhooks : /\ w.service # Nothing
                                       /\ w.service \notin {NameOf(v) : v \in Services(s)}}
        outside == {w \in missing : namespace \notin {"", w.service[1]}}
    IN  {Finding("Unavailable", "SERVICE_UNVERIFIABLE", <<"", w.name>>, w.service) : w \in outside}
        \union
        {Finding(IF w.ignores THEN "Warning" ELSE "Issue", "WEBHOOK_MISSING_SERVICE",
                 <<"", w.name>>, w.service) : w \in missing \ outside}
=============================================================================
