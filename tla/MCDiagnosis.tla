----------------------------- MODULE MCDiagnosis -----------------------------
(***************************************************************************)
(* Clusters for TLC: a Pod "web" of namespace "shop" that refers to one    *)
(* object of every kind, with every reference resolvable or not, the       *)
(* Services in front of it and behind it, and a second namespace "data".   *)
(***************************************************************************)
EXTENDS Diagnosis

Host(name, ns, form) ==
    [name |-> name, ns |-> ns, form |-> form, dot |-> FALSE, via |-> "env", place |-> "app"]

Env(name, kind, object, key, optional) ==
    [container |-> "main", place |-> "app", name |-> <<"", name>>, kind |-> kind,
     object |-> object, key |-> key, value |-> "1", optional |-> optional]

EnvFrom(kind, object) ==
    [container |-> "main", place |-> "app", kind |-> kind, object |-> object,
     prefix |-> "", optional |-> FALSE]

Volume(name, kind, object, optional) ==
    [name |-> name, kind |-> kind, object |-> object, items |-> {},
     optional |-> optional, projected |-> FALSE]

Port(name, number) == [protocol |-> "TCP", name |-> name, number |-> number]

Pod(ns, name, labels) ==
    [ns |-> ns, name |-> name, uid |-> name, labels |-> labels, hosts |-> {}, ips |-> {name},
     envFrom |-> <<>>, env |-> {}, volumes |-> {}, mounts |-> {}, pullSecrets |-> {},
     serviceAccount |-> "default", priorityClass |-> "", runtimeClass |-> "",
     node |-> "n1", ready |-> TRUE, phase |-> "Running",
     owner |-> [kind |-> "ReplicaSet", name |-> "rs"],
     ports |-> {Port("http", "80")}, probes |-> {}, paths |-> {<<"health">>},
     gated |-> FALSE, ndots |-> 5, tracksConfig |-> FALSE]

Web == [Pod("shop", "web", {<<"app", "web">>, <<"rev", "1">>}) EXCEPT
            !.hosts = {Host("api", "", "short"), Host("alias", "shop", "fqdn"),
                       Host("db", "data", "fqdn"), Host("outer", "shop", "fqdn"),
                       [Host("bare", "", "short") EXCEPT !.dot = TRUE]},
            !.envFrom = <<EnvFrom("ConfigMap", "base"), EnvFrom("ConfigMap", "settings")>>,
            !.env = {Env("MODE", "ConfigMap", "settings", "mode", FALSE),
                     Env("TOKEN", "Secret", "token", "key", TRUE)},
            !.volumes = {Volume("conf", "ConfigMap", "settings", FALSE),
                         Volume("disk", "PersistentVolumeClaim", "disk", FALSE)},
            !.mounts = {[volume |-> "conf", subPath |-> TRUE]},
            !.pullSecrets = {"pull"},
            !.priorityClass = "high"]

Api == [Pod("shop", "api", {<<"app", "api">>}) EXCEPT !.node = "n2"]

Old == [Pod("shop", "old", {<<"app", "web">>, <<"rev", "0">>}) EXCEPT
            !.ports = {Port("http", "80"), Port("alt", "90")}]

Db == Pod("data", "db", {<<"app", "db">>})

Service(ns, name, selector) ==
    [ns |-> ns, name |-> name, external |-> FALSE, target |-> Nothing, selector |-> selector,
     local |-> FALSE, pendingAddress |-> FALSE,
     ports |-> {[name |-> "", protocol |-> "TCP", named |-> TRUE, target |-> "http"]}]

WebService == [Service("shop", "front", {<<"app", "web">>, <<"rev", "1">>}) EXCEPT
                  !.ports = {[name |-> "", protocol |-> "TCP", named |-> TRUE, target |-> "admin"]}]
BothService == [Service("shop", "both", {<<"app", "web">>}) EXCEPT
                   !.ports = {[name |-> "", protocol |-> "TCP", named |-> FALSE, target |-> "90"]}]
ApiService == [Service("shop", "api", {<<"app", "api">>}) EXCEPT !.local = TRUE]
DbService == Service("data", "db", {<<"app", "db">>})
AliasOf(name, target) ==
    [Service("shop", name, {}) EXCEPT !.external = TRUE, !.target = target]

Alias == AliasOf("alias", <<"data", "db">>)
Inner == AliasOf("inner", <<"shop", "backend">>)
Outer == AliasOf("outer", <<"shop", "inner">>)
Backend == Service("shop", "backend", {})
Bare == Service("shop", "bare", {})

Endpoint(name, ready) ==
    [address |-> name, ready |-> ready, serving |-> TRUE, terminating |-> ~ready, ref |-> Nothing]

Slice(name, endpoints) ==
    [ns |-> "shop", name |-> name, service |-> name, endpoints |-> endpoints,
     ports |-> {[name |-> "", protocol |-> "TCP"]}]

Named(ns, name) == [ns |-> ns, name |-> name]

\* A cluster that has, of its optional objects, those in present.
Cluster(present, ready) ==
    LET only(name, objects) == IF name \in present THEN objects ELSE {}
    IN  [pods |-> {Web, Old, Db} \union only("api", {Api}),
         services |-> <<Alias>> \o (IF "api" \in present THEN <<ApiService>> ELSE <<>>)
                          \o (IF "db" \in present THEN <<DbService>> ELSE <<>>)
                          \o <<WebService, Inner, Backend, Outer, Bare, BothService>>,
         slices |-> {Slice(name, {Endpoint("web", ready)}) : name \in {"front", "bare"}},
         endpoints |-> {[ns |-> "shop", name |-> "front",
                         ready |-> IF ready THEN {Endpoint("web", TRUE)} ELSE {},
                         notReady |-> IF ready THEN {} ELSE {Endpoint("web", FALSE)}]},
         ingresses |-> {[ns |-> "shop", name |-> "edge", backends |-> {"front", "api"},
                         tls |-> {"cert"}, class |-> "nginx", pendingAddress |-> TRUE],
                        [ns |-> "shop", name |-> "side", backends |-> {"bare"}, tls |-> {},
                         class |-> "nginx", pendingAddress |-> FALSE],
                        [ns |-> "data", name |-> "inside", backends |-> {"db"},
                         tls |-> {"own"}, class |-> "", pendingAddress |-> FALSE]},
         configmaps |-> {[ns |-> "shop", name |-> "base", data |-> {<<"mode", "slow">>},
                          binary |-> {}, full |-> FALSE]}
                        \union only("settings",
                            {[ns |-> "shop", name |-> "settings", data |-> {<<"mode", "fast">>},
                              binary |-> {"logo"}, full |-> TRUE]}),
         secrets |-> {[ns |-> "shop", name |-> "cert", keys |-> {"tls.crt"}],
                     [ns |-> "data", name |-> "own", keys |-> {"tls.crt", "tls.key"}]}
                     \union only("token", {[ns |-> "shop", name |-> "token", keys |-> {"other"}]}),
         serviceaccounts |-> {Named("shop", "default")},
         policies |-> {[ns |-> "shop", name |-> "allow-api", selector |-> "", old |-> TRUE,
                        labels |-> {<<"app", "web">>}, peers |-> {{<<"app", "api">>}}],
                       [ns |-> "shop", name |-> "around-api", selector |-> "", old |-> TRUE,
                        labels |-> {<<"app", "api">>}, peers |-> {}]},
         pvcs |-> only("disk", {[ns |-> "shop", name |-> "disk", phase |-> "Pending",
                                 class |-> "fast", resizing |-> FALSE, volume |-> "pv1"]}),
         pvs |-> {[name |-> "pv1", phase |-> "Released", old |-> TRUE, claim |-> Nothing]},
         priorityclasses |-> only("high", {Named("", "high")}),
         runtimeclasses |-> {},
         storageclasses |-> only("disk", {[name |-> "fast", waits |-> FALSE]}),
         ingressclasses |-> only("disk", {"nginx"}),
         controllers |-> {[ns |-> "shop", name |-> "web", kind |-> "Deployment",
                           selector |-> {<<"app", "web">>}]},
         replicasets |-> {[ns |-> "shop", name |-> "rs", owner |-> <<"Deployment", "web">>]},
         gateways |-> {[ns |-> "data", name |-> "gw", class |-> "istio", failing |-> {},
                        listeners |-> {[name |-> "a", hostname |-> <<"*", "org">>]}]},
         routes |-> {[ns |-> "shop", name |-> "route", failing |-> {"Accepted"},
                      hostnames |-> {<<"a", "b", "org">>},
                      parents |-> {[gateway |-> <<"data", "gw">>, section |-> ""]},
                      rules |-> {[backends |-> {<<"data", "db">>, <<"shop", "front">>},
                                  matches |-> {[exact |-> FALSE, path |-> <<"api">>]},
                                  rewrites |-> FALSE, regular |-> FALSE]}]},
         gatewayclasses |-> only("high", {"istio"}),
         webhooks |-> {[ns |-> "", name |-> "hook", service |-> <<"data", "db">>, ignores |-> FALSE]},
         pdbs |-> {[ns |-> "shop", name |-> "budget", current |-> TRUE, labels |-> {<<"app", "api">>},
                    expected |-> 0, healthy |-> 0, desired |-> 1, allowed |-> 1]}]

MCClusters ==
    {Cluster(p, r) : p \in SUBSET {"api", "db", "settings", "token", "disk", "high"}, r \in BOOLEAN}

Run(mode, ns, name) == [mode |-> mode, ns |-> ns, pod |-> <<"shop", name>>]

MCRuns == {Run("all", "", ""), Run("triage", "shop", ""), Run("select", "", "web"),
           Run("select", "shop", "web"), Run("select", "shop", "gone")}

MCFailures == {{}, {"pods"}, {"all_pods"}, {"services"}, {"secrets", "endpoint_slices"},
               {"configmaps", "storageclasses", "ingressclasses", "gatewayclasses"},
               {"endpoint_slices", "endpoints"}, {"pvcs"}}

MCFirstPages == {{}, {"web", "front", "base"}}
=============================================================================
