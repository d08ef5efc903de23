---------------------------- MODULE MCPortForward ----------------------------
(***************************************************************************)
(* Pods with a probe on a shared port, with two containers that use one    *)
(* port name, with probes that cannot be checked, and with nothing         *)
(* declared; Services by port name and number; every kind of server.       *)
(***************************************************************************)
EXTENDS PortForward, TLC

Ref(name, number) == [name |-> name, number |-> number]
Port(name, number, protocol) == [name |-> name, number |-> number, protocol |-> protocol]

NoProbe == [kind |-> "none", port |-> Ref("", 0), path |-> "", rest |-> "plain",
            host |-> FALSE, delayed |-> FALSE]
Probe(kind, ref, path) ==
    [NoProbe EXCEPT !.kind = kind, !.port = ref, !.path = path, !.rest = "custom"]
Hosted(probe) == [probe EXCEPT !.host = TRUE]
Delayed(probe) == [probe EXCEPT !.delayed = TRUE]

Container(name, ports, readiness, liveness, startup) ==
    [name |-> name, ports |-> ports, running |-> TRUE, started |-> TRUE, sidecar |-> FALSE,
     probes |-> ("readinessProbe" :> readiness) @@ ("livenessProbe" :> liveness)
                @@ ("startupProbe" :> startup)]
Starting(c) == [c EXCEPT !.started = FALSE]

HTTP(number) == Port("http", number, "TCP")
Ready == Probe("http", Ref("http", 0), "/ready")
Live == Probe("http", Ref("", 1), "/ready")

\* readiness and liveness send the same request; a startup probe that is over
OneContainer ==
    [inits |-> <<>>,
     containers |-> <<Container("api", <<HTTP(1)>>, Ready, Live, Probe("tcp", Ref("", 2), ""))>>]

\* the port name that the probe uses belongs to two containers; a setup container
TwoContainers ==
    [inits |-> <<Container("setup", <<HTTP(3)>>, NoProbe, NoProbe, NoProbe)>>,
     containers |-> <<Container("proxy", <<HTTP(1)>>, NoProbe, NoProbe, NoProbe),
                      Container("api", <<HTTP(2)>>, Ready, NoProbe, NoProbe)>>]

\* a sidecar that is starting, a missing port name, a host, a UDP port
Hindered ==
    [inits |-> <<[Starting(Container("mesh", <<Port("dns", 3, "UDP")>>, Delayed(Live), NoProbe,
                                     Probe("tcp", Ref("", 2), "")))
                     EXCEPT !.sidecar = TRUE]>>,
     containers |-> <<Container("api", <<>>, Probe("tcp", Ref("gone", 0), ""),
                                Hosted(Live), NoProbe)>>]

Bare == [inits |-> <<>>,
         containers |-> <<Container("api", <<>>, NoProbe, NoProbe, NoProbe)>>]

Service(name, ref) ==
    [name |-> name, selects |-> TRUE, ports |-> <<[target |-> ref, port |-> 1, protocol |-> "TCP"]>>]
ByName == Service("web", Ref("http", 0))
ByNumber == Service("web", Ref("", 0))
Other == [Service("other", Ref("", 2)) EXCEPT !.selects = FALSE]
Two == Service("two", Ref("", 2))

Unread == [slicesRead |-> FALSE, legacyRead |-> FALSE, inSlices |-> {}, inLegacy |-> {}]
Agreed == [Unread EXCEPT !.slicesRead = TRUE, !.inSlices = {"web", "two"}]
Stale == [slicesRead |-> TRUE, legacyRead |-> TRUE, inSlices |-> {}, inLegacy |-> {"web"}]
Legacy == [Unread EXCEPT !.legacyRead = TRUE, !.inLegacy = {"web"}]

\* what ports 1 and 2 do
Served == {<<"answers", "closed">>, <<"rejects", "answers">>}
Odd == {<<"redirects", "silent">>, <<"silent", "rejects">>, <<"closed", "redirects">>}

Situation(pod, services, endpoints, override, connectPort, apps) ==
    [pod |-> pod, services |-> services, endpoints |-> endpoints, override |-> override,
     connectPort |-> connectPort, app |-> <<apps[1], apps[2], "closed">>]

MCSituations ==
    {Situation(OneContainer, <<ByName, Other>>, Agreed, o, 1, a) : o \in {"", "/x"}, a \in Served}
    \cup {Situation(OneContainer, <<ByName, Other>>, Stale, "", 0, a) : a \in Odd}
    \cup {Situation(TwoContainers, <<ByName>>, Agreed, "", 2, a) : a \in Served}
    \cup {Situation(Hindered, <<Two>>, e, "", 0, <<"closed", "answers">>) : e \in {Agreed, Unread, Legacy}}
    \cup {Situation(Bare, <<ByNumber, Two>>, e, o, 0, <<"closed", "rejects">>) :
              e \in {Legacy, Agreed}, o \in {"", "/x"}}
=============================================================================
