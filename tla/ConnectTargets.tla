--------------------------- MODULE ConnectTargets ---------------------------
(***************************************************************************)
(* What --connect checks: the targets that internal/connect/connect.go     *)
(* derives from a Pod, its Services and their endpoints.                   *)
(*                                                                         *)
(* A request is a path and the rest of it: scheme, headers and timeout are *)
(* one value, since they always travel together.  A port reference has a   *)
(* name or, when the name is empty, a number.  Port 0 is "no port".        *)
(***************************************************************************)
EXTENDS Naturals, SequencesExt

CONSTANT MaxPort    \* the highest port number, 65535

ASSUME MaxPortAssumption == MaxPort \in Nat \ {0}

ProbeTypes == <<"readinessProbe", "livenessProbe", "startupProbe">>

ValidPort(number) == number \in 1..MaxPort

NoTarget ==
    [group |-> "pod", owner |-> "", probeType |-> "", source |-> "", protocol |-> "tcp",
     port |-> 0, portName |-> "", path |-> "", rest |-> "plain",
     strict |-> FALSE, active |-> FALSE, unavailable |-> FALSE, invalid |-> FALSE]

(***************************************************************************)
(* Ports                                                                   *)
(***************************************************************************)
FirstNamed(ports, name) ==
    LET hits == SelectSeq(ports, LAMBDA p : p.name = name)
    IN  IF hits = <<>> THEN 0 ELSE hits[1].number

ResolvePort(ref, container) ==
    IF ref.name # "" THEN FirstNamed(container.ports, ref.name)
    ELSE IF ValidPort(ref.number) THEN ref.number ELSE 0

Sidecars(pod) == SelectSeq(pod.inits, LAMBDA c : c.sidecar)

PortsOf(containers) ==
    FlattenSeq([i \in DOMAIN containers |->
        [j \in DOMAIN containers[i].ports |->
            [container |-> containers[i].name] @@ containers[i].ports[j]]])

\* Regular containers come first; an ordinary init container serves nothing.
ServicePortContainers(pod) == PortsOf(pod.containers \o Sidecars(pod))

\* A number of 0 stands for "the same as the Service's own port".
ResolveServicePort(servicePort, pod) ==
    LET ref == servicePort.target
        number == IF ref.number = 0 THEN servicePort.port ELSE ref.number
        found == FirstNamed(SelectSeq(ServicePortContainers(pod),
                               LAMBDA p : p.protocol = servicePort.protocol), ref.name)
        port == IF ref.name = "" THEN number ELSE found
    IN  IF ValidPort(port) THEN port ELSE 0

(***************************************************************************)
(* Probes                                                                  *)
(***************************************************************************)
ProbeActive(container, probeType) ==
    /\ container.running
    /\ probeType = "startupProbe" => ~container.started
    /\ probeType # "startupProbe" /\ container.probes["startupProbe"].kind # "none"
          => container.started
    /\ ~container.probes[probeType].delayed

\* An exec or gRPC probe is no connection check.
ProbeTarget(container, probeType, override) ==
    LET probe == container.probes[probeType]
        port == ResolvePort(probe.port, container)
        ready == port # 0 /\ ProbeActive(container, probeType)
        http == probe.kind = "http"
        asked == IF probe.path = "" THEN "/" ELSE probe.path
        path == IF override = "" THEN asked ELSE override
    IN  [NoTarget EXCEPT
            !.owner = container.name, !.probeType = probeType, !.source = "probe",
            !.protocol = probe.kind, !.port = port, !.portName = probe.port.name,
            !.path = IF http THEN path ELSE "", !.rest = probe.rest,
            !.strict = port = 0 \/ ~http \/ path = asked,
            !.active = ready /\ ~probe.host, !.unavailable = ready /\ probe.host,
            !.invalid = port = 0]

Checkable(container) ==
    SelectSeq(ProbeTypes, LAMBDA t : container.probes[t].kind \in {"http", "tcp"})

ProbeTargets(pod, override) ==
    LET containers == Sidecars(pod) \o pod.containers
        Of(c) == [i \in DOMAIN Checkable(c) |-> ProbeTarget(c, Checkable(c)[i], override)]
    IN  FlattenSeq([i \in DOMAIN containers |-> Of(containers[i])])

(***************************************************************************)
(* Ports without a probe, and Services                                     *)
(***************************************************************************)
ApplyExplicitHTTPPath(target, override) ==
    IF override = "" THEN target
    ELSE [target EXCEPT !.protocol = "http", !.path = override, !.strict = TRUE]

TCPTarget(source, owner, port, portName, override) ==
    ApplyExplicitHTTPPath([NoTarget EXCEPT !.source = source, !.owner = owner, !.port = port,
                                           !.portName = portName, !.active = TRUE], override)

\* A port gets a target of its own unless a target for it is already listed.
AddUncovered(targets, target) ==
    IF \E t \in ToSet(targets) : t.port = target.port THEN targets ELSE Append(targets, target)

WithContainerPorts(targets, pod, override) ==
    LET tcp == SelectSeq(ServicePortContainers(pod), LAMBDA p : p.protocol = "TCP")
        Target(p) == TCPTarget("containerPort", p.container, p.number, p.name, override)
    IN  FoldLeft(LAMBDA acc, p : AddUncovered(acc, Target(p)), targets, tcp)

\* The TCP ports of the Services that select the Pod, with the port they reach.
ServicePorts(pod, services) ==
    LET Resolved(s) ==
            [i \in DOMAIN s.ports |->
                [service |-> s.name, protocol |-> s.ports[i].protocol,
                 name |-> s.ports[i].target.name,
                 number |-> ResolveServicePort(s.ports[i], pod)]]
        matching == SelectSeq(services, LAMBDA s : s.selects)
    IN  SelectSeq(FlattenSeq([i \in DOMAIN matching |-> Resolved(matching[i])]),
                  LAMBDA p : p.protocol = "TCP" /\ p.number # 0)

\* Without probes and ports, a Service still says where the Pod should listen.
WithInferredPorts(targets, pod, services, override) ==
    LET Target(p) == TCPTarget("service-inference", p.service, p.number, "", override)
    IN  IF targets # <<>> THEN targets
        ELSE FoldLeft(LAMBDA acc, p : AddUncovered(acc, Target(p)), <<>>,
                      ServicePorts(pod, services))

\* A Service target repeats the request of the first active HTTP probe it meets.
ServiceTarget(servicePort, podTargets, override) ==
    LET plain == [TCPTarget("service", servicePort.service, servicePort.number,
                            servicePort.name, override) EXCEPT !.group = "service"]
        probes == SelectSeq(podTargets, LAMBDA t :
                      /\ t.source = "probe" /\ t.protocol = "http" /\ t.active
                      /\ \/ t.port = servicePort.number
                         \/ servicePort.name # "" /\ t.portName = servicePort.name)
    IN  IF probes = <<>> THEN plain
        ELSE [plain EXCEPT !.probeType = probes[1].probeType, !.protocol = "http",
                           !.path = probes[1].path, !.rest = probes[1].rest,
                           !.strict = probes[1].strict]

TargetsAt(pod, services, override) ==
    LET declared == WithContainerPorts(ProbeTargets(pod, override), pod, override)
        podTargets == WithInferredPorts(declared, pod, services, override)
        ports == ServicePorts(pod, services)
    IN  podTargets \o [i \in DOMAIN ports |-> ServiceTarget(ports[i], podTargets, override)]

(***************************************************************************)
(* The endpoint preflight of CheckSnapshot.  endpoints says which of the   *)
(* two lists could be read, and for which Services each of them names the  *)
(* Pod as ready.                                                           *)
(***************************************************************************)
ServiceHasReadyPodEndpoint(service, endpoints) ==
    IF endpoints.slicesRead THEN service \in endpoints.inSlices
    ELSE endpoints.legacyRead /\ service \in endpoints.inLegacy

Preflight(target, endpoints) ==
    IF /\ endpoints.slicesRead \/ endpoints.legacyRead
       /\ target.group = "service"
       /\ ~ServiceHasReadyPodEndpoint(target.owner, endpoints)
    THEN [target EXCEPT !.active = FALSE, !.unavailable = TRUE]
    ELSE target

CheckedTargets(s) ==
    LET targets == TargetsAt(s.pod, s.services, s.override)
    IN  [i \in DOMAIN targets |-> Preflight(targets[i], s.endpoints)]

(***************************************************************************)
(* Which request a target sends.  Only a Service target may share a        *)
(* result, and only that of a Pod target.                                  *)
(***************************************************************************)
\* Mutant: requests are told apart by what is sent, not by where.
SignatureWithoutPort(target) ==
    <<target.protocol, target.path, target.rest, target.strict>>

CheckSignature(target) ==
    <<target.port, target.protocol, target.path, target.rest, target.strict>>
=============================================================================
