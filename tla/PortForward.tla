----------------------------- MODULE PortForward -----------------------------
(***************************************************************************)
(* The connection checks of internal/connect/connect.go.  One caller works *)
(* through the targets (checkTargets).  For each it opens a port-forward   *)
(* (forward), which starts two goroutines: the forwarder, which dials the  *)
(* API server and then serves the local port, and a watcher, which closes  *)
(* the stop channel when the context is done.  The caller waits, probes    *)
(* the local port, closes the stop channel too and waits for the forwarder *)
(* for five seconds at most; then it goes on, whatever became of it.       *)
(*                                                                         *)
(* Channels: stop and ready are closed once at most, errors has a buffer   *)
(* of one, done is closed when the forwarder has ended.                    *)
(***************************************************************************)
EXTENDS ConnectTargets, FiniteSets

CONSTANTS
    Situations,     \* Pod, Services, endpoints, options, and what the Pod's ports do
    FirstRandom,    \* the range of random base ports: 10000 and 59999
    LastRandom

\* What a port of the Pod does with a request.
Apps == {"closed", "silent", "answers", "redirects", "rejects"}

\* Random base ports are ports.
ASSUME PortsAssumption == FirstRandom \in 1..MaxPort /\ LastRandom \in Nat

\* What is checked has a port where something is or is not, and is asked in one
\* of two ways: targetsAt resolves ports before it makes a target active.
ASSUME SituationsAssumption ==
    \A s \in Situations :
        LET checks == CheckedTargets(s)
        IN  /\ s.connectPort \in 0..MaxPort
            /\ Len(checks) \in Nat
            /\ DOMAIN checks = 1..Len(checks)
            /\ \A i \in DOMAIN checks : checks[i].active =>
                  /\ checks[i].port \in 1..MaxPort
                  /\ checks[i].protocol \in {"tcp", "http"}
                  /\ s.app[checks[i].port] \in Apps

VARIABLES
    situation,      \* never changes
    targets,        \* what targetsAt and the preflight made of it
    base,           \* first local port
    offset,         \* local ports used so far
    tunnels,        \* one record for every forward, in the order they were opened
    caller,         \* where checkTargets or checkOne is
    verdict,        \* what checkOne has found out so far
    results,
    findings,
    checked,        \* checkedPodTargets: signature -> index of the result
    cancelled       \* ctx.Done()

vars == <<situation, targets, base, offset, tunnels, caller, verdict, results,
          findings, checked, cancelled>>

Callers == {"next", "waiting", "dialing", "reading", "closing", "finished"}
Forwarders == {"dialing", "wedged", "binding", "serving", "reporting", "ended"}
Failures == {"none", "refused", "lost"}
Verdicts == {"none", "unavailable", "failed", "ok", "warned"}
Severities == {"issue", "warning", "unavailable"}

(***************************************************************************)
(* Tunnels                                                                 *)
(***************************************************************************)
NewTunnel(local, remote) ==
    [forwarder |-> "dialing", watching |-> TRUE, stop |-> 0, ready |-> FALSE,
     errors |-> 0, failure |-> "none", local |-> local, remote |-> remote]

Current == Len(tunnels)
Tunnel == tunnels[Current]
Target == targets[Len(results) + 1]
Done(t) == t.forwarder = "ended"
Serving(t) == t.forwarder = "serving"

\* Mutant: the error channel has no buffer.
Unbuffered == 0

ErrorCapacity == 1

\* Mutant: cancel without the sync.Once.
StoppedAgain(t) == [t EXCEPT !.stop = @ + 1]

\* The cancel function: sync.Once around close(stop).
Stopped(t) == [t EXCEPT !.stop = IF @ = 0 THEN 1 ELSE @]

ForwarderStep(k, from, t) ==
    /\ tunnels[k].forwarder = from
    /\ tunnels' = [tunnels EXCEPT ![k] = t]
    /\ UNCHANGED <<situation, targets, base, offset, caller, verdict, results,
                   findings, checked, cancelled>>

DialFails(k) ==
    ForwarderStep(k, "dialing",
        [tunnels[k] EXCEPT !.forwarder = "reporting", !.failure = "refused"])

DialSucceeds(k) ==
    ForwarderStep(k, "dialing", [tunnels[k] EXCEPT !.forwarder = "binding"])

\* An upgrade that neither succeeds nor fails; nothing in the program ends it.
DialWedges(k) ==
    ForwarderStep(k, "dialing", [tunnels[k] EXCEPT !.forwarder = "wedged"])

\* client-go does not look at stop before it listens and closes ready.
Bind(k) ==
    /\ \A j \in DOMAIN tunnels : Serving(tunnels[j]) => tunnels[j].local # tunnels[k].local
    /\ ForwarderStep(k, "binding",
           [tunnels[k] EXCEPT !.forwarder = "serving", !.ready = TRUE])

\* The local port is taken, by this program or by another.
BindFails(k) ==
    ForwarderStep(k, "binding",
        [tunnels[k] EXCEPT !.forwarder = "reporting", !.failure = "refused"])

LoseConnection(k) ==
    ForwarderStep(k, "serving",
        [tunnels[k] EXCEPT !.forwarder = "reporting", !.failure = "lost"])

StopServing(k) ==
    /\ tunnels[k].stop > 0
    /\ ForwarderStep(k, "serving", [tunnels[k] EXCEPT !.forwarder = "ended"])

ReportError(k) ==
    /\ \/ tunnels[k].errors < ErrorCapacity
       \/ caller = "waiting" /\ k = Current     \* handed over without a buffer
    /\ ForwarderStep(k, "reporting",
           [tunnels[k] EXCEPT !.forwarder = "ended", !.errors = @ + 1])

Watch(k) ==
    /\ tunnels[k].watching
    /\ \/ cancelled /\ tunnels' = [tunnels EXCEPT ![k] = [Stopped(@) EXCEPT !.watching = FALSE]]
       \/ Done(tunnels[k]) /\ tunnels' = [tunnels EXCEPT ![k].watching = FALSE]
    /\ UNCHANGED <<situation, targets, base, offset, caller, verdict, results,
                   findings, checked, cancelled>>

Interrupt ==
    /\ ~cancelled
    /\ cancelled' = TRUE
    /\ UNCHANGED <<situation, targets, base, offset, tunnels, caller, verdict, results,
                   findings, checked>>

(***************************************************************************)
(* The caller                                                              *)
(***************************************************************************)
\* What comes back through an open connection.  A port that nobody listens on is
\* accepted locally and closed once the kubelet has refused it, which arrives
\* before remoteSettleTimeout ends; a server that speaks no HTTP lets the
\* request run into its timeout.
Seen(target) ==
    LET app == situation.app[target.port]
    IN  IF app = "closed" THEN "closed"
        ELSE IF target.protocol = "tcp" \/ app = "silent" THEN "timeout"
        ELSE app

\* remoteAccepted, and the status code of an HTTP response.
Conclusion(target, seen) ==
    CASE seen = "closed" -> "failed"
      [] seen = "timeout" -> IF target.protocol = "tcp" THEN "ok" ELSE "failed"
      [] seen = "answers" -> "ok"
      [] seen = "redirects" -> "warned"
      [] seen = "rejects" -> IF target.strict THEN "failed" ELSE "warned"

Result(target, local, tested, found) ==
    [target |-> target, local |-> local, tested |-> tested, verdict |-> found,
     shared |-> FALSE, tunnel |-> 0]

\* At most one finding for a result; a shared result has none.
Report(result, severity) ==
    /\ results' = Append(results, result)
    /\ findings' = IF severity = "none" THEN findings
                   ELSE Append(findings, [severity |-> severity, result |-> Len(results) + 1])

Pending == caller = "next" /\ Len(results) < Len(targets)

SkipInactive ==
    /\ Pending
    /\ ~Target.active
    /\ Report(Result(Target, 0, FALSE, "none"),
              CASE Target.invalid -> "issue"
                [] ~Target.invalid /\ Target.unavailable -> "unavailable"
                [] OTHER -> "none")
    /\ UNCHANGED <<situation, targets, base, offset, tunnels, caller, verdict, checked,
                   cancelled>>

Reusable(target) ==
    target.group = "service" /\ CheckSignature(target) \in DOMAIN checked

ReuseResult ==
    /\ Pending
    /\ Target.active
    /\ Reusable(Target)
    /\ LET origin == results[checked[CheckSignature(Target)]]
       IN  Report([origin EXCEPT !.target = Target, !.shared = TRUE], "none")
    /\ UNCHANGED <<situation, targets, base, offset, tunnels, caller, verdict, checked,
                   cancelled>>

NextPort(o) == o + 1

TakePort ==
    /\ Pending
    /\ Target.active
    /\ ~Reusable(Target)
    /\ offset' = NextPort(offset)

PortOutOfRange ==
    /\ TakePort
    /\ base + offset > MaxPort
    /\ Report(Result(Target, base + offset, FALSE, "none"), "unavailable")
    /\ UNCHANGED <<situation, targets, base, tunnels, caller, verdict, checked, cancelled>>

\* Mutant: an error of checkOne is judged like a failed check.
JudgeErrors(found) ==
    IF found = "ok" THEN "none" ELSE "warning"

\* What checkTargets makes of checkOne's result and error.
Judge(found) ==
    CASE found = "unavailable" -> "unavailable"
      [] found \in {"failed", "warned"} -> "warning"
      [] found = "ok" -> "none"

\* The latest result of a request is the one that is shared.
Remember(signature, index) ==
    checked' = [s \in DOMAIN checked \cup {signature} |->
                   IF s = signature THEN index ELSE checked[s]]

Conclude(local, found, tunnel) ==
    /\ Report([Result(Target, local, found # "unavailable", found) EXCEPT !.tunnel = tunnel],
              Judge(found))
    /\ IF Target.group = "pod" THEN Remember(CheckSignature(Target), Len(results) + 1)
       ELSE UNCHANGED checked

\* forward returns an error: nothing was started.
ForwardFails ==
    /\ TakePort
    /\ base + offset <= MaxPort
    /\ Conclude(base + offset, "unavailable", 0)
    /\ UNCHANGED <<situation, targets, base, tunnels, caller, verdict, cancelled>>

Forward ==
    /\ TakePort
    /\ base + offset <= MaxPort
    /\ tunnels' = Append(tunnels, NewTunnel(base + offset, Target.port))
    /\ caller' = "waiting"
    /\ UNCHANGED <<situation, targets, base, verdict, results, findings, checked, cancelled>>

\* Leaving checkOne runs the deferred cleanup, which begins with cancel().
Leave(found) ==
    /\ verdict' = found
    /\ caller' = "closing"
    /\ tunnels' = [tunnels EXCEPT ![Current] = Stopped(@)]

SeeCancelled ==
    /\ caller = "waiting"
    /\ cancelled
    /\ Leave("unavailable")
    /\ UNCHANGED <<situation, targets, base, offset, results, findings, checked, cancelled>>

SeeError ==
    /\ caller = "waiting"
    /\ Tunnel.errors > 0
    /\ verdict' = "unavailable"
    /\ caller' = "closing"
    /\ LET left == Stopped(Tunnel)
       IN  tunnels' = [tunnels EXCEPT ![Current] = [left EXCEPT !.errors = @ - 1]]
    /\ UNCHANGED <<situation, targets, base, offset, results, findings, checked, cancelled>>

SeeReady ==
    /\ caller = "waiting"
    /\ Tunnel.ready
    /\ caller' = "dialing"
    /\ UNCHANGED <<situation, targets, base, offset, tunnels, verdict, results, findings,
                   checked, cancelled>>

\* The forwarder accepts before it asks the kubelet for the remote port.
Dial ==
    /\ caller = "dialing"
    /\ \/ Serving(Tunnel) /\ caller' = "reading" /\ UNCHANGED <<verdict, tunnels>>
       \/ ~(Serving(Tunnel) /\ ~cancelled) /\ Leave("failed")
    /\ UNCHANGED <<situation, targets, base, offset, results, findings, checked, cancelled>>

\* A tunnel that closes meanwhile, or an interrupted HTTP request, may cut it off.
Read ==
    /\ caller = "reading"
    /\ \/ Leave(Conclusion(Target, Seen(Target)))
       \/ /\ Serving(Tunnel) => cancelled /\ Target.protocol = "http"
          /\ Leave(Conclusion(Target, "closed"))
    /\ UNCHANGED <<situation, targets, base, offset, results, findings, checked, cancelled>>

\* Mutant: cleanup waits for done alone.
NoShutdownTimeout == FALSE

\* time.After(forwardShutdownTimeout) may fire before the forwarder has ended.
ForwardShutdownTimeout == TRUE

FinishCheck ==
    /\ caller = "closing"
    /\ Done(Tunnel) \/ ForwardShutdownTimeout
    /\ Conclude(Tunnel.local, verdict, Current)
    /\ caller' = "next"
    /\ verdict' = "none"
    /\ UNCHANGED <<situation, targets, base, offset, tunnels, cancelled>>

Finish ==
    /\ caller = "next"
    /\ Len(results) = Len(targets)
    /\ caller' = "finished"
    /\ UNCHANGED <<situation, targets, base, offset, tunnels, verdict, results, findings,
                   checked, cancelled>>

(***************************************************************************)
(* The specification                                                       *)
(***************************************************************************)
LowerOf(a, b) == IF a < b THEN a ELSE b

RandomBasePorts(count) ==
    LET maximum == LowerOf(LastRandom, MaxPort + 1 - (IF count = 0 THEN 1 ELSE count))
    IN  IF maximum <= FirstRandom THEN {FirstRandom} ELSE FirstRandom..maximum

Init ==
    /\ situation \in Situations
    /\ targets = CheckedTargets(situation)
    /\ base \in IF situation.connectPort = 0 THEN RandomBasePorts(Len(targets))
                ELSE {situation.connectPort}
    /\ offset = 0
    /\ tunnels = <<>>
    /\ caller = "next"
    /\ verdict = "none"
    /\ results = <<>>
    /\ findings = <<>>
    /\ checked = <<>>
    /\ cancelled = FALSE

Check ==
    \/ SkipInactive \/ ReuseResult \/ PortOutOfRange \/ ForwardFails \/ Forward
    \/ SeeCancelled \/ SeeError \/ SeeReady \/ Dial \/ Read \/ FinishCheck \/ Finish

\* What the forwarder does by itself.  Losing the connection is not its doing.
Forwarder(k) ==
    \/ DialFails(k) \/ DialSucceeds(k) \/ DialWedges(k)
    \/ Bind(k) \/ BindFails(k) \/ StopServing(k) \/ ReportError(k)

Next ==
    \/ Check
    \/ \E k \in DOMAIN tunnels : Forwarder(k) \/ LoseConnection(k) \/ Watch(k)
    \/ Interrupt

Spec == Init /\ [][Next]_vars

ForwarderOf(k) == k \in DOMAIN tunnels /\ Forwarder(k)
WatcherOf(k) == k \in DOMAIN tunnels /\ Watch(k)

\* All goroutines are scheduled; every dial, read and request has a timeout.
FairSpec ==
    /\ Spec
    /\ WF_vars(Check)
    /\ \A k \in 1..MaxPort : WF_vars(ForwarderOf(k)) /\ WF_vars(WatcherOf(k))

(***************************************************************************)
(* Properties                                                              *)
(***************************************************************************)
\* The state is well typed.  In particular stop is closed once at most: the
\* caller and the watcher both cancel, and closing a closed channel panics.
TypeOK ==
    /\ situation \in Situations
    /\ base \in 1..MaxPort
    /\ offset \in 0..Len(targets)
    /\ caller \in Callers
    /\ verdict \in Verdicts
    /\ cancelled \in BOOLEAN
    /\ \A k \in DOMAIN tunnels :
          tunnels[k] \in [forwarder : Forwarders, watching : BOOLEAN, stop : 0..1,
                         ready : BOOLEAN, errors : 0..1, failure : Failures,
                         local : 1..MaxPort, remote : 1..MaxPort]
    /\ \A i \in DOMAIN results :
          /\ results[i].verdict \in Verdicts
          /\ results[i].tunnel \in 0..Len(tunnels)
    /\ \A i \in DOMAIN findings :
          /\ findings[i].severity \in Severities
          /\ findings[i].result \in DOMAIN results
    /\ \A s \in DOMAIN checked : checked[s] \in DOMAIN results

\* A result, shared or not, is true of the port and the request of its own
\* target: a success has met a server, for HTTP one that answered, and without
\* an interrupt or the loss of the tunnel a failure has met none, or a strict
\* request was turned down.
ResultsTellTheTruth ==
    \A i \in DOMAIN results :
        LET r == results[i]
            app == situation.app[r.target.port]
            http == r.target.protocol = "http"
            disturbed == cancelled \/ tunnels[r.tunnel].failure # "none"
            absent == app = "closed" \/ (app = "silent" /\ http)
        IN  r.tested =>
                /\ r.verdict = "ok" => ~absent /\ (http => app = "answers")
                /\ r.verdict = "warned" => http /\ app \in {"redirects", "rejects"}
                /\ r.verdict = "failed" =>
                      disturbed \/ absent \/ (app = "rejects" /\ http /\ r.target.strict)

\* A warning is about a request that went through a tunnel that was open, to the
\* port it names, and one request raises one warning, however many results
\* show it.
WarningsAreObservations ==
    LET Warnings(k) == {f \in DOMAIN findings :
                           /\ findings[f].severity = "warning"
                           /\ results[findings[f].result].tunnel = k}
    IN  /\ Warnings(0) = {}
        /\ \A k \in DOMAIN tunnels : Warnings(k) # {} => tunnels[k].ready
        /\ \A i \in DOMAIN results :
              results[i].verdict \in {"failed", "warned"} =>
                  /\ Cardinality(Warnings(results[i].tunnel)) = 1
                  /\ tunnels[results[i].tunnel].remote = results[i].target.port

\* The checks end.  A dial that hangs for ever can hold them up, but not against
\* an interrupt.
ChecksEnd ==
    <>[](\/ caller = "finished"
         \/ caller = "waiting" /\ Tunnel.forwarder = "wedged" /\ ~cancelled)

\* No goroutine stays behind, except those of a dial that hangs for ever.
NothingIsLeftBehind ==
    \A k \in 1..MaxPort :
        k \in DOMAIN tunnels ~>
            /\ k \in DOMAIN tunnels
            /\ \/ Done(tunnels[k]) /\ ~tunnels[k].watching
               \/ tunnels[k].forwarder = "wedged"
=============================================================================
