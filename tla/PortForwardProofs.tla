-------------------------- MODULE PortForwardProofs --------------------------
(***************************************************************************)
(* Theorems about PortForward, for any Pod, Services, endpoints, options   *)
(* and ports: no channel is closed twice, every result is true of its own  *)
(* target, and every warning is about a request that went through.         *)
(***************************************************************************)
EXTENDS PortForward, FiniteSetTheorems, TLAPS

TunnelType ==
    [forwarder : Forwarders, watching : BOOLEAN, stop : 0..1, ready : BOOLEAN, errors : 0..1,
     failure : Failures, local : 1..MaxPort, remote : 1..MaxPort]

\* The targets there are results about.
Listed == {targets[i] : i \in DOMAIN targets}

ResultType ==
    [target : Listed, local : Nat, tested : BOOLEAN, verdict : Verdicts, shared : BOOLEAN,
     tunnel : Nat]

FindingType == [severity : Severities, result : Nat]

Typed ==
    /\ situation \in Situations
    /\ targets = CheckedTargets(situation)
    /\ base \in 1..MaxPort
    /\ offset \in Nat
    /\ tunnels \in Seq(TunnelType)
    /\ caller \in Callers
    /\ verdict \in Verdicts
    /\ results \in Seq(ResultType)
    /\ findings \in Seq(FindingType)
    /\ cancelled \in BOOLEAN

\* Between opening a port-forward and writing down its result.
Checking == caller \notin {"next", "finished"}

\* The tunnel of a check is the last one, and was opened to its target's port.
InOrder ==
    /\ Len(results) <= Len(targets)
    /\ offset <= Len(results) + (IF Checking THEN 1 ELSE 0)
    /\ Checking => /\ Len(results) < Len(targets)
                   /\ Target.active
                   /\ tunnels # <<>>
                   /\ Tunnel.remote = Target.port
    /\ caller # "closing" => verdict = "none"

\* A forwarder reports once, and what was ready and serves no longer was lost or
\* stopped.
SoundTunnel(t) ==
    /\ t.errors > 0 => Done(t)
    /\ t.ready => t.forwarder \in {"serving", "reporting", "ended"}
    /\ t.ready /\ ~Serving(t) => t.failure # "none" \/ t.stop > 0

\* Until the caller leaves, only an interrupt stops its tunnel.
TunnelsAreSound ==
    /\ \A k \in DOMAIN tunnels : SoundTunnel(tunnels[k])
    /\ caller \in {"waiting", "dialing", "reading"} /\ Tunnel.stop > 0 => cancelled

\* What ResultsTellTheTruth asks of one result: app is what the ports do, failure
\* what became of the tunnel.
Tells(app, off, target, found, failure) ==
    LET http == target.protocol = "http"
        does == app[target.port]
        absent == does = "closed" \/ (does = "silent" /\ http)
    IN  /\ found = "ok" => ~absent /\ (http => does = "answers")
        /\ found = "warned" => http /\ does \in {"redirects", "rejects"}
        /\ found = "failed" =>
              off \/ failure # "none" \/ absent \/ (does = "rejects" /\ http /\ target.strict)

\* A verdict, from the moment it is reached.
VerdictTells ==
    /\ caller \in {"dialing", "reading"} => Tunnel.ready
    /\ caller = "closing" =>
          /\ verdict # "none"
          /\ verdict # "unavailable" =>
                /\ Tunnel.ready
                /\ Tells(situation.app, cancelled, Target, verdict, Tunnel.failure)

\* A result and the tunnel it was obtained through.
ResultTells(r) ==
    /\ r.tunnel \in 0..Len(tunnels)
    /\ r.tested <=> r.verdict \in {"ok", "warned", "failed"}
    /\ r.tested => /\ r.tunnel > 0
                   /\ tunnels[r.tunnel].ready
                   /\ tunnels[r.tunnel].remote = r.target.port
                   /\ Tells(situation.app, cancelled, r.target, r.verdict,
                            tunnels[r.tunnel].failure)
    /\ Checking => r.tunnel < Current

ResultsTell == \A i \in DOMAIN results : ResultTells(results[i])

\* A result kept for sharing answers the request it is kept under.
CheckedTell ==
    \A s \in DOMAIN checked :
        /\ checked[s] \in DOMAIN results
        /\ CheckSignature(results[checked[s]].target) = s

IsWarning(f) == findings[f].severity = "warning"
TunnelOf(f) == results[findings[f].result].tunnel

\* Every tunnel that ended in a warning has exactly one.
FindingsTell ==
    /\ \A f \in DOMAIN findings :
          /\ findings[f].result \in DOMAIN results
          /\ IsWarning(f) => results[findings[f].result].tested
    /\ \A f, g \in DOMAIN findings :
          IsWarning(f) /\ IsWarning(g) /\ TunnelOf(f) = TunnelOf(g) => f = g
    /\ \A i \in DOMAIN results : results[i].verdict \in {"failed", "warned"} =>
          \E f \in DOMAIN findings : IsWarning(f) /\ TunnelOf(f) = results[i].tunnel

Inv == /\ Typed /\ InOrder /\ TunnelsAreSound /\ VerdictTells
       /\ ResultsTell /\ CheckedTell /\ FindingsTell

-----------------------------------------------------------------------------
(* The invariant implies the properties. *)

LEMMA InvTypes == Inv => TypeOK
<1> SUFFICES ASSUME Inv PROVE TypeOK
  OBVIOUS
<1>1. offset \in 0..Len(targets)
  <2>1. Len(targets) \in Nat
    BY SituationsAssumption DEF Inv, Typed
  <2>2. Len(results) \in Nat
    BY DEF Inv, Typed
  <2> QED
    BY <2>1, <2>2 DEF Inv, Typed, InOrder
<1>2. \A k \in DOMAIN tunnels : tunnels[k] \in TunnelType
  BY DEF Inv, Typed
<1>3. \A i \in DOMAIN results : results[i].verdict \in Verdicts /\ results[i].tunnel \in 0..Len(tunnels)
  <2>1. \A i \in DOMAIN results : results[i] \in ResultType
    BY DEF Inv, Typed
  <2> QED
    BY <2>1 DEF Inv, ResultsTell, ResultTells, ResultType
<1>4. \A i \in DOMAIN findings :
         findings[i].severity \in Severities /\ findings[i].result \in DOMAIN results
  <2>1. \A i \in DOMAIN findings : findings[i] \in FindingType
    BY DEF Inv, Typed
  <2> QED
    BY <2>1 DEF Inv, FindingsTell, FindingType
<1> QED
  BY <1>1, <1>2, <1>3, <1>4 DEF Inv, Typed, CheckedTell, TypeOK, TunnelType

LEMMA InvTruth == Inv => ResultsTellTheTruth
  BY DEF Inv, ResultsTell, ResultTells, Tells, ResultsTellTheTruth

LEMMA InvWarnings == Inv => WarningsAreObservations
<1> SUFFICES ASSUME Inv PROVE WarningsAreObservations
  OBVIOUS
<1> DEFINE Warnings(k) == {f \in DOMAIN findings : IsWarning(f) /\ TunnelOf(f) = k}
<1>1. \A f \in DOMAIN findings : IsWarning(f) => TunnelOf(f) > 0 /\ tunnels[TunnelOf(f)].ready
  BY DEF Inv, FindingsTell, ResultsTell, ResultTells, TunnelOf
<1>2. Warnings(0) = {}
  BY <1>1
<1>3. \A k \in DOMAIN tunnels : Warnings(k) # {} => tunnels[k].ready
  BY <1>1
<1>4. ASSUME NEW i \in DOMAIN results, results[i].verdict \in {"failed", "warned"}
      PROVE  /\ Cardinality(Warnings(results[i].tunnel)) = 1
             /\ tunnels[results[i].tunnel].remote = results[i].target.port
  <2>1. PICK f \in DOMAIN findings : IsWarning(f) /\ TunnelOf(f) = results[i].tunnel
    BY <1>4 DEF Inv, FindingsTell
  <2>2. Warnings(results[i].tunnel) = {f}
    BY <2>1 DEF Inv, FindingsTell
  <2>3. tunnels[results[i].tunnel].remote = results[i].target.port
    BY <1>4 DEF Inv, ResultsTell, ResultTells
  <2> QED
    BY <2>2, <2>3, FS_Singleton
<1> QED
  BY <1>2, <1>3, <1>4 DEF WarningsAreObservations, IsWarning, TunnelOf

-----------------------------------------------------------------------------
(* The initial state. *)

LEMMA CountOfTargets == Typed => Len(targets) \in Nat /\ DOMAIN targets = 1..Len(targets)
  BY SituationsAssumption DEF Typed

LEMMA InitInv == Init => Inv
<1> SUFFICES ASSUME Init PROVE Inv
  OBVIOUS
<1>1. Len(targets) \in Nat
  BY SituationsAssumption DEF Init
<1>2. base \in 1..MaxPort
  <2>1. CASE situation.connectPort # 0
    BY <2>1, SituationsAssumption DEF Init
  <2>2. CASE situation.connectPort = 0
    <3>1. base \in RandomBasePorts(Len(targets))
      BY <2>2 DEF Init
    <3> DEFINE count == IF Len(targets) = 0 THEN 1 ELSE Len(targets)
               maximum == LowerOf(LastRandom, MaxPort + 1 - count)
    <3>2. maximum \in Int /\ maximum <= MaxPort
      <4>1. count \in Nat \ {0}
        BY <1>1
      <4> HIDE DEF count
      <4>2. MaxPort + 1 - count \in Int /\ MaxPort + 1 - count <= MaxPort
        BY <4>1, MaxPortAssumption
      <4>3. \A b \in Int : b <= MaxPort =>
               LowerOf(LastRandom, b) \in Int /\ LowerOf(LastRandom, b) <= MaxPort
        BY PortsAssumption, MaxPortAssumption DEF LowerOf
      <4> QED
        BY <4>2, <4>3
    <3>3. base \in IF maximum <= FirstRandom THEN {FirstRandom} ELSE FirstRandom..maximum
      BY <3>1 DEF RandomBasePorts
    <3> HIDE DEF maximum
    <3> QED
      BY <3>2, <3>3, PortsAssumption, MaxPortAssumption
  <2> QED
    BY <2>1, <2>2
<1>3. Typed
  <2>1. tunnels \in Seq(TunnelType) /\ results \in Seq(ResultType) /\ findings \in Seq(FindingType)
    BY DEF Init
  <2>2. caller \in Callers /\ verdict \in Verdicts /\ offset \in Nat /\ cancelled \in BOOLEAN
    BY DEF Init, Callers, Verdicts
  <2> QED
    BY <1>2, <2>1, <2>2 DEF Init, Typed
<1>4. InOrder /\ TunnelsAreSound /\ VerdictTells
  BY <1>1 DEF Init, InOrder, TunnelsAreSound, VerdictTells, Checking
<1>5. ResultsTell /\ CheckedTell /\ FindingsTell
  BY DEF Init, ResultsTell, CheckedTell, FindingsTell
<1> QED
  BY <1>3, <1>4, <1>5 DEF Inv

-----------------------------------------------------------------------------
(* Steps of the tunnels. *)

\* What is said of a verdict stays true when the tunnel is lost or the checks are
\* interrupted.
LEMMA TellsStays ==
    ASSUME NEW app, NEW off, NEW off2, NEW target, NEW found, NEW failure, NEW failure2,
           Tells(app, off, target, found, failure),
           off => off2, failure # "none" => failure2 # "none"
    PROVE  Tells(app, off2, target, found, failure2)
  BY DEF Tells

\* Of a tunnel, its step leaves what the invariant says of the others alone.
LEMMA TunnelStep ==
    ASSUME Inv, NEW k \in DOMAIN tunnels, NEW t \in TunnelType,
           tunnels' = [tunnels EXCEPT ![k] = t],
           UNCHANGED <<situation, targets, base, offset, caller, verdict, results, findings,
                       checked, cancelled>>,
           t.remote = tunnels[k].remote,
           tunnels[k].ready => t.ready,
           tunnels[k].failure # "none" => t.failure # "none",
           t.stop > 0 => tunnels[k].stop > 0 \/ cancelled,
           SoundTunnel(t)
    PROVE  Inv'
<1>1. /\ tunnels' \in Seq(TunnelType) /\ Len(tunnels') = Len(tunnels)
      /\ DOMAIN tunnels' = DOMAIN tunnels
      /\ \A j \in DOMAIN tunnels : tunnels'[j] = IF j = k THEN t ELSE tunnels[j]
  BY DEF Inv, Typed
<1>2. \A j \in DOMAIN tunnels :
         /\ tunnels'[j].remote = tunnels[j].remote
         /\ tunnels[j].ready => tunnels'[j].ready
         /\ tunnels[j].failure # "none" => tunnels'[j].failure # "none"
         /\ tunnels'[j].stop > 0 => tunnels[j].stop > 0 \/ cancelled
         /\ SoundTunnel(tunnels'[j])
  BY <1>1 DEF Inv, TunnelsAreSound
<1>3. /\ Current' = Current /\ Checking' = Checking /\ Target' = Target /\ Listed' = Listed
      /\ ResultType' = ResultType
  BY <1>1 DEF Current, Checking, Target, Listed, ResultType
<1>4. Typed'
  BY <1>1, <1>3 DEF Inv, Typed
<1>5. Checking => Current \in DOMAIN tunnels
  BY DEF Inv, Typed, InOrder, Current
<1>6. InOrder'
  BY <1>1, <1>2, <1>3, <1>5 DEF Inv, InOrder, Tunnel
<1>7. TunnelsAreSound'
  BY <1>1, <1>2, <1>3, <1>5 DEF Inv, TunnelsAreSound, Tunnel, Checking
<1>8. VerdictTells'
  BY <1>1, <1>2, <1>3, <1>5, TellsStays DEF Inv, VerdictTells, Tunnel, Checking
<1>9. ResultsTell'
  <2> SUFFICES ASSUME NEW i \in DOMAIN results PROVE ResultTells(results[i])'
    BY DEF ResultsTell
  <2>1. ResultTells(results[i])
    BY DEF Inv, ResultsTell
  <2>2. results[i].tested => results[i].tunnel \in DOMAIN tunnels
    BY <2>1, <1>1 DEF ResultTells, Inv, Typed
  <2> QED
    BY <2>1, <2>2, <1>1, <1>2, <1>3, TellsStays DEF ResultTells
<1>10. CheckedTell' /\ FindingsTell'
  BY DEF Inv, CheckedTell, FindingsTell, IsWarning, TunnelOf
<1> QED
  BY <1>4, <1>6, <1>7, <1>8, <1>9, <1>10 DEF Inv

\* Cancelling leaves everything of a tunnel but stop alone.
LEMMA StoppedTunnel ==
    ASSUME NEW t \in TunnelType
    PROVE  /\ Stopped(t) \in TunnelType
           /\ Stopped(t).stop = 1
           /\ \A name \in {"forwarder", "watching", "ready", "errors", "failure", "local",
                           "remote"} : Stopped(t)[name] = t[name]
  BY DEF Stopped, TunnelType

\* An error is one more than none.
LEMMA ReportedTunnel ==
    ASSUME NEW t \in TunnelType
    PROVE  [t EXCEPT !.forwarder = "ended", !.errors = 1] \in TunnelType
<1>1. "ended" \in Forwarders /\ 1 \in 0..1
  BY DEF Forwarders
<1> QED
  BY <1>1 DEF TunnelType

LEMMA ForwarderKeepsInv ==
    ASSUME Inv, NEW k \in DOMAIN tunnels, Forwarder(k) \/ LoseConnection(k)
    PROVE  Inv'
<1>1. /\ tunnels[k] \in TunnelType
      /\ SoundTunnel(tunnels[k])
  BY DEF Inv, Typed, TunnelsAreSound
<1> USE DEF ForwarderStep, TunnelType, SoundTunnel, Done, Serving, Forwarders, Failures
<1>2. CASE DialFails(k)
  BY <1>1, <1>2, TunnelStep DEF DialFails
<1>3. CASE DialSucceeds(k)
  BY <1>1, <1>3, TunnelStep DEF DialSucceeds
<1>4. CASE DialWedges(k)
  BY <1>1, <1>4, TunnelStep DEF DialWedges
<1>5. CASE Bind(k)
  BY <1>1, <1>5, TunnelStep DEF Bind
<1>6. CASE BindFails(k)
  BY <1>1, <1>6, TunnelStep DEF BindFails
<1>7. CASE LoseConnection(k)
  BY <1>1, <1>7, TunnelStep DEF LoseConnection
<1>8. CASE StopServing(k)
  BY <1>1, <1>8, TunnelStep DEF StopServing
<1>9. CASE ReportError(k)
  <2>1. tunnels[k].errors = 0
    BY <1>1, <1>9 DEF ReportError
  <2> DEFINE u == [tunnels[k] EXCEPT !.forwarder = "ended", !.errors = 1]
  <2>2. ForwarderStep(k, "reporting", u)
    BY <1>9, <2>1 DEF ReportError
  <2>3. u \in TunnelType
    BY <1>1, ReportedTunnel
  <2>4. /\ u.forwarder = "ended"
        /\ \A name \in {"ready", "failure", "remote", "stop"} : u[name] = tunnels[k][name]
    BY <1>1
  <2>5. SoundTunnel(u)
    BY <1>1, <2>2, <2>4
  <2> HIDE DEF u
  <2> QED
    BY <1>1, <2>2, <2>3, <2>4, <2>5, TunnelStep
<1> QED
  BY <1>2, <1>3, <1>4, <1>5, <1>6, <1>7, <1>8, <1>9 DEF Forwarder

LEMMA WatchKeepsInv ==
    ASSUME Inv, NEW k \in DOMAIN tunnels, Watch(k)
    PROVE  Inv'
<1> DEFINE t == tunnels[k]
<1>1. t \in TunnelType /\ SoundTunnel(t)
  BY DEF Inv, Typed, TunnelsAreSound
<1>2. CASE cancelled /\ tunnels' = [tunnels EXCEPT ![k] = [Stopped(@) EXCEPT !.watching = FALSE]]
  <2> DEFINE u == [Stopped(t) EXCEPT !.watching = FALSE]
  <2>1. /\ u \in TunnelType
        /\ \A name \in {"forwarder", "ready", "errors", "failure", "remote"} : u[name] = t[name]
        /\ u.stop = 1
    <3>1. Stopped(t) \in TunnelType
      BY <1>1, StoppedTunnel
    <3>2. /\ u \in TunnelType /\ u.stop = Stopped(t).stop
          /\ \A name \in {"forwarder", "ready", "errors", "failure", "remote"} :
                u[name] = Stopped(t)[name]
      <4> DEFINE s == Stopped(t)
      <4> HIDE DEF s
      <4> QED
        BY <3>1 DEF TunnelType, s
    <3> QED
      BY <1>1, <3>2, StoppedTunnel
  <2>2. SoundTunnel(u)
    BY <1>1, <2>1 DEF SoundTunnel, Done, Serving
  <2>3. tunnels' = [tunnels EXCEPT ![k] = u]
    BY <1>2
  <2> HIDE DEF u
  <2> QED
    BY <1>2, <2>1, <2>2, <2>3, TunnelStep DEF Watch
<1>3. CASE Done(t) /\ tunnels' = [tunnels EXCEPT ![k].watching = FALSE]
  <2> DEFINE u == [t EXCEPT !.watching = FALSE]
  <2>1. /\ u \in TunnelType
        /\ \A name \in {"forwarder", "ready", "errors", "failure", "remote", "stop"} :
              u[name] = t[name]
    BY <1>1 DEF TunnelType
  <2>2. SoundTunnel(u)
    BY <1>1, <2>1 DEF SoundTunnel, Done, Serving
  <2>3. tunnels' = [tunnels EXCEPT ![k] = u]
    BY <1>3
  <2> HIDE DEF u
  <2> QED
    BY <2>1, <2>2, <2>3, TunnelStep DEF Watch
<1> QED
  BY <1>2, <1>3 DEF Watch

LEMMA InterruptKeepsInv ==
    ASSUME Inv, Interrupt
    PROVE  Inv'
<1> USE DEF Interrupt
<1>1. Typed' /\ InOrder' /\ TunnelsAreSound'
  BY DEF Inv, Typed, InOrder, TunnelsAreSound, Checking, Target, Tunnel, Current, Listed,
         ResultType
<1>2. ASSUME NEW target, NEW found, NEW failure,
             Tells(situation.app, cancelled, target, found, failure)
      PROVE  Tells(situation'.app, cancelled', target, found, failure)
  BY <1>2 DEF Tells
<1>3. VerdictTells'
  <2>1. Tunnel' = Tunnel /\ Target' = Target /\ caller' = caller /\ verdict' = verdict
    BY DEF Target, Tunnel, Current
  <2> QED
    BY <1>2, <2>1 DEF Inv, VerdictTells
<1>5. ResultsTell'
  <2> SUFFICES ASSUME NEW i \in DOMAIN results PROVE ResultTells(results[i])'
    BY DEF ResultsTell
  <2>1. ResultTells(results[i])
    BY DEF Inv, ResultsTell
  <2>2. Checking' = Checking /\ Current' = Current
    BY DEF Checking, Current
  <2> QED
    BY <1>2, <2>1, <2>2 DEF ResultTells
<1>4. CheckedTell' /\ FindingsTell'
  BY DEF Inv, CheckedTell, FindingsTell, IsWarning, TunnelOf
<1> QED
  BY <1>1, <1>3, <1>4, <1>5 DEF Inv

-----------------------------------------------------------------------------
(* Steps of a check, up to its verdict. *)

\* The tunnel that is being checked.
LEMMA TunnelOfACheck ==
    ASSUME Inv, Checking
    PROVE  /\ Current \in DOMAIN tunnels
           /\ Tunnel \in TunnelType
           /\ SoundTunnel(Tunnel)
           /\ tunnels = [tunnels EXCEPT ![Current] = Tunnel]
           /\ Len(results) + 1 \in DOMAIN targets
<1>1. Current \in DOMAIN tunnels
  BY DEF Inv, Typed, InOrder, Current
<1>2. Len(results) + 1 \in DOMAIN targets
  <2>1. Len(results) \in Nat /\ Len(results) < Len(targets)
    BY DEF Inv, Typed, InOrder
  <2> QED
    BY <2>1, CountOfTargets DEF Inv
<1> QED
  BY <1>1, <1>2 DEF Inv, Typed, Tunnel, TunnelsAreSound

\* A step of the caller that stays within its check.
LEMMA MoveStep ==
    ASSUME Inv, Checking, caller' \in {"dialing", "reading", "closing"}, verdict' \in Verdicts,
           NEW u \in TunnelType, tunnels' = [tunnels EXCEPT ![Current] = u],
           UNCHANGED <<situation, targets, base, offset, results, findings, checked, cancelled>>,
           u.remote = Tunnel.remote, Tunnel.ready => u.ready, u.failure = Tunnel.failure,
           SoundTunnel(u),
           caller' # "closing" => verdict' = "none" /\ u.ready /\ (u.stop > 0 => cancelled),
           caller' = "closing" =>
               /\ verdict' # "none"
               /\ verdict' # "unavailable" =>
                     /\ u.ready
                     /\ Tells(situation.app, cancelled, Target, verdict', u.failure)
    PROVE  Inv'
<1>1. /\ tunnels' \in Seq(TunnelType) /\ Len(tunnels') = Len(tunnels)
      /\ DOMAIN tunnels' = DOMAIN tunnels
      /\ \A j \in DOMAIN tunnels : tunnels'[j] = IF j = Current THEN u ELSE tunnels[j]
  BY TunnelOfACheck DEF Inv, Typed
<1>2. /\ Current' = Current /\ Checking' /\ Target' = Target /\ Listed' = Listed
      /\ ResultType' = ResultType /\ Tunnel' = u
  BY <1>1, TunnelOfACheck DEF Current, Checking, Target, Listed, ResultType, Tunnel
<1>3. caller' \in Callers
  BY DEF Callers
<1>4. Typed'
  BY <1>1, <1>2, <1>3 DEF Inv, Typed
<1>5. \A j \in DOMAIN tunnels :
         /\ tunnels'[j].remote = tunnels[j].remote
         /\ tunnels[j].ready => tunnels'[j].ready
         /\ tunnels'[j].failure = tunnels[j].failure
  BY <1>1 DEF Tunnel
<1>6. InOrder'
  <2>1. Len(tunnels') # 0
    BY <1>1, TunnelOfACheck DEF Inv, Typed
  <2>2. tunnels' # <<>>
    BY <2>1
  <2> QED
    BY <1>2, <2>2 DEF Inv, InOrder
<1>7. TunnelsAreSound'
  BY <1>1, <1>2 DEF Inv, TunnelsAreSound
<1>8. VerdictTells'
  BY <1>2 DEF VerdictTells
<1>9. ResultsTell'
  <2> SUFFICES ASSUME NEW i \in DOMAIN results PROVE ResultTells(results[i])'
    BY DEF ResultsTell
  <2>1. ResultTells(results[i])
    BY DEF Inv, ResultsTell
  <2>2. results[i].tested => results[i].tunnel \in DOMAIN tunnels
    BY <2>1, <1>1 DEF ResultTells, Inv, Typed
  <2> QED
    BY <2>1, <2>2, <1>1, <1>2, <1>5 DEF ResultTells
<1>10. CheckedTell' /\ FindingsTell'
  BY DEF Inv, CheckedTell, FindingsTell, IsWarning, TunnelOf
<1> QED
  BY <1>4, <1>6, <1>7, <1>8, <1>9, <1>10 DEF Inv

\* Leaving a check with a verdict that is true, cancelling the tunnel.
LEMMA LeaveStep ==
    ASSUME Inv, Checking, NEW found \in {"unavailable", "ok", "warned", "failed"}, Leave(found),
           UNCHANGED <<situation, targets, base, offset, results, findings, checked, cancelled>>,
           found # "unavailable" =>
               /\ Tunnel.ready
               /\ Tells(situation.app, cancelled, Target, found, Tunnel.failure)
    PROVE  Inv'
<1> DEFINE u == Stopped(Tunnel)
<1>1. Tunnel \in TunnelType /\ SoundTunnel(Tunnel)
  BY TunnelOfACheck
<1>2. /\ u \in TunnelType /\ u.stop = 1
      /\ \A name \in {"forwarder", "watching", "ready", "errors", "failure", "local",
                      "remote"} : u[name] = Tunnel[name]
  BY <1>1, StoppedTunnel
<1>3. SoundTunnel(u)
  BY <1>1, <1>2 DEF SoundTunnel, Done, Serving
<1>4. tunnels' = [tunnels EXCEPT ![Current] = u] /\ verdict' = found /\ caller' = "closing"
  BY DEF Leave, Tunnel
<1>5. found \in Verdicts
  BY DEF Verdicts
<1> HIDE DEF u
<1> QED
  BY <1>2, <1>3, <1>4, <1>5, MoveStep

LEMMA SeeCancelledKeepsInv ==
    ASSUME Inv, SeeCancelled
    PROVE  Inv'
  BY LeaveStep DEF SeeCancelled, Checking

LEMMA SeeErrorKeepsInv ==
    ASSUME Inv, SeeError
    PROVE  Inv'
<1> DEFINE s == Stopped(Tunnel)
           u == [s EXCEPT !.errors = @ - 1]
<1>1. Checking /\ Tunnel \in TunnelType /\ SoundTunnel(Tunnel) /\ Tunnel.errors > 0
  BY TunnelOfACheck DEF SeeError, Checking
<1>2. /\ s \in TunnelType /\ s.stop = 1
      /\ \A name \in {"forwarder", "watching", "ready", "errors", "failure", "local",
                      "remote"} : s[name] = Tunnel[name]
  BY <1>1, StoppedTunnel
<1>3. s.errors = 1
  BY <1>1, <1>2 DEF TunnelType
<1>4. tunnels' = [tunnels EXCEPT ![Current] = u] /\ verdict' = "unavailable" /\ caller' = "closing"
  BY DEF SeeError
<1> HIDE DEF s
<1>5. u = [s EXCEPT !.errors = 0]
  BY <1>2, <1>3 DEF TunnelType
<1>6. /\ u \in TunnelType
      /\ u.errors = 0
      /\ \A name \in {"forwarder", "ready", "failure", "remote", "stop"} : u[name] = s[name]
  BY <1>2, <1>5 DEF TunnelType
<1>7. SoundTunnel(u)
  BY <1>1, <1>2, <1>6 DEF SoundTunnel, Done, Serving
<1>8. verdict' \in Verdicts
  BY <1>4 DEF Verdicts
<1> HIDE DEF u
<1> QED
  BY <1>1, <1>2, <1>4, <1>6, <1>7, <1>8, MoveStep DEF SeeError

LEMMA SeeReadyKeepsInv ==
    ASSUME Inv, SeeReady
    PROVE  Inv'
<1>1. Checking /\ verdict = "none" /\ (Tunnel.stop > 0 => cancelled) /\ Tunnel.ready
  BY DEF SeeReady, Checking, Inv, InOrder, TunnelsAreSound
<1>2. verdict' = "none" /\ verdict' \in Verdicts /\ caller' = "dialing"
  BY <1>1 DEF SeeReady, Verdicts
<1>3. tunnels' = [tunnels EXCEPT ![Current] = Tunnel]
  BY <1>1, TunnelOfACheck DEF SeeReady
<1> QED
  BY <1>1, <1>2, <1>3, TunnelOfACheck, MoveStep DEF SeeReady

LEMMA DialKeepsInv ==
    ASSUME Inv, Dial
    PROVE  Inv'
<1>1. /\ Checking /\ verdict = "none" /\ (Tunnel.stop > 0 => cancelled) /\ Tunnel.ready
      /\ SoundTunnel(Tunnel)
  BY TunnelOfACheck DEF Dial, Checking, Inv, InOrder, TunnelsAreSound, VerdictTells
<1>2. CASE Serving(Tunnel) /\ caller' = "reading" /\ UNCHANGED <<verdict, tunnels>>
  <2>1. verdict' = "none" /\ verdict' \in Verdicts
    BY <1>1, <1>2 DEF Verdicts
  <2>2. tunnels' = [tunnels EXCEPT ![Current] = Tunnel]
    BY <1>1, <1>2, TunnelOfACheck
  <2> QED
    BY <1>1, <1>2, <2>1, <2>2, TunnelOfACheck, MoveStep DEF Dial
<1>3. CASE ~(Serving(Tunnel) /\ ~cancelled) /\ Leave("failed")
  <2>1. cancelled \/ Tunnel.failure # "none"
    BY <1>1, <1>3 DEF SoundTunnel
  <2>2. Tells(situation.app, cancelled, Target, "failed", Tunnel.failure)
    BY <2>1 DEF Tells
  <2> QED
    BY <1>1, <1>3, <2>2, LeaveStep DEF Dial
<1> QED
  BY <1>2, <1>3 DEF Dial

\* What a request concludes from what it sees is true of the port.
LEMMA ConclusionTells ==
    ASSUME NEW target, NEW off, NEW failure, target.protocol \in {"tcp", "http"},
           situation.app[target.port] \in Apps
    PROVE  /\ Conclusion(target, Seen(target)) \in {"ok", "warned", "failed"}
           /\ Tells(situation.app, off, target, Conclusion(target, Seen(target)), failure)
<1> DEFINE app == situation.app[target.port]
<1>1. CASE app = "closed"
  BY <1>1 DEF Seen, Conclusion, Tells
<1>2. CASE app = "silent"
  BY <1>2 DEF Seen, Conclusion, Tells
<1>3. CASE app \in {"answers", "redirects", "rejects"} /\ target.protocol = "tcp"
  BY <1>3 DEF Seen, Conclusion, Tells
<1>4. CASE app = "answers" /\ target.protocol = "http"
  BY <1>4 DEF Seen, Conclusion, Tells
<1>5. CASE app = "redirects" /\ target.protocol = "http"
  BY <1>5 DEF Seen, Conclusion, Tells
<1>6. CASE app = "rejects" /\ target.protocol = "http"
  BY <1>6 DEF Seen, Conclusion, Tells
<1> QED
  BY <1>1, <1>2, <1>3, <1>4, <1>5, <1>6 DEF Apps

LEMMA ReadKeepsInv ==
    ASSUME Inv, Read
    PROVE  Inv'
<1>1. Checking /\ (Tunnel.stop > 0 => cancelled) /\ Tunnel.ready /\ SoundTunnel(Tunnel)
  BY TunnelOfACheck DEF Read, Checking, Inv, TunnelsAreSound, VerdictTells
<1>2. CASE Leave(Conclusion(Target, Seen(Target)))
  <2>1. Len(results) + 1 \in DOMAIN targets /\ Target.active
    BY <1>1, TunnelOfACheck DEF Inv, InOrder
  <2>2. Target.protocol \in {"tcp", "http"} /\ situation.app[Target.port] \in Apps
    BY <2>1, SituationsAssumption DEF Inv, Typed, Target
  <2> QED
    BY <1>1, <1>2, <2>2, ConclusionTells, LeaveStep DEF Read
<1>3. CASE /\ Serving(Tunnel) => cancelled /\ Target.protocol = "http"
           /\ Leave(Conclusion(Target, "closed"))
  <2>1. Conclusion(Target, "closed") = "failed"
    BY DEF Conclusion
  <2>2. cancelled \/ Tunnel.failure # "none"
    BY <1>1, <1>3 DEF SoundTunnel
  <2>3. Tells(situation.app, cancelled, Target, "failed", Tunnel.failure)
    BY <2>2 DEF Tells
  <2> QED
    BY <1>1, <1>3, <2>1, <2>3, LeaveStep DEF Read
<1> QED
  BY <1>2, <1>3 DEF Read

-----------------------------------------------------------------------------
(* Steps that write down a result. *)

\* What Report does to the sequences.
LEMMA ReportAppends ==
    ASSUME Inv, NEW r \in ResultType, NEW severity \in Severities \cup {"none"},
           Report(r, severity)
    PROVE  /\ results' \in Seq(ResultType) /\ Len(results') = Len(results) + 1
           /\ DOMAIN results' = DOMAIN results \cup {Len(results) + 1}
           /\ \A i \in DOMAIN results : results'[i] = results[i]
           /\ results'[Len(results) + 1] = r
           /\ findings' \in Seq(FindingType)
           /\ \A f \in DOMAIN findings : f \in DOMAIN findings' /\ findings'[f] = findings[f]
           /\ severity = "none" => findings' = findings
           /\ severity # "none" =>
                 /\ DOMAIN findings' = DOMAIN findings \cup {Len(findings) + 1}
                 /\ findings'[Len(findings) + 1] =
                       [severity |-> severity, result |-> Len(results) + 1]
<1>1. results \in Seq(ResultType) /\ findings \in Seq(FindingType)
  BY DEF Inv, Typed
<1>2. results' = Append(results, r)
  BY DEF Report
<1>3. CASE severity = "none"
  BY <1>1, <1>2, <1>3 DEF Report
<1>4. CASE severity # "none"
  <2> DEFINE finding == [severity |-> severity, result |-> Len(results) + 1]
  <2>1. finding \in FindingType
    BY <1>1, <1>4 DEF FindingType
  <2>2. findings' = Append(findings, finding)
    BY <1>4 DEF Report
  <2> HIDE DEF finding
  <2> QED
    BY <1>1, <1>2, <1>4, <2>1, <2>2 DEF finding
<1> QED
  BY <1>3, <1>4

\* The step from one target to the next: the new result must be true, and a
\* warning must be the first about its tunnel.
LEMMA ResultStep ==
    ASSUME Inv, NEW r \in ResultType, NEW severity \in Severities \cup {"none"},
           Report(r, severity), Len(results) < Len(targets),
           caller' = "next", verdict' = "none",
           UNCHANGED <<situation, targets, base, tunnels, cancelled>>,
           offset' \in Nat, offset' <= Len(results) + 1,
           \/ UNCHANGED checked
           \/ Remember(CheckSignature(r.target), Len(results) + 1),
           r.tunnel \in 0..Len(tunnels),
           r.tested <=> r.verdict \in {"ok", "warned", "failed"},
           r.tested => /\ r.tunnel > 0
                       /\ tunnels[r.tunnel].ready
                       /\ tunnels[r.tunnel].remote = r.target.port
                       /\ Tells(situation.app, cancelled, r.target, r.verdict,
                                tunnels[r.tunnel].failure),
           severity = "warning" =>
               r.tested /\ \A i \in DOMAIN results : results[i].tunnel # r.tunnel,
           r.verdict \in {"failed", "warned"} =>
               \/ severity = "warning"
               \/ \E i \in DOMAIN results : /\ results[i].verdict \in {"failed", "warned"}
                                            /\ results[i].tunnel = r.tunnel
    PROVE  Inv'
<1> DEFINE new == Len(results) + 1
<1>1. /\ results' \in Seq(ResultType) /\ Len(results') = new
      /\ DOMAIN results' = DOMAIN results \cup {new}
      /\ \A i \in DOMAIN results : results'[i] = results[i]
      /\ results'[new] = r
      /\ findings' \in Seq(FindingType)
      /\ \A f \in DOMAIN findings : f \in DOMAIN findings' /\ findings'[f] = findings[f]
  BY ReportAppends
<1>2. ~Checking' /\ caller' \in Callers /\ verdict' \in Verdicts
  BY DEF Checking, Callers, Verdicts
<1>3. Typed'
  <2>1. ResultType' = ResultType
    BY DEF ResultType, Listed
  <2> QED
    BY <1>1, <1>2, <2>1 DEF Inv, Typed
<1>4. InOrder'
  <2>1. Len(targets) \in Nat /\ Len(results) \in Nat
    BY CountOfTargets DEF Inv, Typed
  <2> QED
    BY <1>1, <1>2, <2>1 DEF InOrder
<1>5. TunnelsAreSound' /\ VerdictTells'
  BY DEF Inv, TunnelsAreSound, VerdictTells, SoundTunnel, Done, Serving
<1>6. ResultsTell'
  <2> SUFFICES ASSUME NEW i \in DOMAIN results' PROVE ResultTells(results[i])'
    BY DEF ResultsTell
  <2>1. CASE i \in DOMAIN results
    BY <1>1, <1>2, <2>1 DEF Inv, ResultsTell, ResultTells
  <2>2. CASE i = new
    BY <1>1, <1>2, <2>2 DEF ResultTells
  <2> QED
    BY <1>1, <2>1, <2>2
<1>7. CheckedTell'
  <2>1. CASE UNCHANGED checked
    BY <1>1, <2>1 DEF Inv, CheckedTell, CheckSignature
  <2>2. CASE Remember(CheckSignature(r.target), new)
    <3> DEFINE signature == CheckSignature(r.target)
    <3>1. /\ DOMAIN checked' = DOMAIN checked \cup {signature}
          /\ \A s \in DOMAIN checked' :
                checked'[s] = IF s = signature THEN new ELSE checked[s]
      BY <2>2 DEF Remember
    <3> SUFFICES ASSUME NEW s \in DOMAIN checked'
                 PROVE  /\ checked'[s] \in DOMAIN results'
                        /\ CheckSignature(results'[checked'[s]].target) = s
      BY DEF CheckedTell, CheckSignature
    <3>2. CASE s = signature
      BY <1>1, <3>1, <3>2
    <3>3. CASE s # signature
      BY <1>1, <3>1, <3>3 DEF Inv, CheckedTell
    <3> QED
      BY <3>2, <3>3
  <2> QED
    BY <2>1, <2>2
<1>8. FindingsTell'
  <2>1. \A f \in DOMAIN findings : findings[f].result \in DOMAIN results
    BY DEF Inv, FindingsTell
  <2>2. \A f \in DOMAIN findings :
           /\ IsWarning(f)' <=> IsWarning(f)
           /\ TunnelOf(f)' = TunnelOf(f)
           /\ findings'[f].result \in DOMAIN results'
           /\ IsWarning(f)' => results'[findings'[f].result].tested
    BY <1>1, <2>1 DEF Inv, FindingsTell, IsWarning, TunnelOf
  <2>3. CASE severity = "none"
    <3>1. findings' = findings
      BY <2>3, ReportAppends
    <3>2. ASSUME NEW i \in DOMAIN results', results'[i].verdict \in {"failed", "warned"}
          PROVE  \E f \in DOMAIN findings' : IsWarning(f)' /\ TunnelOf(f)' = results'[i].tunnel
      <4>1. PICK j \in DOMAIN results : /\ results[j].verdict \in {"failed", "warned"}
                                        /\ results[j].tunnel = results'[i].tunnel
        BY <1>1, <2>3, <3>2
      <4>2. PICK f \in DOMAIN findings : IsWarning(f) /\ TunnelOf(f) = results[j].tunnel
        BY <4>1 DEF Inv, FindingsTell
      <4> QED
        BY <2>2, <3>1, <4>1, <4>2
    <3> QED
      BY <2>2, <3>1, <3>2 DEF Inv, FindingsTell
  <2>4. CASE severity # "none"
    <3>0. PICK last \in Nat : last = Len(findings) + 1 /\ last \notin DOMAIN findings
      BY DEF Inv, Typed
    <3>1. /\ DOMAIN findings' = DOMAIN findings \cup {last}
          /\ findings'[last] = [severity |-> severity, result |-> new]
      BY <2>4, <3>0, ReportAppends
    <3>2. /\ IsWarning(last)' <=> severity = "warning"
          /\ TunnelOf(last)' = r.tunnel
          /\ findings'[last].result \in DOMAIN results'
          /\ IsWarning(last)' => results'[findings'[last].result].tested
      BY <1>1, <3>1 DEF IsWarning, TunnelOf
    <3>3. \A f \in DOMAIN findings : severity = "warning" => TunnelOf(f) # r.tunnel
      BY <2>1 DEF TunnelOf
    <3>4. \A f, g \in DOMAIN findings' :
             IsWarning(f)' /\ IsWarning(g)' /\ TunnelOf(f)' = TunnelOf(g)' => f = g
      BY <2>2, <3>0, <3>1, <3>2, <3>3 DEF Inv, FindingsTell
    <3>5. ASSUME NEW i \in DOMAIN results', results'[i].verdict \in {"failed", "warned"}
          PROVE  \E f \in DOMAIN findings' : IsWarning(f)' /\ TunnelOf(f)' = results'[i].tunnel
      <4>1. CASE i = new /\ severity = "warning"
        BY <1>1, <3>1, <3>2, <4>1
      <4>2. CASE ~(i = new /\ severity = "warning")
        <5>1. PICK j \in DOMAIN results : /\ results[j].verdict \in {"failed", "warned"}
                                          /\ results[j].tunnel = results'[i].tunnel
          BY <1>1, <3>5, <4>2
        <5>2. PICK f \in DOMAIN findings : IsWarning(f) /\ TunnelOf(f) = results[j].tunnel
          BY <5>1 DEF Inv, FindingsTell
        <5> QED
          BY <2>2, <3>1, <5>1, <5>2
      <4> QED
        BY <4>1, <4>2
    <3> QED
      BY <2>2, <3>1, <3>2, <3>4, <3>5 DEF FindingsTell
  <2> QED
    BY <2>3, <2>4
<1> QED
  BY <1>3, <1>4, <1>5, <1>6, <1>7, <1>8 DEF Inv

LEMMA TargetIsListed ==
    ASSUME Inv, Len(results) < Len(targets)
    PROVE  Target \in Listed
<1>1. Len(results) \in Nat /\ Len(targets) \in Nat /\ DOMAIN targets = 1..Len(targets)
  BY CountOfTargets DEF Inv, Typed
<1> QED
  BY <1>1 DEF Target, Listed

\* A result without a request.
LEMMA UntestedResult ==
    ASSUME Inv, Len(results) < Len(targets), NEW local \in Nat, NEW found \in {"none", "unavailable"}
    PROVE  LET r == Result(Target, local, FALSE, found)
           IN  /\ r \in ResultType /\ r.tunnel = 0 /\ ~r.tested
               /\ r.verdict = found /\ r.target = Target
  BY TargetIsListed DEF Result, ResultType, Verdicts

LEMMA SkipInactiveKeepsInv ==
    ASSUME Inv, SkipInactive
    PROVE  Inv'
<1> DEFINE r == Result(Target, 0, FALSE, "none")
           severity == CASE Target.invalid -> "issue"
                         [] ~Target.invalid /\ Target.unavailable -> "unavailable"
                         [] OTHER -> "none"
<1>1. Report(r, severity)
  BY DEF SkipInactive
<1>2. severity \in {"issue", "unavailable", "none"}
  OBVIOUS
<1>3. Len(results) < Len(targets) /\ caller = "next" /\ verdict = "none" /\ ~Checking
  BY DEF SkipInactive, Pending, Inv, InOrder, Checking
<1>4. r \in ResultType /\ r.tunnel = 0 /\ ~r.tested /\ r.verdict = "none"
  BY <1>3, UntestedResult
<1>5. severity \in Severities \cup {"none"}
  BY <1>2 DEF Severities
<1>6. offset' \in Nat /\ offset' <= Len(results) + 1
  BY <1>3 DEF SkipInactive, Inv, Typed, InOrder
<1>7. 0 \in 0..Len(tunnels)
  BY DEF Inv, Typed
<1> HIDE DEF r, severity
<1> QED
  BY <1>1, <1>2, <1>3, <1>4, <1>5, <1>6, <1>7, ResultStep DEF SkipInactive

LEMMA ReuseResultKeepsInv ==
    ASSUME Inv, ReuseResult
    PROVE  Inv'
<1> DEFINE signature == CheckSignature(Target)
           from == checked[signature]
           origin == results[from]
           r == [origin EXCEPT !.target = Target, !.shared = TRUE]
<1>1. Report(r, "none")
  BY DEF ReuseResult
<1>2. Len(results) < Len(targets) /\ caller = "next" /\ verdict = "none" /\ ~Checking
  BY DEF ReuseResult, Pending, Inv, InOrder, Checking
<1>3. from \in DOMAIN results /\ CheckSignature(origin.target) = signature
  BY DEF ReuseResult, Reusable, Inv, CheckedTell
<1>4. origin \in ResultType /\ ResultTells(origin)
  BY <1>3 DEF Inv, Typed, ResultsTell
<1>5. /\ r \in ResultType /\ r.target = Target /\ r.tunnel = origin.tunnel
      /\ r.verdict = origin.verdict /\ r.tested = origin.tested
  <2> HIDE DEF origin
  <2> QED
    BY <1>2, <1>4, TargetIsListed DEF ResultType
<1>6. /\ Target.port = origin.target.port /\ Target.protocol = origin.target.protocol
      /\ Target.strict = origin.target.strict
  BY <1>3 DEF CheckSignature
<1>7. offset' \in Nat /\ offset' <= Len(results) + 1
  BY <1>2 DEF ReuseResult, Inv, Typed, InOrder
<1>8. origin.tested => Tells(situation.app, cancelled, r.target, r.verdict,
                             tunnels[r.tunnel].failure)
  BY <1>4, <1>5, <1>6 DEF ResultTells, Tells
<1>9. /\ UNCHANGED <<situation, targets, base, tunnels, checked, cancelled>>
      /\ caller' = "next" /\ verdict' = "none"
  BY <1>2 DEF ReuseResult
<1>10. "none" \in Severities \cup {"none"}
  OBVIOUS
<1>11. /\ r.tunnel \in 0..Len(tunnels)
       /\ r.tested <=> r.verdict \in {"ok", "warned", "failed"}
       /\ r.tested => /\ r.tunnel > 0
                      /\ tunnels[r.tunnel].ready
                      /\ tunnels[r.tunnel].remote = r.target.port
  BY <1>4, <1>5, <1>6 DEF ResultTells
<1>12. \E i \in DOMAIN results : results[i] = origin
  BY <1>3
<1> HIDE DEF r, origin
<1> QED
  BY <1>1, <1>2, <1>5, <1>7, <1>8, <1>9, <1>10, <1>11, <1>12, ResultStep

LEMMA PortOutOfRangeKeepsInv ==
    ASSUME Inv, PortOutOfRange
    PROVE  Inv'
<1> DEFINE r == Result(Target, base + offset, FALSE, "none")
<1>1. /\ Len(results) < Len(targets) /\ caller = "next" /\ verdict = "none" /\ ~Checking
      /\ offset' = offset + 1
  BY DEF PortOutOfRange, TakePort, NextPort, Pending, Inv, InOrder, Checking
<1>2. base + offset \in Nat /\ offset' \in Nat /\ offset' <= Len(results) + 1
  BY <1>1, MaxPortAssumption DEF Inv, Typed, InOrder
<1>3. r \in ResultType /\ r.tunnel = 0 /\ ~r.tested /\ r.verdict = "none"
  BY <1>1, <1>2, UntestedResult
<1>4. "unavailable" \in Severities \cup {"none"} /\ 0 \in 0..Len(tunnels)
  BY DEF Severities, Inv, Typed
<1> HIDE DEF r
<1> QED
  BY <1>1, <1>2, <1>3, <1>4, ResultStep DEF PortOutOfRange, TakePort, Pending, r

LEMMA ForwardFailsKeepsInv ==
    ASSUME Inv, ForwardFails
    PROVE  Inv'
<1> DEFINE r == [Result(Target, base + offset, FALSE, "unavailable") EXCEPT !.tunnel = 0]
<1>1. /\ Len(results) < Len(targets) /\ caller = "next" /\ verdict = "none" /\ ~Checking
      /\ offset' = offset + 1
  BY DEF ForwardFails, TakePort, NextPort, Pending, Inv, InOrder, Checking
<1>2. base + offset \in Nat /\ offset' \in Nat /\ offset' <= Len(results) + 1
  BY <1>1, MaxPortAssumption DEF Inv, Typed, InOrder
<1>3. /\ r \in ResultType /\ r.tunnel = 0 /\ ~r.tested /\ r.verdict = "unavailable"
      /\ r.target = Target
  BY <1>1, <1>2, TargetIsListed DEF Result, ResultType, Verdicts
<1>4. Judge("unavailable") = "unavailable"
  BY DEF Judge
<1>5. Report(r, "unavailable")
  BY <1>4 DEF ForwardFails, Conclude
<1>6. UNCHANGED checked \/ Remember(CheckSignature(r.target), Len(results) + 1)
  BY <1>3 DEF ForwardFails, Conclude
<1>7. "unavailable" \in Severities \cup {"none"} /\ 0 \in 0..Len(tunnels)
  BY DEF Severities, Inv, Typed
<1> HIDE DEF r
<1> QED
  BY <1>1, <1>2, <1>3, <1>5, <1>6, <1>7, ResultStep DEF ForwardFails

LEMMA FinishCheckKeepsInv ==
    ASSUME Inv, FinishCheck
    PROVE  Inv'
<1> DEFINE plain == Result(Target, Tunnel.local, verdict # "unavailable", verdict)
           r == [plain EXCEPT !.tunnel = Current]
<1>1. Checking /\ caller = "closing" /\ Len(results) < Len(targets) /\ verdict \in Verdicts
  BY DEF FinishCheck, Inv, Typed, InOrder, Checking
<1>2. Current \in DOMAIN tunnels /\ Tunnel \in TunnelType /\ Current \in Nat /\ Current > 0
  BY <1>1, TunnelOfACheck DEF Inv, Typed, Current
<1>3. verdict \in {"unavailable", "ok", "warned", "failed"}
  BY <1>1 DEF Verdicts, Inv, VerdictTells
<1>4. /\ r \in ResultType /\ r.tunnel = Current /\ r.verdict = verdict /\ r.target = Target
      /\ r.tested <=> verdict # "unavailable"
  <2>1. Tunnel.local \in Nat
    BY <1>2, MaxPortAssumption DEF TunnelType
  <2> QED
    BY <1>1, <1>2, <2>1, TargetIsListed DEF Result, ResultType
<1>5. Report(r, Judge(verdict))
  BY DEF FinishCheck, Conclude
<1>6. /\ Judge(verdict) \in Severities \cup {"none"}
      /\ Judge(verdict) = "warning" <=> verdict \in {"failed", "warned"}
  BY <1>3 DEF Judge, Severities
<1>7. UNCHANGED checked \/ Remember(CheckSignature(r.target), Len(results) + 1)
  BY <1>4 DEF FinishCheck, Conclude
<1>8. offset' \in Nat /\ offset' <= Len(results) + 1
  BY <1>1 DEF FinishCheck, Inv, Typed, InOrder
<1>9. r.tested => /\ tunnels[r.tunnel].ready
                  /\ tunnels[r.tunnel].remote = r.target.port
                  /\ Tells(situation.app, cancelled, r.target, r.verdict,
                           tunnels[r.tunnel].failure)
  BY <1>1, <1>3, <1>4 DEF Inv, VerdictTells, InOrder, Tunnel
<1>10. \A i \in DOMAIN results : results[i].tunnel # Current
  BY <1>1, <1>2 DEF Inv, ResultsTell, ResultTells
<1>11. Current \in 0..Len(tunnels)
  BY <1>2 DEF Current
<1> HIDE DEF r
<1> QED
  BY <1>1, <1>2, <1>3, <1>4, <1>5, <1>6, <1>7, <1>8, <1>9, <1>10, <1>11, ResultStep
  DEF FinishCheck

LEMMA ForwardKeepsInv ==
    ASSUME Inv, Forward
    PROVE  Inv'
<1> DEFINE t == NewTunnel(base + offset, Target.port)
<1>1. /\ Len(results) < Len(targets) /\ caller = "next" /\ verdict = "none" /\ ~Checking
      /\ offset' = offset + 1 /\ Target.active
  BY DEF Forward, TakePort, NextPort, Pending, Inv, InOrder, Checking
<1>2. t \in TunnelType /\ SoundTunnel(t) /\ t.stop = 0 /\ t.remote = Target.port
  <2>1. base + offset \in 1..MaxPort
    BY MaxPortAssumption DEF Forward, Inv, Typed
  <2>2. Len(results) + 1 \in DOMAIN targets
    BY <1>1, CountOfTargets DEF Inv, Typed
  <2>3. Target.port \in 1..MaxPort
    BY <1>1, <2>2, SituationsAssumption DEF Inv, Typed, Target
  <2> QED
    BY <2>1, <2>3 DEF NewTunnel, TunnelType, SoundTunnel, Forwarders, Failures
<1> HIDE DEF t
<1>3. tunnels' = Append(tunnels, t)
  BY DEF Forward, t
<1>4. /\ tunnels' \in Seq(TunnelType) /\ Len(tunnels') = Len(tunnels) + 1
      /\ \A k \in DOMAIN tunnels : k \in DOMAIN tunnels' /\ tunnels'[k] = tunnels[k]
      /\ DOMAIN tunnels' = DOMAIN tunnels \cup {Len(tunnels) + 1}
      /\ tunnels'[Len(tunnels) + 1] = t
      /\ tunnels' # <<>>
  BY <1>2, <1>3 DEF Inv, Typed
<1>5. /\ Checking' /\ Target' = Target /\ ResultType' = ResultType /\ Current' = Current + 1
      /\ Tunnel' = t /\ caller' = "waiting" /\ caller' \in Callers /\ verdict' = verdict
  BY <1>4 DEF Forward, Checking, Target, ResultType, Listed, Current, Tunnel, Callers
<1>6. Typed'
  BY <1>1, <1>4, <1>5 DEF Forward, Inv, Typed
<1>7. InOrder'
  BY <1>1, <1>2, <1>4, <1>5 DEF Forward, Inv, Typed, InOrder
<1>8. TunnelsAreSound'
  BY <1>2, <1>4, <1>5 DEF Inv, TunnelsAreSound
<1>9. VerdictTells'
  BY <1>5 DEF VerdictTells
<1>10. ResultsTell'
  <2> SUFFICES ASSUME NEW i \in DOMAIN results PROVE ResultTells(results[i])'
    BY DEF ResultsTell, Forward
  <2>1. ResultTells(results[i])
    BY DEF Inv, ResultsTell
  <2>2. Len(tunnels) \in Nat /\ DOMAIN tunnels = 1..Len(tunnels)
    BY DEF Inv, Typed
  <2>3. results[i].tested => results[i].tunnel \in DOMAIN tunnels
    BY <2>1, <2>2 DEF ResultTells
  <2> QED
    BY <1>4, <1>5, <2>1, <2>2, <2>3 DEF ResultTells, Current, Forward
<1>11. CheckedTell' /\ FindingsTell'
  BY DEF Forward, Inv, CheckedTell, FindingsTell, IsWarning, TunnelOf
<1> QED
  BY <1>6, <1>7, <1>8, <1>9, <1>10, <1>11 DEF Inv

LEMMA FinishKeepsInv ==
    ASSUME Inv, Finish
    PROVE  Inv'
<1>1. ~Checking /\ ~Checking' /\ ResultType' = ResultType /\ caller' \in Callers
  BY DEF Finish, Checking, ResultType, Listed, Callers
<1>2. Typed' /\ InOrder'
  BY <1>1 DEF Finish, Inv, Typed, InOrder
<1>3. TunnelsAreSound' /\ VerdictTells'
  BY DEF Finish, Inv, TunnelsAreSound, VerdictTells
<1>4. ResultsTell' /\ CheckedTell' /\ FindingsTell'
  BY <1>1 DEF Finish, Inv, ResultsTell, ResultTells, CheckedTell, FindingsTell, IsWarning, TunnelOf
<1> QED
  BY <1>2, <1>3, <1>4 DEF Inv

-----------------------------------------------------------------------------
(* The theorems. *)

LEMMA NextKeepsInv == Inv /\ [Next]_vars => Inv'
<1> SUFFICES ASSUME Inv, [Next]_vars PROVE Inv'
  OBVIOUS
<1>1. CASE Check
  BY <1>1, SkipInactiveKeepsInv, ReuseResultKeepsInv, PortOutOfRangeKeepsInv,
     ForwardFailsKeepsInv, ForwardKeepsInv, SeeCancelledKeepsInv, SeeErrorKeepsInv,
     SeeReadyKeepsInv, DialKeepsInv, ReadKeepsInv, FinishCheckKeepsInv, FinishKeepsInv
  DEF Check
<1>2. CASE \E k \in DOMAIN tunnels : Forwarder(k) \/ LoseConnection(k) \/ Watch(k)
  BY <1>2, ForwarderKeepsInv, WatchKeepsInv
<1>3. CASE Interrupt
  BY <1>3, InterruptKeepsInv
<1>4. CASE UNCHANGED vars
  <2> USE <1>4 DEF vars
  <2>1. Typed' /\ InOrder' /\ TunnelsAreSound' /\ VerdictTells'
    BY DEF Inv, Typed, InOrder, TunnelsAreSound, VerdictTells, Checking, Target, Tunnel, Current,
           ResultType, Listed
  <2>2. ResultsTell' /\ CheckedTell' /\ FindingsTell'
    BY DEF Inv, ResultsTell, ResultTells, CheckedTell, FindingsTell, IsWarning, TunnelOf, Checking,
           Current
  <2> QED
    BY <2>1, <2>2 DEF Inv
<1> QED
  BY <1>1, <1>2, <1>3, <1>4 DEF Next

LEMMA Invariance == Spec => []Inv
  BY InitInv, NextKeepsInv, PTL DEF Spec

\* The state is well typed.  In particular no stop channel is closed twice,
\* though both the caller and the watcher cancel, and no error channel holds
\* more than its buffer.
THEOREM TypeCorrect == Spec => []TypeOK
  BY Invariance, InvTypes, PTL

\* Every result is true of its own target, also one that was obtained for another
\* target with the same request.
THEOREM ResultsTellTheTruthHolds == Spec => []ResultsTellTheTruth
  BY Invariance, InvTruth, PTL

\* Every warning is about a request that went through an open tunnel to the port
\* it names, and one request raises one warning.
THEOREM WarningsAreObservationsHolds == Spec => []WarningsAreObservations
  BY Invariance, InvWarnings, PTL
=============================================================================
