------------------------------- MODULE Collect -------------------------------
(***************************************************************************)
(* The snapshot collector of internal/kube: Collect fans the list calls of *)
(* the task table out to at most Limit workers, buffers their results in a *)
(* channel, and writes the snapshot serially once every worker is done.    *)
(* The API server, the user's interrupt and errgroup are the environment.  *)
(* The order of the task table is left open: any requested task may be the *)
(* next one the loop starts.                                               *)
(***************************************************************************)
EXTENDS Integers, Sequences, FiniteSets

CONSTANTS
    Keys,           \* task table without the extra "all_pods" task
    Optional,       \* keys listed through listOptionalDynamicVersions
    NumVersions,    \* candidate API versions of an optional key
    Workers,        \* Config.Workers
    MaxPages,       \* bound: pages the server may return for one list
    WarningTexts,   \* texts of the Warning headers the server may send
    MaxDate,        \* bound: latest Date header, 0 stands for no date
    MaxRounds,      \* bound: collections of one process (watch mode)
    NoView          \* what the caller holds while Collect runs

ASSUME KeysAssumption ==
    /\ IsFiniteSet(Keys)
    /\ "pods" \in Keys /\ "all_pods" \notin Keys
    /\ Optional \subseteq Keys \ {"pods"}
ASSUME NumbersAssumption ==
    /\ NumVersions \in Nat \ {0}
    /\ MaxPages \in Nat \ {0}
    /\ MaxDate \in Nat
    /\ MaxRounds \in Nat
    /\ Workers \in Int

AllKeys == Keys \union {"all_pods"}

VARIABLES
    clusterWide,    \* Config.Namespace is empty
    only,           \* Collector.Only
    pc,             \* where Collect stands
    round,          \* collections begun so far
    pending,        \* tasks the loop has not started yet
    task,           \* the goroutine of each key
    results,        \* the buffered results channel
    groupFailed,    \* errgroup saw a non-nil error and cancelled its context
    cancelled,      \* the caller's context is done
    snapshot,       \* the Snapshot being filled
    warnings,       \* warningRecorder.values
    serverTime,     \* requestTracer.serverTime
    heard,          \* history: warnings sent since the last snapshot
    dates,          \* history: Date headers of the responses since Begin
    ownFailure      \* history: keys whose own request failed in this collection

config == <<clusterWide, only>>
wire == <<warnings, serverTime, heard, dates>>
vars == <<clusterWide, only, pc, round, pending, task, results, groupFailed,
          cancelled, snapshot, warnings, serverTime, heard, dates, ownFailure>>

-----------------------------------------------------------------------------
(* Data *)

Errors == {"nil", "notfound", "error"}

\* What a list function returns: how many pages it read, whether it saw the
\* end of the list, and its error.
ListResults == [pages : 0..MaxPages, whole : BOOLEAN, err : Errors]

NothingRead == [pages |-> 0, whole |-> FALSE, err |-> "nil"]

Idle == [st |-> "idle", version |-> 1, list |-> NothingRead]

Tasks == [st : {"idle", "running", "sending", "done"},
          version : 1..NumVersions, list : ListResults]

\* FetchStatus, reduced to its classification.
Statuses == {"none", "ok", "notfound", "error"}

Snapshots == [status : [AllKeys -> Statuses], field : [AllKeys -> ListResults],
              warnings : SUBSET WarningTexts, time : 0..MaxDate]

NewSnapshot == [status |-> [k \in AllKeys |-> "none"],
                field |-> [k \in AllKeys |-> NothingRead],
                warnings |-> {}, time |-> 0]

Wants(key) == only = {} \/ key \in only

\* The task table after the extra all_pods entry: a cluster-wide Pod list
\* already serves both views.
CollectTasks ==
    Keys \union (IF ~clusterWide \/ (Wants("all_pods") /\ ~Wants("pods"))
                 THEN {"all_pods"} ELSE {})

\* Mutant: the channel is sized for the workers.
CapacityOfWorkers == Workers

\* The results channel is made as large as the task table.
ResultCapacity == Cardinality(CollectTasks)

Limit == LET capped == IF Workers < 16 THEN Workers ELSE 16
         IN  IF capped > 1 THEN capped ELSE 1

Active == {k \in AllKeys : task[k].st \in {"running", "sending"}}

\* A request made under groupContext fails once that context is done.
ContextDone == cancelled \/ groupFailed

\* Mutant: the classification forgets that no error means ok.
UnclassifiedStatus(err) == err

FetchStatus(err) == IF err = "nil" THEN "ok" ELSE err

-----------------------------------------------------------------------------
(* Effects of one response on the shared recorders *)

Record(date, texts) ==
    /\ serverTime' = IF date > serverTime THEN date ELSE serverTime
    /\ warnings' = warnings \union texts
    /\ heard' = heard \union texts
    /\ dates' = dates \union ({date} \ {0})

Response == \E date \in 0..MaxDate, texts \in SUBSET WarningTexts : Record(date, texts)

-----------------------------------------------------------------------------
(* The caller: Preflight, one collection after the other *)

Preflight ==
    /\ pc = "preflight"
    /\ Response
    /\ pc' \in {"ready", "failed"}
    /\ UNCHANGED <<config, round, pending, task, results, groupFailed, cancelled, snapshot,
                   ownFailure>>

\* Mutant: the warnings are drained together with the clock.
ResetEverything ==
    /\ serverTime' = 0
    /\ dates' = {}
    /\ warnings' = {}
    /\ UNCHANGED heard

\* Clients.BeginCollection resets the clock and keeps the warnings.
BeginCollection ==
    /\ serverTime' = 0
    /\ dates' = {}
    /\ UNCHANGED <<warnings, heard>>

Begin ==
    /\ pc \in {"ready", "returned"}
    /\ round < MaxRounds
    /\ round' = round + 1
    /\ pc' = "spawn"
    /\ BeginCollection
    /\ snapshot' = NewSnapshot
    /\ pending' = {k \in CollectTasks : Wants(k)}
    /\ task' = [k \in AllKeys |-> Idle]
    /\ results' = <<>>
    /\ groupFailed' = FALSE
    /\ ownFailure' = {}
    /\ UNCHANGED <<config, cancelled>>

\* Between two collections the same clients serve other requests (Pod
\* refresh, current logs, port-forward dials).
OtherRequest ==
    /\ pc = "returned"
    /\ ~cancelled
    /\ Response
    /\ UNCHANGED <<config, pc, round, pending, task, results, groupFailed, cancelled, snapshot,
                   ownFailure>>

Cancel ==
    /\ pc # "failed"
    /\ ~cancelled
    /\ cancelled' = TRUE
    /\ UNCHANGED <<config, pc, round, pending, task, results, groupFailed, snapshot, wire,
                   ownFailure>>

-----------------------------------------------------------------------------
(* Collect: start the workers, wait, apply *)

\* group.Go blocks while Limit functions are running.
Spawn(k) ==
    /\ pc = "spawn"
    /\ k \in pending
    /\ Cardinality(Active) < Limit
    /\ pending' = pending \ {k}
    /\ task' = [task EXCEPT ![k].st = "running"]
    /\ UNCHANGED <<config, pc, round, results, groupFailed, cancelled, snapshot, wire,
                   ownFailure>>

Wait ==
    /\ pc = "spawn"
    /\ pending = {}
    /\ Active = {}
    /\ pc' = "apply"
    /\ UNCHANGED <<config, round, pending, task, results, groupFailed, cancelled, snapshot, wire,
                   ownFailure>>

\* The update closures: the Pod list of a cluster-wide run fills two fields.
Update(field, k, list) ==
    IF k = "pods" /\ clusterWide
    THEN [field EXCEPT !["pods"] = list, !["all_pods"] = list]
    ELSE [field EXCEPT ![k] = list]

Apply ==
    /\ pc = "apply"
    /\ results # <<>>
    /\ LET k == Head(results)
           list == task[k].list
       IN  snapshot' = [status |-> [snapshot.status EXCEPT ![k] = FetchStatus(list.err)],
                        field |-> Update(snapshot.field, k, list),
                        warnings |-> snapshot.warnings, time |-> snapshot.time]
    /\ results' = Tail(results)
    /\ UNCHANGED <<config, pc, round, pending, task, groupFailed, cancelled, wire, ownFailure>>

\* Mutant: the second Pod view gets no status.
NoAlias(status) == status

\* Alias the cluster-wide Pod status, drain the warnings, stamp the time.
AliasAllPods(status) ==
    IF clusterWide /\ Wants("all_pods") /\ status["pods"] # "none"
    THEN [status EXCEPT !["all_pods"] = status["pods"]]
    ELSE status

Return ==
    /\ pc = "apply"
    /\ results = <<>>
    /\ snapshot' = [status |-> AliasAllPods(snapshot.status), field |-> snapshot.field,
                    warnings |-> warnings, time |-> serverTime]
    /\ warnings' = {}
    /\ heard' = {}
    /\ pc' = "returned"
    /\ UNCHANGED <<config, round, pending, task, results, groupFailed, cancelled,
                   serverTime, dates, ownFailure>>

-----------------------------------------------------------------------------
(* A worker: the paging loop of a list function *)

Advance(k, list) == task' = [task EXCEPT ![k].list = list]

Finish(k, list) ==
    task' = [task EXCEPT ![k] = [st |-> "sending", version |-> task[k].version, list |-> list]]

Running(k) ==
    /\ task[k].st = "running"
    /\ UNCHANGED <<config, pc, round, pending, results, groupFailed, cancelled, snapshot>>

ReadPage(k) ==
    /\ Running(k)
    /\ ~ContextDone
    /\ task[k].list.pages < MaxPages
    /\ LET read == [task[k].list EXCEPT !.pages = @ + 1]
       IN  \/ read.pages < MaxPages /\ Advance(k, read)       \* Continue token
           \/ Finish(k, [read EXCEPT !.whole = TRUE])         \* last page
    /\ Response
    /\ UNCHANGED ownFailure

\* Mutant: the error of a later page is swallowed.
FailPageQuietly(k) ==
    /\ Running(k)
    /\ ~ContextDone
    /\ \E err \in Errors \ {"nil"} :
         /\ err = "notfound" => k \notin Optional
         /\ Finish(k, IF task[k].list.pages > 0 THEN task[k].list
                       ELSE [task[k].list EXCEPT !.err = err])
    /\ Response
    /\ ownFailure' = ownFailure \union {k}

\* A failed page returns what was read so far together with the error, be it
\* the server's answer or a request that got none.
FailPage(k) ==
    /\ Running(k)
    /\ ~ContextDone
    /\ \E err \in Errors \ {"nil"} :
         /\ err = "notfound" => k \notin Optional
         /\ Finish(k, [task[k].list EXCEPT !.err = err])
    /\ Response
    /\ ownFailure' = ownFailure \union {k}

\* Under a done context the next request fails without reaching the server.
AbortPage(k) ==
    /\ Running(k)
    /\ ContextDone
    /\ Finish(k, [task[k].list EXCEPT !.err = "error"])
    /\ UNCHANGED <<wire, ownFailure>>

\* An optional API answers NotFound: ask for the next version from its first
\* page, and report an empty list when no version is served.
NotServed(k) ==
    /\ Running(k)
    /\ ~ContextDone
    /\ k \in Optional
    /\ \/ /\ task[k].version < NumVersions
          /\ task' = [task EXCEPT ![k] = [st |-> "running", version |-> task[k].version + 1,
                                            list |-> NothingRead]]
       \/ /\ task[k].version = NumVersions
          /\ Finish(k, [NothingRead EXCEPT !.whole = TRUE])
    /\ Response
    /\ UNCHANGED ownFailure

\* Mutant: the worker hands its error to the group.
GroupReturnsError(list) == list.err

\* The error value the group function returns to errgroup.
GroupReturn(list) == "nil"

Send(k) ==
    /\ task[k].st = "sending"
    /\ Len(results) < ResultCapacity
    /\ results' = Append(results, k)
    /\ task' = [task EXCEPT ![k].st = "done"]
    /\ groupFailed' = (groupFailed \/ GroupReturn(task[k].list) # "nil")
    /\ UNCHANGED <<config, pc, round, pending, cancelled, snapshot, wire, ownFailure>>

Worker(k) == ReadPage(k) \/ FailPage(k) \/ AbortPage(k) \/ NotServed(k) \/ Send(k)

Collector == Wait \/ Apply \/ Return \/ \E k \in AllKeys : Spawn(k)

-----------------------------------------------------------------------------

Init ==
    /\ clusterWide \in BOOLEAN
    /\ only \in SUBSET AllKeys
    /\ pc = "preflight"
    /\ round = 0
    /\ pending = {}
    /\ task = [k \in AllKeys |-> Idle]
    /\ results = <<>>
    /\ groupFailed = FALSE
    /\ cancelled = FALSE
    /\ snapshot = NewSnapshot
    /\ warnings = {}
    /\ serverTime = 0
    /\ heard = {}
    /\ dates = {}
    /\ ownFailure = {}

Next ==
    \/ Preflight
    \/ Begin
    \/ OtherRequest
    \/ Cancel
    \/ Collector
    \/ \E k \in AllKeys : Worker(k)

Spec == Init /\ [][Next]_vars

\* Go schedules the collecting goroutine and every worker, and rest.Config's
\* Timeout ends every request, so each of them keeps moving. Nothing makes the
\* caller begin a collection or the user interrupt it.
Fairness ==
    /\ WF_vars(Collector)
    /\ \A k \in AllKeys : WF_vars(Worker(k))

FairSpec == Spec /\ Fairness

-----------------------------------------------------------------------------
(* Properties *)

TypeOK ==
    /\ clusterWide \in BOOLEAN
    /\ only \subseteq AllKeys
    /\ pc \in {"preflight", "ready", "failed", "spawn", "apply", "returned"}
    /\ round \in 0..MaxRounds
    /\ pending \subseteq AllKeys
    /\ task \in [AllKeys -> Tasks]
    /\ results \in Seq(AllKeys)
    /\ groupFailed \in BOOLEAN
    /\ cancelled \in BOOLEAN
    /\ snapshot \in Snapshots
    /\ warnings \subseteq WarningTexts
    /\ serverTime \in 0..MaxDate
    /\ heard \subseteq WarningTexts
    /\ dates \subseteq 1..MaxDate
    /\ ownFailure \subseteq AllKeys

\* At no moment do more than Limit requests run: the API server is never
\* asked by more workers than configured, and never by more than 16.
WorkerLimit == Cardinality(Active) <= Limit

\* A status of "ok" is only ever attached to a list whose last page was read;
\* in particular a list cut short by an error or by a Continue token, or one
\* half read under an older API version, never passes for the whole.
AvailableMeansWhole ==
    \A k \in AllKeys : snapshot.status[k] = "ok" => snapshot.field[k].whole

\* The snapshot handed out carries a status for every requested key, so a rule
\* can tell "nothing there" from "could not read", and for no other key.
EveryRequestAnswered ==
    pc = "returned" => \A k \in AllKeys : snapshot.status[k] # "none" <=> Wants(k)

\* In a cluster-wide run both Pod views carry the same list and, when both are
\* wanted, the same status: they cannot come from two different requests.
PodViewsAgree ==
    (pc = "returned" /\ clusterWide /\ Wants("pods")) =>
        /\ snapshot.field["all_pods"] = snapshot.field["pods"]
        /\ Wants("all_pods") => snapshot.status["all_pods"] = snapshot.status["pods"]

\* While nothing was interrupted, a key is reported unreadable only because
\* its own request failed (or, for the aliased Pod view, that of "pods"): one
\* failing list never takes another one down.
FailuresAreIsolated ==
    (pc = "returned" /\ ~cancelled) =>
        \A k \in AllKeys : snapshot.status[k] \in {"notfound", "error"} =>
            \/ k \in ownFailure
            \/ k = "all_pods" /\ clusterWide /\ "pods" \in ownFailure

\* What a snapshot takes from the recorders that all rounds share belongs to its
\* own round: its clock is the latest Date of this collection, never one left
\* over, and it has every Warning since the last snapshot, the preflight's too.
RecordersServeTheirRound ==
    [][pc' = "returned" /\ pc # "returned" =>
        /\ snapshot'.time \in dates \union {0}
        /\ \A d \in dates : d <= snapshot'.time
        /\ snapshot'.warnings = heard]_vars

\* Every collection ends, whether the server answers, fails or the user
\* interrupts: no worker waits for a free slot or a full channel for ever.
CollectReturns == (pc = "spawn") ~> (pc = "returned")

\* The caller sees nothing of the interleaving: a collection is one atomic
\* read that satisfies the contract of ClusterView.
ViewStatus == [status |-> snapshot.status, field |-> snapshot.field]

Contract == INSTANCE ClusterView WITH
    view <- IF pc = "returned" THEN ViewStatus ELSE NoView

ImplementsClusterView == Contract!Spec
-----------------------------------------------------------------------------
(* The inductive invariant behind the safety properties *)

Planned == {k \in CollectTasks : Wants(k)}

Buffered == {results[i] : i \in DOMAIN results}

\* Every planned task is waiting, running, buffered or applied: exactly one.
Accounting ==
    /\ pc # "spawn" => Active = {}
    /\ pc = "spawn" =>
        /\ pending \subseteq Planned
        /\ \A k \in AllKeys : task[k].st # "idle" <=> k \in Planned \ pending
        /\ \A k \in AllKeys : task[k].st = "done" <=> k \in Buffered
        /\ \A k \in AllKeys : snapshot.status[k] = "none"
    /\ pc = "apply" =>
        /\ \A k \in AllKeys : task[k].st = "done" <=> k \in Planned
        /\ \A k \in AllKeys : k \in Planned <=> (k \in Buffered \/ snapshot.status[k] # "none")

\* A finished list without an error was read to its end.
FinishedLists ==
    \A k \in AllKeys :
        (task[k].st \in {"sending", "done"} /\ task[k].list.err = "nil") => task[k].list.whole

\* What Apply wrote is what the workers read.
AppliedLists ==
    pc = "apply" => \A k \in AllKeys : snapshot.status[k] # "none" =>
        /\ snapshot.status[k] = FetchStatus(task[k].list.err)
        /\ snapshot.field[k] = task[k].list
        /\ (k = "pods" /\ clusterWide) => snapshot.field["all_pods"] = task[k].list

CollectInv ==
    /\ TypeOK
    /\ WorkerLimit
    /\ Accounting
    /\ FinishedLists
    /\ AppliedLists
    /\ AvailableMeansWhole
    /\ EveryRequestAnswered
    /\ PodViewsAgree

\* An error in a task's list is the answer to its own request as long as the
\* context shared by all of them is alive: the group never cancels it.
ErrorsAreOwn ==
    /\ ~groupFailed
    /\ ~cancelled => \A k \in AllKeys : task[k].list.err # "nil" => k \in ownFailure

\* The clock is the latest date heard since it was reset, and the warnings are
\* those heard since they were drained.
RecordersInStep ==
    /\ serverTime \in dates \union {0}
    /\ \A d \in dates : d <= serverTime
    /\ warnings = heard

FailureInv == ErrorsAreOwn /\ RecordersInStep /\ FailuresAreIsolated
=============================================================================
