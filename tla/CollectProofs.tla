---------------------------- MODULE CollectProofs ----------------------------
(***************************************************************************)
(* Proofs about Collect for every task table, worker count, page bound,    *)
(* scope and request set. The inductive invariant is CollectInv: types,    *)
(* the slot count, the accounting of tasks and results, and what a         *)
(* finished and an applied list are.                                       *)
(***************************************************************************)
EXTENDS Collect, FiniteSetTheorems, TLAPS

USE KeysAssumption, NumbersAssumption DEF KeysAssumption, NumbersAssumption

-----------------------------------------------------------------------------
(* Types *)

\* The types of the values the actions assign.
LEMMA ValueTypes ==
    /\ NothingRead \in ListResults
    /\ Idle \in Tasks
    /\ NewSnapshot \in Snapshots
    /\ CollectTasks \subseteq AllKeys
    /\ Limit \in Nat /\ Limit >= 1
    /\ \A list \in ListResults : FetchStatus(list.err) \in Statuses \ {"none"}
<1>1. NothingRead \in ListResults
  BY DEF NothingRead, ListResults, Errors
<1>2. Idle \in Tasks
  BY <1>1 DEF Idle, Tasks
<1>3. NewSnapshot \in Snapshots
  BY <1>1 DEF NewSnapshot, Snapshots, Statuses
<1>4. CollectTasks \subseteq AllKeys
  BY DEF CollectTasks, AllKeys
<1>5. Limit \in Nat /\ Limit >= 1
  BY DEF Limit
<1>6. \A list \in ListResults : FetchStatus(list.err) \in Statuses \ {"none"}
  BY DEF ListResults, FetchStatus, Statuses, Errors
<1> QED
  BY <1>1, <1>2, <1>3, <1>4, <1>5, <1>6

\* A response only moves the recorders, within their types.
LEMMA ResponseType ==
    ASSUME TypeOK, Response
    PROVE  /\ serverTime' \in 0..MaxDate
           /\ warnings' \subseteq WarningTexts
           /\ heard' \subseteq WarningTexts
           /\ dates' \subseteq 1..MaxDate
BY DEF TypeOK, Response, Record

\* A worker that ends its list keeps the task table well typed.
LEMMA FinishType ==
    ASSUME TypeOK, NEW k \in AllKeys, NEW list \in ListResults,
           Finish(k, list) \/ Advance(k, list)
    PROVE  task' \in [AllKeys -> Tasks]
<1>1. task \in [AllKeys -> Tasks] /\ task[k] \in Tasks
  BY DEF TypeOK
<1>2. /\ [st |-> "sending", version |-> task[k].version, list |-> list] \in Tasks
      /\ [task[k] EXCEPT !.list = list] \in Tasks
  BY <1>1 DEF Tasks
<1> QED
  BY <1>1, <1>2 DEF Finish, Advance

LEMMA WorkerTypes ==
    ASSUME TypeOK, NEW k \in AllKeys, Worker(k)
    PROVE  TypeOK'
<1>0. task[k] \in Tasks /\ task[k].list \in ListResults
  BY DEF TypeOK, Tasks
<1>1. CASE ReadPage(k)
  <2>1. [task[k].list EXCEPT !.pages = @ + 1] \in ListResults
    BY <1>0, <1>1 DEF ReadPage, ListResults
  <2>2. [[task[k].list EXCEPT !.pages = @ + 1] EXCEPT !.whole = TRUE] \in ListResults
    BY <2>1 DEF ListResults
  <2>3. task' \in [AllKeys -> Tasks]
    BY <1>1, <2>1, <2>2, FinishType DEF ReadPage
  <2> QED
    BY <1>1, <2>3, ResponseType DEF ReadPage, Running, TypeOK, config
<1>2. CASE FailPage(k)
  <2>1. \A err \in Errors : [task[k].list EXCEPT !.err = err] \in ListResults
    BY <1>0 DEF ListResults
  <2>2. task' \in [AllKeys -> Tasks]
    BY <1>2, <2>1, FinishType DEF FailPage
  <2> QED
    BY <1>2, <2>2, ResponseType DEF FailPage, Running, TypeOK, config
<1>3. CASE AbortPage(k)
  <2>1. [task[k].list EXCEPT !.err = "error"] \in ListResults
    BY <1>0 DEF ListResults, Errors
  <2>2. task' \in [AllKeys -> Tasks]
    BY <1>3, <2>1, FinishType DEF AbortPage
  <2> QED
    BY <1>3, <2>2 DEF AbortPage, Running, TypeOK, config, wire
<1>4. CASE NotServed(k)
  <2>1. [NothingRead EXCEPT !.whole = TRUE] \in ListResults
    BY ValueTypes DEF ListResults
  <2>2. task' \in [AllKeys -> Tasks]
    <3>1. CASE Finish(k, [NothingRead EXCEPT !.whole = TRUE])
      BY <2>1, <3>1, FinishType
    <3>2. CASE /\ task[k].version < NumVersions
               /\ task' = [task EXCEPT ![k] = [st |-> "running",
                                                version |-> task[k].version + 1,
                                                list |-> NothingRead]]
      BY <1>0, <3>2, ValueTypes DEF Tasks, TypeOK
    <3> QED
      BY <1>4, <3>1, <3>2 DEF NotServed
  <2> QED
    BY <1>4, <2>2, ResponseType DEF NotServed, Running, TypeOK, config
<1>5. CASE Send(k)
  <2>1. task' \in [AllKeys -> Tasks]
    BY <1>0, <1>5 DEF Send, TypeOK, Tasks
  <2>2. results' \in Seq(AllKeys)
    BY <1>5 DEF Send, TypeOK
  <2> QED
    BY <1>5, <2>1, <2>2 DEF Send, TypeOK, config, wire
<1> QED
  BY <1>1, <1>2, <1>3, <1>4, <1>5 DEF Worker

LEMMA CollectorTypes ==
    ASSUME TypeOK, Collector
    PROVE  TypeOK'
<1>0. /\ snapshot.status \in [AllKeys -> Statuses]
      /\ snapshot.field \in [AllKeys -> ListResults]
  BY DEF TypeOK, Snapshots
<1>1. ASSUME NEW k \in AllKeys, Spawn(k)
      PROVE  TypeOK'
  <2>1. task' \in [AllKeys -> Tasks]
    BY <1>1 DEF Spawn, TypeOK, Tasks
  <2> QED
    BY <1>1, <2>1 DEF Spawn, TypeOK, config, wire
<1>2. CASE Wait
  BY <1>2 DEF Wait, TypeOK, config, wire
<1>3. CASE Apply
  <2> DEFINE k == Head(results)
             list == task[k].list
  <2>1. k \in AllKeys /\ results' \in Seq(AllKeys)
    BY <1>3 DEF Apply, TypeOK
  <2>2. list \in ListResults /\ FetchStatus(list.err) \in Statuses
    BY <2>1, ValueTypes DEF TypeOK, Tasks
  <2>3. Update(snapshot.field, k, list) \in [AllKeys -> ListResults]
    BY <1>0, <2>1, <2>2 DEF Update
  <2>4. snapshot' \in Snapshots
    BY <1>0, <1>3, <2>1, <2>2, <2>3 DEF Apply, TypeOK, Snapshots
  <2> QED
    BY <1>3, <2>1, <2>4 DEF Apply, TypeOK, config, wire
<1>4. CASE Return
  <2>1. "pods" \in AllKeys
    BY DEF AllKeys
  <2>2. AliasAllPods(snapshot.status) \in [AllKeys -> Statuses]
    BY <1>0, <2>1 DEF AliasAllPods
  <2>3. snapshot' \in Snapshots
    BY <1>0, <1>4, <2>2 DEF Return, TypeOK, Snapshots
  <2> QED
    BY <1>4, <2>3 DEF Return, TypeOK, config
<1> QED
  BY <1>1, <1>2, <1>3, <1>4 DEF Collector

LEMMA CallerTypes ==
    ASSUME TypeOK, Preflight \/ Begin \/ OtherRequest \/ Cancel
    PROVE  TypeOK'
<1>1. CASE Preflight
  BY <1>1, ResponseType DEF Preflight, TypeOK, config
<1>2. CASE Begin
  <2>1. Planned \subseteq AllKeys
    BY ValueTypes DEF Planned
  <2>2. /\ round' \in 0..MaxRounds
        /\ results' \in Seq(AllKeys)
        /\ task' \in [AllKeys -> Tasks]
        /\ snapshot' \in Snapshots
    BY <1>2, ValueTypes DEF Begin, BeginCollection, TypeOK
  <2>3. pending' \subseteq AllKeys
    BY <1>2, <2>1 DEF Begin, BeginCollection, Planned
  <2>4. serverTime' \in 0..MaxDate
    BY <1>2 DEF Begin, BeginCollection
  <2>7. groupFailed' \in BOOLEAN
    BY <1>2 DEF Begin, BeginCollection
  <2>6. dates' = {} /\ ownFailure' = {}
    BY <1>2 DEF Begin, BeginCollection
  <2>5. /\ clusterWide' \in BOOLEAN /\ only' \subseteq AllKeys
        /\ cancelled' \in BOOLEAN
        /\ warnings' \subseteq WarningTexts /\ heard' \subseteq WarningTexts
        /\ pc' = "spawn"
    BY <1>2 DEF Begin, BeginCollection, TypeOK, config
  <2> QED
    BY <2>2, <2>3, <2>4, <2>5, <2>6, <2>7 DEF TypeOK
<1>3. CASE OtherRequest
  BY <1>3, ResponseType DEF OtherRequest, TypeOK, config
<1>4. CASE Cancel
  BY <1>4 DEF Cancel, TypeOK, config, wire
<1> QED
  BY <1>1, <1>2, <1>3, <1>4

\* Every variable of the collector keeps its type, for any task table.
THEOREM TypeCorrect == Spec => []TypeOK
<1>1. Init => TypeOK
  <2> SUFFICES ASSUME Init PROVE TypeOK
    OBVIOUS
  <2>1. [k \in AllKeys |-> Idle] \in [AllKeys -> Tasks] /\ NewSnapshot \in Snapshots
    BY ValueTypes
  <2>2. <<>> \in Seq(AllKeys)
    OBVIOUS
  <2>3. /\ only \subseteq AllKeys
        /\ pc = "preflight" /\ round \in 0..MaxRounds /\ pending \subseteq AllKeys
    BY DEF Init
  <2>6. clusterWide \in BOOLEAN /\ groupFailed \in BOOLEAN /\ cancelled \in BOOLEAN
    BY DEF Init
  <2>4. /\ serverTime \in 0..MaxDate
        /\ warnings \subseteq WarningTexts /\ heard \subseteq WarningTexts
        /\ dates \subseteq 1..MaxDate /\ ownFailure \subseteq AllKeys
    BY DEF Init
  <2>5. /\ task \in [AllKeys -> Tasks] /\ snapshot \in Snapshots
        /\ results \in Seq(AllKeys)
    BY <2>1, <2>2 DEF Init
  <2> QED
    BY <2>3, <2>4, <2>5, <2>6 DEF TypeOK
<1>2. TypeOK /\ [Next]_vars => TypeOK'
  <2>1. TypeOK /\ UNCHANGED vars => TypeOK'
    BY DEF TypeOK, vars
  <2> QED
    BY <2>1, CallerTypes, CollectorTypes, WorkerTypes DEF Next
<1> QED
  BY <1>1, <1>2, PTL DEF Spec

-----------------------------------------------------------------------------
(* Sets and sequences *)

Elems(s) == {s[i] : i \in DOMAIN s}

LEMMA ElemsAppend ==
    ASSUME NEW S, NEW s \in Seq(S), NEW e \in S
    PROVE  Elems(Append(s, e)) = Elems(s) \union {e}
<1>1. DOMAIN Append(s, e) = DOMAIN s \union {Len(s) + 1}
  OBVIOUS
<1>2. \A i \in DOMAIN s : Append(s, e)[i] = s[i]
  OBVIOUS
<1>3. Append(s, e)[Len(s) + 1] = e /\ Len(s) + 1 \notin DOMAIN s
  OBVIOUS
<1> QED
  BY <1>1, <1>2, <1>3 DEF Elems

LEMMA ElemsTail ==
    ASSUME NEW S, NEW s \in Seq(S), s # <<>>
    PROVE  /\ Head(s) \in S
           /\ Elems(s) = Elems(Tail(s)) \union {Head(s)}
<1>1. Len(s) \in Nat /\ Len(s) >= 1 /\ DOMAIN s = 1..Len(s) /\ Head(s) = s[1]
  OBVIOUS
<1>2. Tail(s) \in Seq(S) /\ DOMAIN Tail(s) = 1..(Len(s) - 1)
  BY <1>1
<1>3. \A i \in 1..(Len(s) - 1) : Tail(s)[i] = s[i + 1]
  BY <1>1
<1>4. ASSUME NEW i \in 1..Len(s)
      PROVE  s[i] = Head(s) \/ \E j \in DOMAIN Tail(s) : s[i] = Tail(s)[j]
  <2>1. CASE i = 1
    BY <1>1, <2>1
  <2>2. CASE i # 1
    <3>1. i - 1 \in 1..(Len(s) - 1) /\ (i - 1) + 1 = i
      BY <1>1, <2>2
    <3> QED
      BY <1>2, <1>3, <3>1
  <2> QED
    BY <2>1, <2>2
<1>5. Elems(s) \subseteq Elems(Tail(s)) \union {Head(s)}
  BY <1>1, <1>4 DEF Elems
<1>6. Elems(Tail(s)) \subseteq Elems(s)
  BY <1>1, <1>2, <1>3 DEF Elems
<1> QED
  BY <1>1, <1>5, <1>6 DEF Elems

LEMMA ElemsEmpty == Elems(<<>>) = {}
BY DEF Elems

\* The plan depends on the configuration only.
LEMMA PlanIsFixed ==
    ASSUME UNCHANGED config
    PROVE  /\ Planned' = Planned
           /\ \A k : Wants(k)' = Wants(k)
           /\ CollectTasks' = CollectTasks
BY DEF config, Planned, CollectTasks, Wants

\* A snapshot answers for a wanted key directly, or through the Pod alias.
LEMMA PlanCoversRequests ==
    ASSUME NEW k \in AllKeys
    PROVE  Wants(k) <=> \/ k \in Planned
                        \/ k = "all_pods" /\ clusterWide /\ Wants("pods") /\ Wants("all_pods")
BY DEF Planned, CollectTasks, AllKeys

LEMMA ActiveBound ==
    ASSUME TypeOK, TypeOK', WorkerLimit,
           \/ Active' \subseteq Active
           \/ \E k \in AllKeys : Active' = Active \union {k} /\ Cardinality(Active) < Limit
    PROVE  WorkerLimit'
<1>1. IsFiniteSet(AllKeys)
  BY FS_AddElement DEF AllKeys
<1>2. IsFiniteSet(Active) /\ Active \subseteq AllKeys
  BY <1>1, FS_Subset DEF Active
<1>3. Cardinality(Active) \in Nat
  BY <1>2, FS_CardinalityType
<1>4. Cardinality(Active') <= Limit
  <2>1. CASE Active' \subseteq Active
    <3>1. Cardinality(Active') <= Cardinality(Active) /\ Cardinality(Active') \in Nat
      BY <1>2, <2>1, FS_Subset, FS_CardinalityType
    <3> QED
      BY <1>3, <3>1, ValueTypes DEF WorkerLimit
  <2>2. CASE \E k \in AllKeys : Active' = Active \union {k} /\ Cardinality(Active) < Limit
    <3> PICK k \in AllKeys : Active' = Active \union {k} /\ Cardinality(Active) < Limit
      BY <2>2
    <3>1. Cardinality(Active') \in {Cardinality(Active), Cardinality(Active) + 1}
      BY <1>2, FS_AddElement
    <3> QED
      BY <1>3, <3>1, ValueTypes
  <2> QED
    BY <2>1, <2>2
<1> QED
  BY <1>4 DEF WorkerLimit, Limit

-----------------------------------------------------------------------------
(* Each action keeps the inductive invariant *)

\* Requests outside a collection and the interrupt leave the tasks alone.
LEMMA CallerInv ==
    ASSUME CollectInv, Preflight \/ OtherRequest \/ Cancel
    PROVE  CollectInv'
<1>1. TypeOK'
  BY CallerTypes DEF CollectInv
<1>2. /\ UNCHANGED <<config, pending, task, results, snapshot>>
      /\ pc' = pc \/ (pc = "preflight" /\ pc' \in {"ready", "failed"})
  BY DEF Preflight, OtherRequest, Cancel, config
<1>3. Active' = Active /\ Buffered' = Buffered
  BY <1>2 DEF Active, Buffered
<1>4. WorkerLimit'
  BY <1>1, <1>3, ActiveBound DEF CollectInv
<1>5. Accounting'
  BY <1>2, <1>3, PlanIsFixed DEF CollectInv, Accounting
<1>6. FinishedLists' /\ AppliedLists' /\ AvailableMeansWhole'
  BY <1>2 DEF CollectInv, FinishedLists, AppliedLists, AvailableMeansWhole, config
<1>7. EveryRequestAnswered' /\ PodViewsAgree'
  BY <1>2, PlanIsFixed DEF CollectInv, EveryRequestAnswered, PodViewsAgree, config
<1> QED
  BY <1>1, <1>4, <1>5, <1>6, <1>7 DEF CollectInv

LEMMA BeginInv ==
    ASSUME CollectInv, Begin
    PROVE  CollectInv'
<1>1. TypeOK'
  BY CallerTypes DEF CollectInv
<1>2. /\ pc' = "spawn" /\ pending' = Planned /\ results' = <<>>
      /\ task' = [k \in AllKeys |-> Idle]
      /\ snapshot' = NewSnapshot
      /\ UNCHANGED config
  BY DEF Begin, BeginCollection, Planned
<1>3. Active' = {} /\ Buffered' = {}
  BY <1>2, ElemsEmpty DEF Active, Buffered, Elems, Idle
<1>4. WorkerLimit'
  BY <1>1, <1>3, ActiveBound DEF CollectInv
<1>5. Accounting'
  BY <1>2, <1>3, PlanIsFixed DEF Accounting, Idle, NewSnapshot
<1>6. FinishedLists' /\ AppliedLists' /\ AvailableMeansWhole'
  BY <1>2 DEF FinishedLists, AppliedLists, AvailableMeansWhole, Idle, NewSnapshot
<1>7. EveryRequestAnswered' /\ PodViewsAgree'
  BY <1>2 DEF EveryRequestAnswered, PodViewsAgree
<1> QED
  BY <1>1, <1>4, <1>5, <1>6, <1>7 DEF CollectInv

LEMMA SpawnInv ==
    ASSUME CollectInv, NEW k \in AllKeys, Spawn(k)
    PROVE  CollectInv'
<1>1. TypeOK'
  BY CollectorTypes DEF CollectInv, Collector
<1>2. /\ pc = "spawn" /\ pc' = "spawn" /\ k \in pending /\ pending' = pending \ {k}
      /\ UNCHANGED <<config, results, snapshot>>
      /\ task' = [task EXCEPT ![k].st = "running"]
      /\ Cardinality(Active) < Limit
  BY DEF Spawn
<1>3. /\ task \in [AllKeys -> Tasks]
      /\ task'[k].st = "running"
      /\ \A j \in AllKeys \ {k} : task'[j] = task[j]
  BY <1>2 DEF CollectInv, TypeOK, Tasks
<1>4. Active' = Active \union {k} /\ Buffered' = Buffered
  BY <1>2, <1>3 DEF Active, Buffered
<1>5. WorkerLimit'
  BY <1>1, <1>2, <1>4, ActiveBound DEF CollectInv
<1>6. task[k].st = "idle" /\ k \in Planned /\ Planned' = Planned
  BY <1>2, PlanIsFixed DEF CollectInv, Accounting
<1>7. Accounting'
  BY <1>2, <1>3, <1>4, <1>6 DEF CollectInv, Accounting
<1>8. FinishedLists' /\ AppliedLists' /\ AvailableMeansWhole'
  BY <1>2, <1>3 DEF CollectInv, FinishedLists, AppliedLists, AvailableMeansWhole
<1>9. EveryRequestAnswered' /\ PodViewsAgree'
  BY <1>2 DEF EveryRequestAnswered, PodViewsAgree
<1> QED
  BY <1>1, <1>5, <1>7, <1>8, <1>9 DEF CollectInv

LEMMA WaitInv ==
    ASSUME CollectInv, Wait
    PROVE  CollectInv'
<1>1. TypeOK'
  BY CollectorTypes DEF CollectInv, Collector
<1>2. /\ pc = "spawn" /\ pc' = "apply" /\ pending = {} /\ Active = {}
      /\ UNCHANGED <<config, task, results, snapshot>>
  BY DEF Wait
<1>3. Active' = Active /\ Buffered' = Buffered /\ Planned' = Planned
  BY <1>2, PlanIsFixed DEF Active, Buffered
<1>4. WorkerLimit'
  BY <1>1, <1>3, ActiveBound DEF CollectInv
<1>5. \A k \in AllKeys : task[k].st = "idle" \/ task[k].st = "done"
  <2>1. \A k \in AllKeys : task[k].st \in {"idle", "running", "sending", "done"}
    BY DEF CollectInv, TypeOK, Tasks
  <2> QED
    BY <1>2, <2>1 DEF Active
<1>6. Accounting'
  BY <1>2, <1>3, <1>5 DEF CollectInv, Accounting
<1>7. FinishedLists' /\ AppliedLists' /\ AvailableMeansWhole'
  BY <1>2 DEF CollectInv, Accounting, FinishedLists, AppliedLists, AvailableMeansWhole
<1>8. EveryRequestAnswered' /\ PodViewsAgree'
  BY <1>2 DEF EveryRequestAnswered, PodViewsAgree
<1> QED
  BY <1>1, <1>4, <1>6, <1>7, <1>8 DEF CollectInv

LEMMA ApplyInv ==
    ASSUME CollectInv, Apply
    PROVE  CollectInv'
<1> DEFINE k == Head(results)
           list == task[k].list
<1>1. TypeOK'
  BY CollectorTypes DEF CollectInv, Collector
<1>2. /\ pc = "apply" /\ pc' = "apply" /\ results # <<>> /\ results' = Tail(results)
      /\ UNCHANGED <<config, task>>
      /\ snapshot'.status = [snapshot.status EXCEPT ![k] = FetchStatus(list.err)]
      /\ snapshot'.field = Update(snapshot.field, k, list)
  BY DEF Apply
<1>3. k \in AllKeys /\ Buffered = Buffered' \union {k}
  <2>1. results \in Seq(AllKeys)
    BY DEF CollectInv, TypeOK
  <2>2. k \in AllKeys /\ Elems(results) = Elems(Tail(results)) \union {k}
    BY <1>2, <2>1, ElemsTail
  <2>3. Buffered = Elems(results) /\ Buffered' = Elems(Tail(results))
    BY <1>2 DEF Buffered, Elems
  <2> QED
    BY <2>2, <2>3
<1>4. /\ snapshot.status \in [AllKeys -> Statuses]
      /\ snapshot.field \in [AllKeys -> ListResults]
      /\ list \in ListResults
      /\ FetchStatus(list.err) \in Statuses \ {"none"}
  BY <1>3, ValueTypes DEF CollectInv, TypeOK, Snapshots, Tasks
<1>5. /\ snapshot'.status[k] = FetchStatus(list.err)
      /\ \A j \in AllKeys \ {k} : snapshot'.status[j] = snapshot.status[j]
  BY <1>2, <1>3, <1>4
<1>6. Active' = Active /\ Planned' = Planned /\ k \in Planned /\ task[k].st = "done"
  BY <1>2, <1>3, PlanIsFixed DEF CollectInv, Accounting, Active
<1>7. WorkerLimit'
  BY <1>1, <1>6, ActiveBound DEF CollectInv
<1>8. Accounting'
  BY <1>2, <1>3, <1>4, <1>5, <1>6 DEF CollectInv, Accounting
<1>9. FinishedLists'
  BY <1>2 DEF CollectInv, FinishedLists
<1>10. AppliedLists'
  \* Both Pod tasks are never planned together in a cluster-wide run.
  <2>1. k = "pods" /\ clusterWide => "all_pods" \notin Planned
    BY <1>6 DEF Planned, CollectTasks
  <2>2. \A j \in AllKeys : snapshot.status[j] # "none" => j \in Planned
    BY <1>2 DEF CollectInv, Accounting
  <2>3. k = "all_pods" /\ clusterWide => "pods" \notin Planned
    BY <1>6 DEF Planned, CollectTasks
  <2>4. "pods" \in AllKeys /\ "all_pods" \in AllKeys
    BY DEF AllKeys
  <2>5. ASSUME NEW j \in AllKeys, snapshot'.status[j] # "none"
        PROVE  /\ snapshot'.status[j] = FetchStatus(task[j].list.err)
               /\ snapshot'.field[j] = task[j].list
               /\ (j = "pods" /\ clusterWide) => snapshot'.field["all_pods"] = task[j].list
    <3>1. CASE j = k
      BY <1>2, <1>3, <1>4, <1>5, <2>4, <3>1 DEF Update
    <3>2. CASE j # k
      <4>1. snapshot.status[j] # "none" /\ snapshot'.status[j] = snapshot.status[j]
        BY <1>5, <2>5, <3>2
      <4>2. /\ snapshot.status[j] = FetchStatus(task[j].list.err)
            /\ snapshot.field[j] = task[j].list
            /\ (j = "pods" /\ clusterWide) => snapshot.field["all_pods"] = task[j].list
        BY <1>2, <4>1 DEF CollectInv, AppliedLists
      <4>3. snapshot'.field[j] = snapshot.field[j]
        BY <1>2, <1>4, <2>1, <2>2, <2>4, <3>2, <4>1 DEF Update
      <4>4. (j = "pods" /\ clusterWide)
              => snapshot'.field["all_pods"] = snapshot.field["all_pods"]
        BY <1>2, <1>4, <2>2, <2>3, <2>4, <3>2, <4>1 DEF Update
      <4> QED
        BY <4>1, <4>2, <4>3, <4>4
    <3> QED
      BY <3>1, <3>2
  <2> QED
    BY <1>2, <2>5 DEF AppliedLists, config
<1>11. AvailableMeansWhole'
  <2>1. ASSUME NEW j \in AllKeys, snapshot'.status[j] = "ok"
        PROVE  snapshot'.field[j].whole
    <3>1. /\ FetchStatus(task[j].list.err) = "ok"
          /\ snapshot'.field[j] = task[j].list
      BY <1>2, <1>10, <2>1 DEF AppliedLists
    <3>2. task[j].list.err = "nil"
      BY <3>1 DEF CollectInv, TypeOK, Tasks, ListResults, Errors, FetchStatus
    <3>3. task[j].st = "done"
      BY <1>2, <1>8, <2>1 DEF Accounting
    <3> QED
      BY <3>1, <3>2, <3>3 DEF CollectInv, FinishedLists
  <2> QED
    BY <2>1 DEF AvailableMeansWhole
<1>12. EveryRequestAnswered' /\ PodViewsAgree'
  BY <1>2 DEF EveryRequestAnswered, PodViewsAgree
<1> QED
  BY <1>1, <1>7, <1>8, <1>9, <1>10, <1>11, <1>12 DEF CollectInv

LEMMA ReturnInv ==
    ASSUME CollectInv, Return
    PROVE  CollectInv'
<1>1. TypeOK'
  BY CollectorTypes DEF CollectInv, Collector
<1>2. /\ pc = "apply" /\ pc' = "returned" /\ results = <<>>
      /\ UNCHANGED <<config, task, results>>
      /\ snapshot'.status = AliasAllPods(snapshot.status)
      /\ snapshot'.field = snapshot.field
  BY DEF Return
<1>3. Active' = Active /\ Active = {} /\ Buffered = {}
  BY <1>2, ElemsEmpty DEF CollectInv, Accounting, Active, Buffered, Elems
<1>4. /\ \A k \in AllKeys : k \in Planned <=> snapshot.status[k] # "none"
      /\ snapshot.status \in [AllKeys -> Statuses]
      /\ "pods" \in AllKeys /\ "all_pods" \in AllKeys
  BY <1>2, <1>3 DEF CollectInv, Accounting, TypeOK, Snapshots, AllKeys
<1>5. WorkerLimit'
  BY <1>1, <1>3, ActiveBound DEF CollectInv
<1>6. Accounting'
  BY <1>2, <1>3 DEF Accounting
<1>7. FinishedLists' /\ AppliedLists'
  BY <1>2 DEF CollectInv, FinishedLists, AppliedLists
<1>8. snapshot.status["pods"] # "none" /\ clusterWide
        => /\ snapshot.field["all_pods"] = snapshot.field["pods"]
           /\ snapshot.status["pods"] = "ok" => snapshot.field["pods"].whole
  BY <1>2, <1>4 DEF CollectInv, AppliedLists, AvailableMeansWhole
<1>9. AvailableMeansWhole'
  BY <1>2, <1>4, <1>8 DEF CollectInv, AvailableMeansWhole, AliasAllPods
<1>10. EveryRequestAnswered'
  <2>1. "pods" \in Planned <=> Wants("pods")
    BY DEF Planned, CollectTasks
  <2>2. ASSUME NEW k \in AllKeys
        PROVE  snapshot'.status[k] # "none" <=> Wants(k)
    BY <1>2, <1>4, <2>1, PlanCoversRequests DEF AliasAllPods
  <2> QED
    BY <1>2, <2>2, PlanIsFixed DEF EveryRequestAnswered
<1>11. PodViewsAgree'
  <2>1. Wants("pods") => snapshot.status["pods"] # "none"
    BY <1>4 DEF Planned, CollectTasks
  <2> QED
    BY <1>2, <1>4, <1>8, <2>1, PlanIsFixed DEF PodViewsAgree, AliasAllPods, config
<1> QED
  BY <1>1, <1>5, <1>6, <1>7, <1>9, <1>10, <1>11 DEF CollectInv

\* The steps of a paging loop touch the entry of their own key only.
LEMMA PagingInv ==
    ASSUME CollectInv, NEW k \in AllKeys,
           ReadPage(k) \/ FailPage(k) \/ AbortPage(k) \/ NotServed(k)
    PROVE  CollectInv'
<1>1. TypeOK'
  BY WorkerTypes DEF CollectInv, Worker
<1>2. /\ task[k].st = "running"
      /\ UNCHANGED <<config, pc, pending, results, snapshot>>
  BY DEF ReadPage, FailPage, AbortPage, NotServed, Running
<1>3. task \in [AllKeys -> Tasks] /\ task[k] \in Tasks
  BY DEF CollectInv, TypeOK
<1>4. /\ \A j \in AllKeys \ {k} : task'[j] = task[j]
      /\ \/ task'[k].st = "running"
         \/ /\ task'[k].st = "sending"
            /\ task'[k].list.err = "nil" => task'[k].list.whole
  <2>1. ASSUME NEW list, Finish(k, list), list.err = "nil" => list.whole
        PROVE  /\ \A j \in AllKeys \ {k} : task'[j] = task[j]
               /\ task'[k].st = "sending"
               /\ task'[k].list.err = "nil" => task'[k].list.whole
    BY <1>3, <2>1 DEF Finish
  <2>2. CASE ReadPage(k)
    <3>1. CASE Advance(k, [task[k].list EXCEPT !.pages = @ + 1])
      BY <1>2, <1>3, <3>1 DEF Advance, Tasks
    <3>2. CASE Finish(k, [[task[k].list EXCEPT !.pages = @ + 1] EXCEPT !.whole = TRUE])
      <4>1. [[task[k].list EXCEPT !.pages = @ + 1] EXCEPT !.whole = TRUE].whole
        BY <1>3 DEF Tasks, ListResults
      <4> QED
        BY <2>1, <3>2, <4>1
    <3> QED
      BY <2>2, <3>1, <3>2 DEF ReadPage
  <2>3. CASE FailPage(k)
    <3>1. PICK err \in Errors \ {"nil"} : Finish(k, [task[k].list EXCEPT !.err = err])
      BY <2>3 DEF FailPage
    <3>2. [task[k].list EXCEPT !.err = err].err # "nil"
      BY <1>3 DEF Tasks, ListResults
    <3> QED
      BY <2>1, <3>1, <3>2
  <2>4. CASE AbortPage(k)
    <3>1. [task[k].list EXCEPT !.err = "error"].err # "nil"
      BY <1>3 DEF Tasks, ListResults
    <3> QED
      BY <2>1, <2>4, <3>1 DEF AbortPage
  <2>5. CASE NotServed(k)
    <3>1. CASE Finish(k, [NothingRead EXCEPT !.whole = TRUE])
      <4>1. [NothingRead EXCEPT !.whole = TRUE].whole
        BY DEF NothingRead
      <4> QED
        BY <2>1, <3>1, <4>1
    <3>2. CASE task' = [task EXCEPT ![k] = [st |-> "running",
                                            version |-> task[k].version + 1,
                                            list |-> NothingRead]]
      BY <1>3, <3>2
    <3> QED
      BY <2>5, <3>1, <3>2 DEF NotServed
  <2> QED
    BY <2>2, <2>3, <2>4, <2>5
<1>5. Active' = Active /\ Buffered' = Buffered /\ Planned' = Planned
  BY <1>2, <1>4, PlanIsFixed DEF Active, Buffered
<1>6. WorkerLimit'
  BY <1>1, <1>5, ActiveBound DEF CollectInv
<1>7. pc = "spawn"
  BY <1>2 DEF CollectInv, Accounting, Active
<1>8. Accounting'
  BY <1>2, <1>4, <1>5, <1>7 DEF CollectInv, Accounting
<1>9. FinishedLists'
  BY <1>2, <1>4 DEF CollectInv, FinishedLists
<1>10. AppliedLists' /\ AvailableMeansWhole' /\ EveryRequestAnswered' /\ PodViewsAgree'
  BY <1>2, <1>7 DEF CollectInv, AppliedLists, AvailableMeansWhole, EveryRequestAnswered,
                    PodViewsAgree
<1> QED
  BY <1>1, <1>6, <1>8, <1>9, <1>10 DEF CollectInv

LEMMA SendInv ==
    ASSUME CollectInv, NEW k \in AllKeys, Send(k)
    PROVE  CollectInv'
<1>1. TypeOK'
  BY WorkerTypes DEF CollectInv, Worker
<1>2. /\ task[k].st = "sending" /\ task' = [task EXCEPT ![k].st = "done"]
      /\ results' = Append(results, k)
      /\ UNCHANGED <<config, pc, pending, snapshot>>
  BY DEF Send
<1>3. /\ task'[k].st = "done" /\ task'[k].list = task[k].list
      /\ \A j \in AllKeys \ {k} : task'[j] = task[j]
  BY <1>2 DEF CollectInv, TypeOK, Tasks
<1>4. Buffered' = Buffered \union {k}
  <2>1. Elems(Append(results, k)) = Elems(results) \union {k}
    BY ElemsAppend DEF CollectInv, TypeOK
  <2> QED
    BY <1>2, <2>1 DEF Buffered, Elems
<1>5. Active' \subseteq Active /\ Planned' = Planned
  BY <1>2, <1>3, PlanIsFixed DEF Active
<1>6. WorkerLimit'
  BY <1>1, <1>5, ActiveBound DEF CollectInv
<1>7. pc = "spawn"
  BY <1>2 DEF CollectInv, Accounting, Active
<1>8. Accounting'
  BY <1>2, <1>3, <1>4, <1>5, <1>7 DEF CollectInv, Accounting
<1>9. FinishedLists'
  BY <1>2, <1>3 DEF CollectInv, FinishedLists
<1>10. AppliedLists' /\ AvailableMeansWhole' /\ EveryRequestAnswered' /\ PodViewsAgree'
  BY <1>2, <1>7 DEF CollectInv, AppliedLists, AvailableMeansWhole, EveryRequestAnswered,
                    PodViewsAgree
<1> QED
  BY <1>1, <1>6, <1>8, <1>9, <1>10 DEF CollectInv

-----------------------------------------------------------------------------
(* Theorems *)

LEMMA InvariantStep == CollectInv /\ [Next]_vars => CollectInv'
<1> SUFFICES ASSUME CollectInv, [Next]_vars
             PROVE  CollectInv'
  OBVIOUS
<1>1. CASE Next
  BY <1>1, CallerInv, BeginInv, WaitInv, ApplyInv, ReturnInv, SpawnInv, PagingInv, SendInv
     DEF Next, Collector, Worker
<1>2. CASE UNCHANGED vars
  <2>1. TypeOK'
    BY <1>2 DEF CollectInv, TypeOK, vars
  <2>2. Active' = Active /\ Buffered' = Buffered /\ Planned' = Planned
    BY <1>2, PlanIsFixed DEF Active, Buffered, vars, config
  <2>3. WorkerLimit'
    BY <2>1, <2>2, ActiveBound DEF CollectInv
  <2>4. Accounting' /\ FinishedLists' /\ AppliedLists' /\ AvailableMeansWhole'
    BY <1>2, <2>2 DEF CollectInv, Accounting, FinishedLists, AppliedLists,
                      AvailableMeansWhole, vars
  <2>5. EveryRequestAnswered' /\ PodViewsAgree'
    BY <1>2, PlanIsFixed DEF CollectInv, EveryRequestAnswered, PodViewsAgree, vars, config
  <2> QED
    BY <2>1, <2>3, <2>4, <2>5 DEF CollectInv
<1> QED
  BY <1>1, <1>2

\* The inductive invariant holds in every reachable state.
THEOREM InvariantHolds == Spec => []CollectInv
<1>1. TypeOK /\ Init => CollectInv
  <2> SUFFICES ASSUME TypeOK, Init PROVE CollectInv
    OBVIOUS
  <2>1. Active = {}
    BY DEF Init, Active, Idle
  <2>2. WorkerLimit
    BY <2>1, FS_EmptySet, ValueTypes DEF WorkerLimit
  <2>3. Accounting /\ AppliedLists /\ EveryRequestAnswered /\ PodViewsAgree
    BY <2>1 DEF Init, Accounting, AppliedLists, EveryRequestAnswered, PodViewsAgree
  <2>4. FinishedLists /\ AvailableMeansWhole
    BY DEF Init, FinishedLists, AvailableMeansWhole, Idle, NewSnapshot
  <2> QED
    BY <2>2, <2>3, <2>4 DEF CollectInv
<1> QED
  BY <1>1, TypeCorrect, InvariantStep, PTL DEF Spec

\* Never more concurrent requests than Limit, for any task table and any
\* Workers setting.
THEOREM WorkerLimitHolds == Spec => []WorkerLimit
<1>1. CollectInv => WorkerLimit
  BY DEF CollectInv
<1> QED
  BY <1>1, InvariantHolds, PTL

\* An "ok" status always stands for a list read to its last page.
THEOREM AvailableMeansWholeHolds == Spec => []AvailableMeansWhole
<1>1. CollectInv => AvailableMeansWhole
  BY DEF CollectInv
<1> QED
  BY <1>1, InvariantHolds, PTL

\* The snapshot handed out answers for exactly the requested keys, and its
\* two Pod views agree in a cluster-wide run.
THEOREM SnapshotIsComplete == Spec => [](EveryRequestAnswered /\ PodViewsAgree)
<1>1. CollectInv => EveryRequestAnswered /\ PodViewsAgree
  BY DEF CollectInv
<1> QED
  BY <1>1, InvariantHolds, PTL

-----------------------------------------------------------------------------
(* Whose failure, whose warning, whose clock *)

\* A response keeps the recorders in step with what was heard.
LEMMA ResponseInStep ==
    ASSUME TypeOK, RecordersInStep, Response
    PROVE  RecordersInStep'
<1>1. PICK date \in 0..MaxDate, texts \in SUBSET WarningTexts : Record(date, texts)
  BY DEF Response
<1>2. /\ serverTime' = IF date > serverTime THEN date ELSE serverTime
      /\ dates' = dates \union ({date} \ {0})
      /\ warnings' = warnings \union texts /\ heard' = heard \union texts
  BY <1>1 DEF Record
<1>3. serverTime \in 0..MaxDate /\ dates \subseteq 1..MaxDate
  BY DEF TypeOK
<1>4. serverTime' \in dates' \union {0}
  BY <1>2, <1>3 DEF RecordersInStep
<1>5. ASSUME NEW d \in dates'
      PROVE  d <= serverTime'
  BY <1>2, <1>3, <1>5 DEF RecordersInStep
<1> QED
  BY <1>2, <1>4, <1>5 DEF RecordersInStep

\* The recorders stay in step whatever the collection does.
LEMMA RecordersStep ==
    ASSUME TypeOK, RecordersInStep, [Next]_vars
    PROVE  RecordersInStep'
<1>1. CASE Begin \/ Return
  BY <1>1 DEF Begin, BeginCollection, Return, RecordersInStep
<1>2. CASE UNCHANGED wire
  BY <1>2 DEF wire, RecordersInStep
<1>3. CASE Response
  BY <1>3, ResponseInStep
<1>4. Begin \/ Return \/ UNCHANGED wire \/ Response
  <2>1. ASSUME NEW k \in AllKeys, Worker(k)
        PROVE  UNCHANGED wire \/ Response
    BY <2>1 DEF Worker, ReadPage, FailPage, AbortPage, NotServed, Send
  <2>2. Preflight \/ OtherRequest => Response
    BY DEF Preflight, OtherRequest
  <2>3. Cancel \/ Wait \/ Apply \/ (\E k \in AllKeys : Spawn(k)) \/ UNCHANGED vars
          => UNCHANGED wire
    BY DEF Cancel, Wait, Apply, Spawn, wire, vars
  <2> QED
    BY <2>1, <2>2, <2>3 DEF Next, Collector
<1> QED
  BY <1>1, <1>2, <1>3, <1>4

\* A page loop records an error only with a failure of its own request, or
\* under an interrupt.
LEMMA PagingErrors ==
    ASSUME TypeOK, ErrorsAreOwn, NEW k \in AllKeys,
           ReadPage(k) \/ FailPage(k) \/ AbortPage(k) \/ NotServed(k)
    PROVE  ErrorsAreOwn'
<1>1. task \in [AllKeys -> Tasks] /\ task[k] \in Tasks /\ task[k].list \in ListResults
  BY DEF TypeOK, Tasks
<1>2. UNCHANGED <<groupFailed, cancelled>> /\ ownFailure \subseteq ownFailure'
  BY DEF ReadPage, FailPage, AbortPage, NotServed, Running
<1>3. ASSUME NEW list, Finish(k, list) \/ Advance(k, list),
             ~cancelled /\ list.err # "nil" => k \in ownFailure'
      PROVE  ErrorsAreOwn'
  <2>1. task'[k].list = list /\ \A j \in AllKeys \ {k} : task'[j] = task[j]
    BY <1>1, <1>3 DEF Finish, Advance, Tasks
  <2> QED
    BY <1>2, <1>3, <2>1 DEF ErrorsAreOwn
<1>4. CASE ReadPage(k)
  <2> DEFINE read == [task[k].list EXCEPT !.pages = @ + 1]
  <2>1. read.err = task[k].list.err /\ [read EXCEPT !.whole = TRUE].err = task[k].list.err
    BY <1>1 DEF ListResults
  <2>2. ~cancelled /\ task[k].list.err # "nil" => k \in ownFailure'
    BY <1>2 DEF ErrorsAreOwn
  <2>3. Advance(k, read) \/ Finish(k, [read EXCEPT !.whole = TRUE])
    BY <1>4 DEF ReadPage
  <2> HIDE DEF read
  <2> QED
    BY <1>3, <2>1, <2>2, <2>3
<1>5. CASE FailPage(k)
  <2>1. PICK err \in Errors \ {"nil"} : Finish(k, [task[k].list EXCEPT !.err = err])
    BY <1>5 DEF FailPage
  <2>2. k \in ownFailure'
    BY <1>5 DEF FailPage
  <2> QED
    BY <1>3, <2>1, <2>2
<1>6. CASE AbortPage(k)
  <2>1. cancelled /\ Finish(k, [task[k].list EXCEPT !.err = "error"])
    BY <1>6 DEF AbortPage, ContextDone, ErrorsAreOwn
  <2> QED
    BY <1>3, <2>1
<1>7. CASE NotServed(k)
  <2>1. NothingRead.err = "nil" /\ [NothingRead EXCEPT !.whole = TRUE].err = "nil"
    BY DEF NothingRead
  <2>2. CASE Finish(k, [NothingRead EXCEPT !.whole = TRUE])
    BY <1>3, <2>1, <2>2
  <2>3. CASE task' = [task EXCEPT ![k] = [st |-> "running", version |-> task[k].version + 1,
                                          list |-> NothingRead]]
    <3>1. task'[k].list = NothingRead /\ \A j \in AllKeys \ {k} : task'[j] = task[j]
      BY <1>1, <2>3
    <3> QED
      BY <1>2, <2>1, <3>1 DEF ErrorsAreOwn
  <2> QED
    BY <1>7, <2>2, <2>3 DEF NotServed
<1> QED
  BY <1>4, <1>5, <1>6, <1>7

\* Handing the list over does not make the group fail, and no other step
\* touches what a task has read.
LEMMA ErrorsStep ==
    ASSUME TypeOK, ErrorsAreOwn, [Next]_vars
    PROVE  ErrorsAreOwn'
<1>0. task \in [AllKeys -> Tasks]
  BY DEF TypeOK
<1>1. CASE Begin
  <2>1. /\ groupFailed' = FALSE
        /\ task' = [k \in AllKeys |-> Idle]
    BY <1>1 DEF Begin, BeginCollection
  <2>2. \A k \in AllKeys : task'[k].list.err = "nil"
    BY <2>1 DEF Idle, NothingRead
  <2> QED
    BY <2>1, <2>2 DEF ErrorsAreOwn
<1>2. ASSUME NEW k \in AllKeys, Spawn(k) \/ Send(k)
      PROVE  ErrorsAreOwn'
  <2>1. ~groupFailed' /\ UNCHANGED <<cancelled, ownFailure>>
    <3>1. CASE Spawn(k)
      BY <3>1 DEF Spawn, ErrorsAreOwn
    <3>2. CASE Send(k)
      <4>1. groupFailed' = (groupFailed \/ "nil" # "nil")
        BY <3>2 DEF Send, GroupReturn
      <4> QED
        BY <3>2, <4>1 DEF Send, ErrorsAreOwn
    <3> QED
      BY <1>2, <3>1, <3>2
  <2>2. \A j \in AllKeys : task'[j].list = task[j].list
    BY <1>0, <1>2 DEF Spawn, Send, Tasks
  <2> QED
    BY <2>1, <2>2 DEF ErrorsAreOwn
<1>3. CASE Preflight \/ OtherRequest \/ Cancel \/ Wait \/ Apply \/ Return \/ UNCHANGED vars
  <2>1. UNCHANGED <<groupFailed, task, ownFailure>> /\ (cancelled' \/ cancelled' = cancelled)
    BY <1>3 DEF Preflight, OtherRequest, Cancel, Wait, Apply, Return, vars
  <2> QED
    BY <2>1 DEF ErrorsAreOwn
<1>4. ASSUME NEW k \in AllKeys,
             ReadPage(k) \/ FailPage(k) \/ AbortPage(k) \/ NotServed(k)
      PROVE  ErrorsAreOwn'
  BY <1>4, PagingErrors
<1> QED
  BY <1>1, <1>2, <1>3, <1>4 DEF Next, Collector, Worker

\* Return is the only step that hands a snapshot out.
LEMMA OnlyReturnHandsOut ==
    ASSUME [Next]_vars, pc' = "returned", pc # "returned"
    PROVE  Return
BY DEF Next, Preflight, Begin, OtherRequest, Cancel, Collector, Worker, Spawn, Wait, Apply,
       ReadPage, FailPage, AbortPage, NotServed, Send, Running, vars

\* What Return hands out blames a key for nothing but its own request.
LEMMA IsolationStep ==
    ASSUME CollectInv, ErrorsAreOwn, FailuresAreIsolated, [Next]_vars
    PROVE  FailuresAreIsolated'
<1>1. CASE pc' # "returned"
  BY <1>1 DEF FailuresAreIsolated
<1>2. CASE pc' = "returned" /\ pc = "returned"
  <2>1. UNCHANGED <<snapshot, ownFailure, clusterWide>> /\ (cancelled' \/ cancelled' = cancelled)
    <3>1. ASSUME NEW k \in AllKeys, Worker(k)
          PROVE  FALSE
      <4>1. task[k].st \in {"running", "sending"}
        BY <3>1 DEF Worker, ReadPage, FailPage, AbortPage, NotServed, Send, Running
      <4>2. Active = {}
        BY <1>2 DEF CollectInv, Accounting
      <4> QED
        BY <4>1, <4>2 DEF Active
    <3>2. ~(Preflight \/ Begin \/ Collector)
      BY <1>2 DEF Preflight, Begin, Collector, Wait, Apply, Return, Spawn
    <3>3. OtherRequest \/ Cancel \/ UNCHANGED vars
      BY <3>1, <3>2 DEF Next
    <3> QED
      BY <3>3 DEF OtherRequest, Cancel, config, vars
  <2> QED
    BY <1>2, <2>1 DEF FailuresAreIsolated
<1>3. CASE pc' = "returned" /\ pc # "returned"
  <2>1. Return
    BY <1>3, OnlyReturnHandsOut
  <2>2. /\ pc = "apply" /\ UNCHANGED <<config, ownFailure, cancelled>>
        /\ snapshot'.status = AliasAllPods(snapshot.status)
    BY <2>1 DEF Return
  <2>3. snapshot.status \in [AllKeys -> Statuses] /\ "pods" \in AllKeys
    BY DEF CollectInv, TypeOK, Snapshots, AllKeys
  <2>4. ASSUME NEW k \in AllKeys, snapshot.status[k] \in {"notfound", "error"}, ~cancelled
        PROVE  k \in ownFailure
    <3>1. snapshot.status[k] = FetchStatus(task[k].list.err)
      BY <2>2, <2>4 DEF CollectInv, AppliedLists
    <3>2. task[k].list.err # "nil"
      BY <2>4, <3>1 DEF FetchStatus
    <3> QED
      BY <2>4, <3>2 DEF ErrorsAreOwn
  <2>5. ASSUME NEW k \in AllKeys, snapshot'.status[k] \in {"notfound", "error"}, ~cancelled'
        PROVE  k \in ownFailure' \/ (k = "all_pods" /\ clusterWide' /\ "pods" \in ownFailure')
    <3>1. \/ snapshot'.status[k] = snapshot.status[k]
          \/ k = "all_pods" /\ clusterWide /\ snapshot'.status[k] = snapshot.status["pods"]
      BY <2>2, <2>3 DEF AliasAllPods
    <3> QED
      BY <2>2, <2>3, <2>4, <2>5, <3>1 DEF config
  <2> QED
    BY <2>5 DEF FailuresAreIsolated
<1> QED
  BY <1>1, <1>2, <1>3

THEOREM FailureInvHolds == Spec => []FailureInv
<1>1. Init => FailureInv
  <2> SUFFICES ASSUME Init PROVE FailureInv
    OBVIOUS
  <2>1. ErrorsAreOwn
    BY DEF Init, ErrorsAreOwn, Idle, NothingRead
  <2>2. RecordersInStep /\ FailuresAreIsolated
    BY DEF Init, RecordersInStep, FailuresAreIsolated
  <2> QED
    BY <2>1, <2>2 DEF FailureInv
<1>2. CollectInv /\ FailureInv /\ [Next]_vars => FailureInv'
  BY RecordersStep, ErrorsStep, IsolationStep DEF CollectInv, FailureInv
<1> QED
  BY <1>1, <1>2, InvariantHolds, PTL DEF Spec

\* One failing list never takes another one down: without an interrupt, a key
\* is reported unreadable only for what its own request was answered.
THEOREM FailuresAreIsolatedHolds == Spec => []FailuresAreIsolated
<1>1. FailureInv => FailuresAreIsolated
  BY DEF FailureInv
<1> QED
  BY <1>1, FailureInvHolds, PTL

\* The snapshot takes its clock and its warnings from its own round, whoever
\* else used the recorders in between.
THEOREM RecordersServeTheirRoundHolds == Spec => RecordersServeTheirRound
<1>1. FailureInv /\ [Next]_vars =>
        (pc' = "returned" /\ pc # "returned" =>
            /\ snapshot'.time \in dates \union {0}
            /\ \A d \in dates : d <= snapshot'.time
            /\ snapshot'.warnings = heard)
  <2> SUFFICES ASSUME FailureInv, [Next]_vars, pc' = "returned", pc # "returned"
               PROVE  /\ snapshot'.time \in dates \union {0}
                      /\ \A d \in dates : d <= snapshot'.time
                      /\ snapshot'.warnings = heard
    OBVIOUS
  <2>1. Return
    BY OnlyReturnHandsOut
  <2>2. snapshot'.time = serverTime /\ snapshot'.warnings = warnings
    BY <2>1 DEF Return
  <2> QED
    BY <2>2 DEF FailureInv, RecordersInStep
<1> QED
  BY <1>1, FailureInvHolds, PTL DEF Spec, RecordersServeTheirRound

-----------------------------------------------------------------------------
(* Refinement of ClusterView *)

View == IF pc = "returned" THEN ViewStatus ELSE NoView

\* Return is the step the caller sees: it hands out an honest snapshot.
LEMMA ReturnHandsOut ==
    ASSUME CollectInv, CollectInv', Return
    PROVE  Contract!HandOut
<1>1. /\ pc = "apply" /\ pc' = "returned" /\ UNCHANGED config
  BY DEF Return
<1>2. ViewStatus' \in Contract!Views
  BY DEF CollectInv, TypeOK, Snapshots, ViewStatus, Contract!Views, Contract!Statuses,
         Contract!AllKeys, Statuses, AllKeys
<1>3. /\ \A k \in AllKeys : snapshot'.status[k] # "none" <=> Wants(k)
      /\ \A k \in AllKeys : snapshot'.status[k] = "ok" => snapshot'.field[k].whole
      /\ (clusterWide /\ Wants("pods")) =>
            /\ snapshot'.field["all_pods"] = snapshot'.field["pods"]
            /\ Wants("all_pods") => snapshot'.status["all_pods"] = snapshot'.status["pods"]
  BY <1>1, PlanIsFixed
     DEF CollectInv, EveryRequestAnswered, AvailableMeansWhole, PodViewsAgree, config
<1>4. Contract!Honest(ViewStatus')
  BY <1>3 DEF Contract!Honest, Contract!Wants, Contract!AllKeys, ViewStatus, Wants, AllKeys
<1> QED
  BY <1>1, <1>2, <1>4 DEF Contract!HandOut, config

\* Every other step is a stutter of the view, or takes the snapshot back.
LEMMA OtherStepsStutter ==
    ASSUME CollectInv, Next, ~Return
    PROVE  Contract!StartOver \/ UNCHANGED Contract!vars
<1>1. CASE Begin
  <2>1. View' = NoView /\ UNCHANGED config
    BY <1>1 DEF Begin, BeginCollection, View
  <2> QED
    BY <2>1 DEF Contract!StartOver, Contract!vars, View, config
<1>2. CASE ~Begin
  <2>1. UNCHANGED config
    BY <1>2 DEF Next, Preflight, OtherRequest, Cancel, Collector, Worker, Spawn, Wait, Apply,
                ReadPage, FailPage, AbortPage, NotServed, Send, Running
  <2>2. \/ pc # "returned" /\ pc' # "returned"
        \/ UNCHANGED <<pc, snapshot>>
    BY <1>2 DEF Next, Preflight, OtherRequest, Cancel, Collector, Worker, Spawn, Wait, Apply,
                ReadPage, FailPage, AbortPage, NotServed, Send, Running
  <2>3. View' = View
    BY <2>2 DEF View, ViewStatus
  <2> QED
    BY <2>1, <2>3 DEF Contract!vars, View, config
<1> QED
  BY <1>1, <1>2

\* Collect implements ClusterView: seen from its caller, a collection is one
\* atomic and honest read, however its workers interleave, fail or are cut.
THEOREM CollectImplementsClusterView == Spec => ImplementsClusterView
<1>1. Init => Contract!Init
  BY DEF Init, Contract!Init, Contract!AllKeys, AllKeys
<1>2. CollectInv /\ CollectInv' /\ [Next]_vars => [Contract!Next]_(Contract!vars)
  <2> SUFFICES ASSUME CollectInv, CollectInv', [Next]_vars
               PROVE  Contract!Next \/ UNCHANGED Contract!vars
    OBVIOUS
  <2>1. CASE UNCHANGED vars
    BY <2>1 DEF vars, Contract!vars, ViewStatus
  <2>2. CASE Return
    BY <2>2, ReturnHandsOut DEF Contract!Next
  <2>3. CASE Next /\ ~Return
    BY <2>3, OtherStepsStutter DEF Contract!Next
  <2> QED
    BY <2>1, <2>2, <2>3
<1> QED
  BY <1>1, <1>2, InvariantHolds, PTL DEF Spec, ImplementsClusterView, Contract!Spec
=============================================================================
