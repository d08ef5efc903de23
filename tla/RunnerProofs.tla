----------------------------- MODULE RunnerProofs -----------------------------
(***************************************************************************)
(* Theorems about Runner, for any rules, configurations, window, retention *)
(* and number of rounds, kills and other targets.                          *)
(***************************************************************************)
EXTENDS Runner, SequenceTheorems, TLAPS

-----------------------------------------------------------------------------
(* The operators of Report and Runner. *)

\* Every finding is of one of three kinds.
LEMMA KindsOfFindings ==
    ASSUME NEW f \in Findings
    PROVE  \/ \E c \in Codes, r \in Resources, p \in Parts, s \in Severities, a \in BOOLEAN :
                  f = Subject(c, r, p, s, a)
           \/ \E r \in Rules, c \in {"RULE_UNAVAILABLE", "PARTIAL_UNAVAILABLE"} : f = Blocker(r, c)
           \/ \E r \in Resources : f = Trend(r)
  BY DEF Findings

\* What a rule says of a subject is a finding.
LEMMA SubjectsAreFindings ==
    ASSUME NEW c \in Codes, NEW r \in Resources, NEW p \in Parts, NEW s \in Severities,
           NEW a \in BOOLEAN
    PROVE  Subject(c, r, p, s, a) \in Findings
  BY DEF Findings

\* Whatever a diagnosis produces is made of findings.
LEMMA DiagnosesAreFindings ==
    ASSUME NEW acks \in SUBSET Codes, NEW doc \in Diagnoses(acks, FoundSeverities)
    PROVE  doc \subseteq Findings
<1>1. PICK status \in [Rules -> {"all", "part", "none"}],
           state \in [Subjects -> FoundSeverities \union {"absent"}] :
               doc = DocumentOf(acks, status, state)
  BY DEF Diagnoses
<1>2. ASSUME NEW x \in Subjects, state[x] # "absent"
      PROVE  Subject(x[1], x[2], x[3], state[x], x[1] \in acks) \in Findings
  <2>1. x[1] \in Codes /\ x[2] \in Resources /\ x[3] \in Parts
    BY DEF Subjects
  <2>2. state[x] \in Severities
    BY <1>2, BaselineAssumption DEF BaselineAssumption
  <2>3. (x[1] \in acks) \in BOOLEAN
    OBVIOUS
  <2> QED
    BY <2>1, <2>2, <2>3, SubjectsAreFindings, Zenon
<1>3. ASSUME NEW r \in Rules
      PROVE  Blocker(r, "RULE_UNAVAILABLE") \in Findings /\ Blocker(r, "PARTIAL_UNAVAILABLE") \in Findings
  BY DEF Findings
<1> QED
  BY <1>1, <1>2, <1>3 DEF DocumentOf

\* A comparison calls nothing new or worsened that the later document has not.
LEMMA CompareIsOfTheLaterDocument ==
    ASSUME NEW before, NEW after
    PROVE  /\ Compare(before, after).new \subseteq after
           /\ \A p \in Compare(before, after).worsened : p.after \in after
  BY DEF Compare, Without, CorrelationMap

\* Bridging a round that could not look adds nothing else to it.
LEMMA CompareHistoryIsOfTheLaterDocument ==
    ASSUME NEW documents, NEW after
    PROVE  /\ CompareHistory(documents, after).new \subseteq after
           /\ \A p \in CompareHistory(documents, after).worsened : p.after \in after
<1> DEFINE result == Compare(documents[Len(documents)], after)
<1>1. result.new \subseteq after /\ \A p \in result.worsened : p.after \in after
  BY CompareIsOfTheLaterDocument
<1> HIDE DEF result
<1>2. CompareHistory(documents, after).new \subseteq result.new
  BY DEF CompareHistory, result
<1>3. \A p \in CompareHistory(documents, after).worsened : p.after \in after
  BY <1>1 DEF CompareHistory, result
<1> QED
  BY <1>1, <1>2, <1>3

\* The newest elements of a sequence are elements of it, and no more than asked for.
LEMMA NewestAreElements ==
    ASSUME NEW S, NEW seq \in Seq(S), NEW n \in Nat \ {0}
    PROVE  Newest(seq, n) \in Seq(S) /\ Len(Newest(seq, n)) <= n
  BY DEF Newest

\* What is neither a blocker nor a trend is said of a resource.
LEMMA ResourceOfASubject ==
    ASSUME NEW f \in Findings, f.code # "FINDING_FLAP", f.severity # "unavailable"
    PROVE  f.resource \in Resources
<1>1. \A r \in Rules, c \in {"RULE_UNAVAILABLE", "PARTIAL_UNAVAILABLE"} :
          Blocker(r, c).severity = "unavailable"
  BY DEF Blocker
<1>2. \A r \in Resources : Trend(r).code = "FINDING_FLAP"
  BY DEF Trend
<1>3. \A c \in Codes, r \in Resources, p \in Parts, s \in Severities, a \in BOOLEAN :
          Subject(c, r, p, s, a).resource = r
  BY DEF Subject
<1>4. \E c \in Codes, r \in Resources, p \in Parts, s \in Severities, a \in BOOLEAN :
          f = Subject(c, r, p, s, a)
  BY <1>1, <1>2, KindsOfFindings
<1> QED
  BY <1>3, <1>4

\* Only the subjects of rules are active, so a trend is about a resource.
LEMMA TrendsAreFindings ==
    ASSUME NEW previous0 \in Seq(SUBSET Findings), NEW current \in SUBSET Findings,
           NEW window \in Nat \ {0}, NEW threshold
    PROVE  Analyze(previous0, current, window, threshold) \subseteq Findings
<1> DEFINE all == Append(previous0, current)
           samples == IF Len(all) > window THEN SubSeq(all, Len(all) - window + 1, Len(all)) ELSE all
<1>1. samples \in Seq(SUBSET Findings)
  <2>1. all \in Seq(SUBSET Findings)
    OBVIOUS
  <2> HIDE DEF all
  <2> QED
    BY <2>1
<1>2. ASSUME NEW i \in DOMAIN samples, NEW f \in Active(samples[i])
      PROVE  Trend(f.resource) \in Findings
  <2>1. f \in Findings /\ f.code # "FINDING_FLAP" /\ f.severity # "unavailable"
    BY <1>1 DEF Active
  <2>2. f.resource \in Resources
    BY <2>1, ResourceOfASubject
  <2> QED
    BY <2>2 DEF Findings
<1> HIDE DEF samples
<1>3. \A t \in Analyze(previous0, current, window, threshold) :
          \E i \in DOMAIN samples : \E f \in Active(samples[i]) : t = Trend(f.resource)
  BY DEF Analyze, samples
<1> QED
  BY <1>2, <1>3

-----------------------------------------------------------------------------
(* The history database. *)

Records(bound) == [newer : 0..bound, doc : SUBSET Findings]

\* A record that is further back has more newer ones.
InOrder(records) ==
    \A i, j \in DOMAIN records : i < j => records[i].newer > records[j].newer

\* A sequence whose elements lie in a smaller set is a sequence over it.
LEMMA SequenceOver ==
    ASSUME NEW S, NEW seq \in Seq(S), NEW T, \A i \in 1..Len(seq) : seq[i] \in T
    PROVE  seq \in Seq(T)
<1>1. Len(seq) \in Nat /\ seq \in [1..Len(seq) -> S]
  BY LenProperties
<1>2. seq \in [1..Len(seq) -> T]
  BY <1>1
<1> QED
  BY <1>1, <1>2

LEMMA YoungRecords ==
    ASSUME NEW r \in Records(Retain), r.newer < Retain
    PROVE  r \in Records(Retain - 1)
  BY WindowAssumption DEF WindowAssumption, Records

LEMMA OneOlder ==
    ASSUME NEW r \in Records(Retain - 1)
    PROVE  /\ r.newer \in Nat
           /\ [newer |-> r.newer + 1, doc |-> r.doc] \in Records(Retain)
  BY WindowAssumption DEF WindowAssumption, Records

LEMMA RecordsAreTyped ==
    ASSUME NEW records \in Seq(Records(Retain - 1))
    PROVE  \A i \in DOMAIN records :
               records[i].newer \in 0..(Retain - 1) /\ records[i].doc \subseteq Findings
<1>1. \A i \in DOMAIN records : records[i] \in Records(Retain - 1)
  OBVIOUS
<1>2. \A r \in Records(Retain - 1) : r.newer \in 0..(Retain - 1) /\ r.doc \subseteq Findings
  BY DEF Records
<1> QED
  BY <1>1, <1>2

\* A run of anyone makes every record one older and changes nothing else.
LEMMA AgedRecords ==
    ASSUME NEW records \in Seq(Records(Retain - 1)), InOrder(records)
    PROVE  /\ Aged(records) \in Seq(Records(Retain))
           /\ InOrder(Aged(records))
           /\ Len(Aged(records)) = Len(records)
           /\ \A i \in DOMAIN records : /\ Aged(records)[i].doc = records[i].doc
                                        /\ Aged(records)[i].newer = records[i].newer + 1
<1> USE WindowAssumption DEF WindowAssumption
<1>1. /\ DOMAIN Aged(records) = 1..Len(records)
      /\ \A i \in 1..Len(records) :
            Aged(records)[i] = [newer |-> records[i].newer + 1, doc |-> records[i].doc]
  BY DEF Aged
<1>2. \A i \in 1..Len(records) : records[i] \in Records(Retain - 1)
  OBVIOUS
<1>5. \A i \in 1..Len(records) : records[i].newer \in Nat /\ Aged(records)[i] \in Records(Retain)
  BY <1>1, <1>2, OneOlder
<1>3. Aged(records) \in Seq(Records(Retain)) /\ Len(Aged(records)) = Len(records)
  <2>1. Aged(records) \in [1..Len(records) -> Records(Retain)]
    BY <1>1, <1>5 DEF Aged
  <2>2. Len(records) \in Nat
    OBVIOUS
  <2> QED
    BY <2>1, <2>2
<1>4. InOrder(Aged(records))
  <2> SUFFICES ASSUME NEW i \in 1..Len(records), NEW j \in 1..Len(records), i < j
               PROVE  Aged(records)[i].newer > Aged(records)[j].newer
    BY <1>1, Zenon DEF InOrder
  <2>1. records[i].newer > records[j].newer
    BY DEF InOrder
  <2>2. /\ Aged(records)[i].newer = records[i].newer + 1
        /\ Aged(records)[j].newer = records[j].newer + 1
    BY <1>1
  <2>3. records[i].newer \in Nat /\ records[j].newer \in Nat
    BY <1>5
  <2> QED
    BY <2>1, <2>2, <2>3
<1> QED
  BY <1>1, <1>3, <1>4

\* What retention deletes is the oldest record, and only when enough others are
\* newer.
LEMMA PrunedRecords ==
    ASSUME NEW records \in Seq(Records(Retain)), InOrder(records)
    PROVE  /\ Prune(records) \in Seq(Records(Retain - 1))
           /\ InOrder(Prune(records))
           /\ Prune(records) = <<>> =>
                records = <<>> \/ (Len(records) = 1 /\ records[1].newer >= Retain)
           /\ Prune(records) # <<>> =>
                records # <<>> /\ Prune(records)[Len(Prune(records))] = records[Len(records)]
<1> USE WindowAssumption DEF WindowAssumption
<1>1. CASE records = <<>>
  BY <1>1 DEF Prune, InOrder, Records
<1>2. CASE records # <<>> /\ records[1].newer >= Retain
  <2>1. Prune(records) = Tail(records)
    BY <1>2 DEF Prune
  <2>2. /\ Tail(records) \in Seq(Records(Retain))
        /\ Len(Tail(records)) = Len(records) - 1
        /\ \A i \in 1..(Len(records) - 1) : Tail(records)[i] = records[i + 1]
    BY <1>2
  <2>3. \A i \in 1..Len(records) : records[i] \in Records(Retain)
    OBVIOUS
  <2>4. ASSUME NEW i \in 1..(Len(records) - 1)
        PROVE  Tail(records)[i] \in Records(Retain - 1)
    <3>1. records[1] \in Records(Retain) /\ records[i + 1] \in Records(Retain)
      BY <1>2, <2>3
    <3>2. records[1].newer > records[i + 1].newer
      BY <1>2 DEF InOrder
    <3>3. records[i + 1].newer < Retain
      BY <3>1, <3>2 DEF Records
    <3> QED
      BY <2>2, <3>1, <3>3, YoungRecords
  <2>5. Tail(records) \in Seq(Records(Retain - 1))
    BY <2>2, <2>4, SequenceOver
  <2>6. InOrder(Tail(records))
    BY <2>2 DEF InOrder
  <2> QED
    BY <1>2, <2>1, <2>2, <2>3, <2>5, <2>6 DEF Records
<1>3. CASE records # <<>> /\ ~(records[1].newer >= Retain)
  <2>1. Prune(records) = records
    BY <1>3 DEF Prune
  <2>2. \A i \in 1..Len(records) : records[i] \in Records(Retain)
    OBVIOUS
  <2>3. ASSUME NEW i \in 1..Len(records)
        PROVE  records[i] \in Records(Retain - 1)
    <3>1. records[1] \in Records(Retain) /\ records[i] \in Records(Retain)
      BY <1>3, <2>2
    <3>2. i = 1 \/ records[1].newer > records[i].newer
      BY <1>3 DEF InOrder
    <3>3. records[i].newer < Retain
      BY <1>3, <3>1, <3>2 DEF Records
    <3> QED
      BY <3>1, <3>3, YoungRecords
  <2>4. records \in Seq(Records(Retain - 1))
    BY <2>3
  <2> QED
    BY <1>3, <2>1, <2>4
<1> QED
  BY <1>1, <1>2, <1>3

\* A new record keeps the order, whatever the others were aged from.
LEMMA AppendedRecords ==
    ASSUME NEW records \in Seq(Records(Retain - 1)), InOrder(records),
           NEW content \in SUBSET Findings
    PROVE  LET appended == Append(Aged(records), [newer |-> 0, doc |-> content])
           IN  /\ appended \in Seq(Records(Retain))
               /\ InOrder(appended)
               /\ Len(appended) = Len(records) + 1
               /\ appended[Len(appended)] = [newer |-> 0, doc |-> content]
<1> USE WindowAssumption DEF WindowAssumption
<1> DEFINE aged == Aged(records)
           added == [newer |-> 0, doc |-> content]
<1>1. /\ aged \in Seq(Records(Retain)) /\ InOrder(aged) /\ Len(aged) = Len(records)
      /\ \A i \in 1..Len(aged) : aged[i].newer > 0
  <2>1. \A i \in 1..Len(records) : records[i] \in Records(Retain - 1)
    OBVIOUS
  <2>2. \A i \in 1..Len(records) : records[i].newer \in Nat
    BY <2>1, OneOlder
  <2> QED
    BY <2>2, AgedRecords
<1>2. added \in Records(Retain) /\ added.newer = 0
  BY DEF Records
<1> HIDE DEF aged, added
<1>3. /\ Append(aged, added) \in Seq(Records(Retain))
      /\ Len(Append(aged, added)) = Len(aged) + 1
      /\ Append(aged, added)[Len(aged) + 1] = added
      /\ \A i \in 1..Len(aged) : Append(aged, added)[i] = aged[i]
  BY <1>1, <1>2
<1> DEFINE appended == Append(aged, added)
<1>4. InOrder(appended)
  <2>1. Len(aged) \in Nat /\ DOMAIN aged = 1..Len(aged) /\ DOMAIN appended = 1..Len(aged) + 1
    BY <1>1, <1>3
  <2>2. \A i \in 1..Len(aged) : appended[i].newer = aged[i].newer /\ aged[i].newer > 0
    BY <1>1, <1>3
  <2>3. appended[Len(aged) + 1].newer = 0
    BY <1>2, <1>3
  <2>4. \A i, j \in 1..Len(aged) : i < j => aged[i].newer > aged[j].newer
    BY <1>1, <2>1 DEF InOrder
  <2> HIDE DEF appended
  <2>5. ASSUME NEW i \in 1..Len(aged) + 1, NEW j \in 1..Len(aged) + 1, i < j
        PROVE  appended[i].newer > appended[j].newer
    <3>1. i \in 1..Len(aged)
      BY <2>1, <2>5
    <3>2. CASE j = Len(aged) + 1
      BY <2>2, <2>3, <3>1, <3>2
    <3>3. CASE j \in 1..Len(aged)
      BY <2>2, <2>4, <2>5, <3>1, <3>3
    <3> QED
      BY <2>1, <3>2, <3>3
  <2> QED
    BY <2>1, <2>5 DEF InOrder
<1> QED
  BY <1>1, <1>3, <1>4 DEF aged, added

\* After a run of anyone, this one's newest record is still there, or as many
\* others as retention keeps are newer.
LEMMA RecordsOfOthers ==
    ASSUME NEW records \in Seq(Records(Retain - 1)), InOrder(records), NEW n \in Nat,
           records # <<>> => records[Len(records)].newer <= n,
           records = <<>> => n >= Retain
    PROVE  LET pruned == Prune(Aged(records))
           IN  /\ pruned = <<>> => n + 1 >= Retain
               /\ pruned # <<>> => /\ records # <<>>
                                   /\ pruned[Len(pruned)].doc = records[Len(records)].doc
                                   /\ pruned[Len(pruned)].newer <= n + 1
<1> USE WindowAssumption DEF WindowAssumption
<1> DEFINE aged == Aged(records)
<1>1. /\ aged \in Seq(Records(Retain)) /\ InOrder(aged) /\ Len(aged) = Len(records)
      /\ \A i \in DOMAIN records : /\ aged[i].doc = records[i].doc
                                   /\ aged[i].newer = records[i].newer + 1
  BY AgedRecords
<1> HIDE DEF aged
<1>2. /\ Prune(aged) = <<>> =>
            aged = <<>> \/ (Len(aged) = 1 /\ aged[1].newer >= Retain)
      /\ Prune(aged) # <<>> =>
            aged # <<>> /\ Prune(aged)[Len(Prune(aged))] = aged[Len(aged)]
  BY <1>1, PrunedRecords
<1>3. CASE records = <<>>
  <2>1. aged = <<>>
    BY <1>1, <1>3
  <2> QED
    BY <1>2, <1>3, <2>1 DEF aged
<1>4. CASE records # <<>>
  <2>1. /\ Len(records) \in DOMAIN records /\ Len(records) \in Nat
        /\ records[Len(records)] \in Records(Retain - 1)
    BY <1>4
  <2>2. records[Len(records)].newer \in Nat
    BY <2>1, OneOlder
  <2>3. aged # <<>>
    BY <1>1, <1>4
  <2>4. Len(aged) = 1 => aged[1] = aged[Len(aged)]
    OBVIOUS
  <2>5. /\ aged[Len(aged)].doc = records[Len(records)].doc
        /\ aged[Len(aged)].newer = records[Len(records)].newer + 1
    BY <1>1, <2>1
  <2>6. Prune(aged) = <<>> => n + 1 >= Retain
    BY <1>2, <1>4, <2>2, <2>3, <2>4, <2>5
  <2> QED
    BY <1>2, <1>4, <2>2, <2>5, <2>6 DEF aged
<1> QED
  BY <1>3, <1>4

-----------------------------------------------------------------------------
(* Types. *)

RunnerTypes ==
    /\ watchRuns \in Seq(SUBSET Findings)
    /\ db \in Seq(Records(Retain - 1))
    /\ InOrder(db)
    /\ others \in Nat
    /\ (Running /\ cfg.diff) => previous \subseteq Findings

TypeInv == TypeOK /\ RunnerTypes

LEMMA LimitIsPositive == HistoryLimit \in Nat \ {0}
  BY WindowAssumption DEF WindowAssumption, HistoryLimit

\* What the database holds and returns are documents.
LEMMA ContentsAreDocuments ==
    ASSUME NEW bound, NEW records \in Seq(Records(bound))
    PROVE  /\ Contents(records) \in Seq(SUBSET Findings)
           /\ Len(Contents(records)) = Len(records)
           /\ \A i \in 1..Len(records) : Contents(records)[i] = records[i].doc
<1>1. \A i \in 1..Len(records) : records[i] \in Records(bound)
  OBVIOUS
<1>2. \A i \in 1..Len(records) : records[i].doc \in SUBSET Findings
  BY <1>1 DEF Records
<1>3. Len(records) \in Nat /\ DOMAIN records = 1..Len(records)
  OBVIOUS
<1>4. [i \in 1..Len(records) |-> records[i].doc] \in Seq(SUBSET Findings)
  BY <1>2, <1>3
<1> QED
  BY <1>3, <1>4 DEF Contents

LEMMA HistoryIsMadeOfDocuments ==
    ASSUME db \in Seq(Records(Retain - 1))
    PROVE  HistoryRecords \in Seq(SUBSET Findings)
  BY ContentsAreDocuments, NewestAreElements, LimitIsPositive DEF HistoryRecords

\* The webhook hears of findings of this round only.
LEMMA PayloadIsOfTheDocument ==
    ASSUME NEW doc, Difference(doc) # None
    PROVE  BuildPayload(Difference(doc)) \subseteq doc
<1>1. /\ Difference(doc).new \subseteq doc
      /\ \A p \in Difference(doc).worsened : p.after \in doc
  <2>1. CASE cfg.diff
    BY <2>1, CompareIsOfTheLaterDocument DEF Difference
  <2>2. CASE ~cfg.diff /\ cfg.db /\ HistoryRecords # <<>>
    BY <2>2, CompareHistoryIsOfTheLaterDocument DEF Difference
  <2>3. CASE ~cfg.diff /\ ~(cfg.db /\ HistoryRecords # <<>>) /\ watchRuns # <<>>
    BY <2>3, CompareHistoryIsOfTheLaterDocument DEF Difference
  <2>4. ~(~cfg.diff /\ ~(cfg.db /\ HistoryRecords # <<>>) /\ ~(watchRuns # <<>>))
    BY DEF Difference
  <2> QED
    BY <2>1, <2>2, <2>3, <2>4
<1> QED
  BY <1>1 DEF BuildPayload

LEMMA InitTypes == Init => TypeInv
<1> SUFFICES ASSUME Init PROVE TypeInv
  OBVIOUS
<1>1. Valid(cfg)
  BY DEF Init
<1>2. /\ DOMAIN watchRuns = {} /\ DOMAIN db = {} /\ Len(watchRuns) = 0
      /\ 0 <= HistoryLimit
  BY LimitIsPositive DEF Init
<1>3. TypeOK
  BY <1>1, <1>2 DEF Init, TypeOK
<1>4. RunnerTypes
  BY DEF Init, RunnerTypes, InOrder, Running
<1> QED
  BY <1>3, <1>4 DEF TypeInv

PcValues == {"off", "diagnose", "prepare", "append", "save", "output", "notify", "record",
             "sleep", "returned", "exited", "killed"}

\* A step that leaves the documents of this process and of the database alone.
LEMMA StepWithoutDocuments ==
    ASSUME TypeInv,
           UNCHANGED <<cfg, acknowledged, document, payload, previous, known, basis, watchRuns,
                       db, others>>,
           pc' \in PcValues, Running' => Running, sent' \subseteq Findings,
           code' \in {0, 1, 130}, cancelled' \in BOOLEAN, failed' \in BOOLEAN
    PROVE  TypeInv'
<1>1. TypeOK'
  BY DEF TypeInv, TypeOK, PcValues
<1>2. RunnerTypes'
  BY DEF TypeInv, RunnerTypes
<1> QED
  BY <1>1, <1>2 DEF TypeInv

\* A process ends and takes its memory along.
LEMMA EndOfAProcess ==
    ASSUME TypeInv, LoseMemory, ~Running', pc' \in PcValues,
           UNCHANGED <<cfg, acknowledged, known, db, others>>, document' \subseteq Findings,
           code' \in {0, 1, 130}, cancelled' \in BOOLEAN, failed' \in BOOLEAN
    PROVE  TypeInv'
<1>1. /\ watchRuns' = <<>> /\ DOMAIN watchRuns' = {} /\ Len(watchRuns') <= HistoryLimit
      /\ sent' = {} /\ payload' = {} /\ basis' = {}
  BY LimitIsPositive DEF LoseMemory
<1>2. TypeOK'
  BY <1>1 DEF TypeInv, TypeOK, PcValues
<1>3. RunnerTypes'
  BY <1>1 DEF TypeInv, RunnerTypes
<1> QED
  BY <1>2, <1>3 DEF TypeInv

\* The steps that neither make a document nor keep one.
LEMMA OtherStepsKeepTypes ==
    ASSUME TypeInv,
           \/ DiagnoseInterrupted \/ DiagnoseFails \/ LoadFails \/ AppendFails \/ SaveSnapshot
           \/ WriteReport \/ NotifyNothing \/ Send \/ SleepInterrupted \/ Exit \/ Wake
           \/ Interrupt \/ Kill
    PROVE  TypeInv'
<1> USE DEF store, round, history, bounds, Finish, Fail
<1>0. /\ code \in {0, 1, 130} /\ failed \in BOOLEAN /\ cancelled \in BOOLEAN
      /\ sent \subseteq Findings /\ payload \subseteq Findings /\ document \subseteq Findings
  BY DEF TypeInv, TypeOK
<1>1. CASE DiagnoseInterrupted \/ DiagnoseFails \/ SleepInterrupted \/ Wake
  BY <1>0, <1>1, StepWithoutDocuments
  DEF DiagnoseInterrupted, DiagnoseFails, SleepInterrupted, Wake, Running, PcValues
<1>2. CASE LoadFails \/ AppendFails \/ NotifyNothing
  BY <1>0, <1>2, StepWithoutDocuments DEF LoadFails, AppendFails, NotifyNothing, Running, PcValues
<1>3. CASE Interrupt
  BY <1>0, <1>3, StepWithoutDocuments DEF Interrupt, Running, PcValues, TypeInv, TypeOK
<1>4. CASE SaveSnapshot \/ WriteReport
  <2> USE <1>4 DEF SaveSnapshot, WriteReport
  <2>1. pc' \in PcValues /\ (Running' => Running)
    BY DEF PcValues, Running
  <2>2. code' \in {0, 1, 130} /\ failed' \in BOOLEAN
    BY <1>0
  <2>3. UNCHANGED <<cfg, acknowledged, document, payload, previous, known, basis, watchRuns,
                    others, sent, cancelled, db>>
    OBVIOUS
  <2> QED
    BY <1>0, <2>1, <2>2, <2>3, StepWithoutDocuments
<1>5. CASE Send
  <2> USE <1>5 DEF Send
  <2>1. pc' \in PcValues /\ (Running' => Running)
    BY DEF PcValues, Running
  <2>2. code' \in {0, 1, 130} /\ failed' \in BOOLEAN /\ sent' \subseteq Findings
    BY <1>0
  <2>3. UNCHANGED <<cfg, acknowledged, document, payload, previous, known, basis, watchRuns,
                    others, cancelled, db>>
    OBVIOUS
  <2> QED
    BY <1>0, <2>1, <2>2, <2>3, StepWithoutDocuments
<1>6. CASE Exit
  <2>1. code' \in {0, 1, 130} /\ ~Running' /\ pc' \in PcValues
    BY <1>0, <1>6 DEF Exit, InterruptedExitCode, Running, PcValues
  <2> QED
    BY <1>0, <1>6, <2>1, EndOfAProcess DEF Exit
<1>7. CASE Kill
  <2>1. ~Running' /\ pc' \in PcValues
    BY <1>7 DEF Kill, Running, PcValues
  <2> QED
    BY <1>7, <2>1, EndOfAProcess DEF Kill, NothingYet
<1> QED
  BY <1>1, <1>2, <1>3, <1>4, <1>5, <1>6, <1>7

LEMMA LearnedAreFindings ==
    ASSUME NEW before \in SUBSET Findings, NEW doc \in SUBSET Findings
    PROVE  Learn(before, doc) \subseteq Findings
  BY DEF Learn

\* A diagnosis makes a document, prepare adds the trends to it.
LEMMA DiagnoseKeepsTypes ==
    ASSUME TypeInv, Diagnose
    PROVE  TypeInv'
<1> USE DEF Diagnose, store, history, bounds
<1>1. acknowledged' \subseteq Codes /\ document' \subseteq Findings
  <2>1. acknowledged' \in SUBSET Codes
    BY DEF TypeInv, TypeOK
  <2> QED
    BY <2>1, DiagnosesAreFindings
<1>2. payload' \subseteq Findings /\ sent' \subseteq Findings
  OBVIOUS
<1>3. TypeOK'
  BY <1>1, <1>2 DEF TypeInv, TypeOK
<1>4. RunnerTypes'
  BY DEF TypeInv, RunnerTypes, Running
<1> QED
  BY <1>3, <1>4 DEF TypeInv

LEMMA TheTrendsAreFindings ==
    ASSUME TypeInv
    PROVE  Trends \subseteq Findings
<1>1. HistoryRecords \in Seq(SUBSET Findings) /\ document \in SUBSET Findings
  BY HistoryIsMadeOfDocuments DEF TypeInv, TypeOK, RunnerTypes
<1>2. Window \in Nat \ {0}
  BY WindowAssumption DEF WindowAssumption
<1> QED
  BY <1>1, <1>2, TrendsAreFindings DEF Trends

LEMMA PrepareKeepsTypes ==
    ASSUME TypeInv, Prepare
    PROVE  TypeInv'
<1>1. Trends \subseteq Findings
  BY TheTrendsAreFindings
<1>2. document' \subseteq Findings /\ basis' \subseteq Findings
  BY <1>1 DEF Prepare, TypeInv, TypeOK
<1>3. payload' \subseteq Findings
  BY <1>2, PayloadIsOfTheDocument DEF Prepare
<1>4. pc' \in PcValues
  BY DEF Prepare, PcValues
<1>5. UNCHANGED <<cfg, acknowledged, previous, watchRuns, db, cancelled, code, sent, failed,
                  known, others>>
  BY DEF Prepare, store, bounds
<1>6. TypeOK'
  BY <1>2, <1>3, <1>4, <1>5 DEF TypeInv, TypeOK, PcValues
<1>7. RunnerTypes'
  BY DEF Prepare, store, bounds, TypeInv, RunnerTypes, Running
<1> QED
  BY <1>6, <1>7 DEF TypeInv

LEMMA AppendHistoryKeepsTypes ==
    ASSUME TypeInv, AppendHistory
    PROVE  TypeInv'
<1> USE DEF AppendHistory, round, bounds
<1>1. known' \subseteq Findings
  BY LearnedAreFindings DEF TypeInv, TypeOK
<1>2. db' \in Seq(Records(Retain - 1)) /\ InOrder(db')
  <2>1. db \in Seq(Records(Retain - 1)) /\ InOrder(db) /\ document \in SUBSET Findings
    BY DEF TypeInv, TypeOK, RunnerTypes
  <2> QED
    BY <2>1, AppendedRecords, PrunedRecords
<1>3. \A i \in DOMAIN db' : db'[i].newer \in 0..(Retain - 1) /\ db'[i].doc \subseteq Findings
  BY <1>2, RecordsAreTyped
<1>4. TypeOK'
  BY <1>1, <1>3 DEF TypeInv, TypeOK
<1>5. RunnerTypes'
  BY <1>2 DEF TypeInv, RunnerTypes, Running
<1> QED
  BY <1>4, <1>5 DEF TypeInv

LEMMA RecordKeepsTypes ==
    ASSUME TypeInv, Record
    PROVE  TypeInv'
<1>1. known' \subseteq Findings
  BY LearnedAreFindings DEF Record, TypeInv, TypeOK
<1>2. watchRuns' \in Seq(SUBSET Findings) /\ Len(watchRuns') <= HistoryLimit
  <2>1. Append(watchRuns, document) \in Seq(SUBSET Findings)
    BY DEF TypeInv, TypeOK, RunnerTypes
  <2> QED
    BY <2>1, NewestAreElements, LimitIsPositive DEF Record
<1>3. \A i \in DOMAIN watchRuns' : watchRuns'[i] \subseteq Findings
  BY <1>2
<1>4. pc' \in PcValues /\ code' \in {0, 1, 130}
  BY DEF Record, Finish, PcValues, PolicyCode, TypeInv, TypeOK
<1>5. UNCHANGED <<cfg, acknowledged, document, payload, previous, db, cancelled, sent, failed,
                  basis, others>>
  BY DEF Record, round, store, bounds
<1>6. TypeOK'
  BY <1>1, <1>2, <1>3, <1>4, <1>5 DEF TypeInv, TypeOK, PcValues
<1>7. RunnerTypes'
  BY <1>2, <1>5 DEF Record, TypeInv, RunnerTypes, Running
<1> QED
  BY <1>6, <1>7 DEF TypeInv

LEMMA StartKeepsTypes ==
    ASSUME TypeInv, Start
    PROVE  TypeInv'
<1>1. acknowledged' \subseteq Codes
  BY BaselineAssumption DEF BaselineAssumption, Start
<1>2. known' \subseteq Findings
  BY DEF Start, TypeInv, TypeOK
<1>3. cfg.diff => previous' \subseteq Findings
  BY DiagnosesAreFindings DEF Start, Documents
<1>4. /\ document' \subseteq Findings /\ code' \in {0, 1, 130}
      /\ cancelled' \in BOOLEAN /\ failed' \in BOOLEAN /\ pc' \in PcValues
      /\ UNCHANGED <<cfg, payload, watchRuns, db, sent, basis, others>>
  BY DEF Start, NothingYet, store, PcValues
<1>5. TypeOK'
  BY <1>1, <1>2, <1>4 DEF TypeInv, TypeOK, PcValues
<1>6. RunnerTypes'
  BY <1>3, <1>4 DEF TypeInv, RunnerTypes, Running
<1> QED
  BY <1>5, <1>6 DEF TypeInv

LEMMA OthersKeepTypes ==
    ASSUME TypeInv, OtherTargetAppends
    PROVE  TypeInv'
<1> USE DEF OtherTargetAppends, round, history
<1>1. db' \in Seq(Records(Retain - 1)) /\ InOrder(db')
  BY AgedRecords, PrunedRecords DEF TypeInv, RunnerTypes
<1>2. \A i \in DOMAIN db' : db'[i].newer \in 0..(Retain - 1) /\ db'[i].doc \subseteq Findings
  BY <1>1, RecordsAreTyped
<1>3. TypeOK'
  BY <1>2 DEF TypeInv, TypeOK
<1>4. RunnerTypes'
  BY <1>1 DEF TypeInv, RunnerTypes, Running
<1> QED
  BY <1>3, <1>4 DEF TypeInv

LEMMA NextKeepsTypes == TypeInv /\ [Next]_vars => TypeInv'
<1> SUFFICES ASSUME TypeInv, [Next]_vars PROVE TypeInv'
  OBVIOUS
<1>1. CASE UNCHANGED vars
  <2>1. TypeOK'
    BY <1>1 DEF TypeInv, TypeOK, vars
  <2>2. RunnerTypes'
    BY <1>1 DEF TypeInv, RunnerTypes, Running, vars
  <2> QED
    BY <2>1, <2>2 DEF TypeInv
<1>2. CASE Next
  BY <1>2, OtherStepsKeepTypes, DiagnoseKeepsTypes, PrepareKeepsTypes, AppendHistoryKeepsTypes,
     RecordKeepsTypes, StartKeepsTypes, OthersKeepTypes
  DEF Next, Process
<1> QED
  BY <1>1, <1>2

\* Every variable keeps its type, and the database never holds more than
\* retention allows: a record with Retain newer ones is gone.
THEOREM TypeCorrect == Spec => []TypeOK
<1>1. Spec => []TypeInv
  BY InitTypes, NextKeepsTypes, PTL DEF Spec
<1>2. TypeInv => TypeOK
  BY DEF TypeInv
<1> QED
  BY <1>1, <1>2, PTL

-----------------------------------------------------------------------------
(* Evidence comes first. *)

DocumentIsOnRecord ==
    IF db = <<>> THEN others >= Retain ELSE db[Len(db)].doc = document

NothingIsSent ==
    pc \in {"off", "exited", "killed", "prepare", "append", "save", "output", "notify"}
        => sent = {}

\* What finish has already written when it comes to a step.
WrittenSoFar ==
    /\ cfg.db /\ pc \in {"save", "output", "notify"} => DocumentIsOnRecord
    /\ cfg.save /\ pc \in {"output", "notify"} => saved = document
    /\ cfg.output /\ pc = "notify" => report = document

\* Only runs of other targets make the newest record older.
NewestIsRecent == db # <<>> => db[Len(db)].newer <= others

EvidenceInv == NothingIsSent /\ WrittenSoFar /\ NewestIsRecent /\ EvidenceComesFirst

LEMMA InitEvidence == Init => EvidenceInv
  BY DEF Init, EvidenceInv, NothingIsSent, WrittenSoFar, NewestIsRecent, EvidenceComesFirst

\* A step that writes nothing carries the evidence over.
LEMMA EvidenceCarriesOver ==
    ASSUME EvidenceInv, UNCHANGED <<cfg, store, document, others>>,
           pc' \in {"returned", "diagnose", "sleep", "record"} \/ UNCHANGED pc,
           UNCHANGED sent
    PROVE  EvidenceInv'
  BY DEF EvidenceInv, NothingIsSent, WrittenSoFar, NewestIsRecent, EvidenceComesFirst,
         DocumentIsOnRecord, store

\* Where nothing is sent, only what is written so far has to be shown.
LEMMA EvidenceOfASilentStep ==
    ASSUME sent' = {}, WrittenSoFar', NewestIsRecent'
    PROVE  EvidenceInv'
  BY DEF EvidenceInv, NothingIsSent, EvidenceComesFirst

LEMMA AppendHistoryKeepsEvidence ==
    ASSUME TypeInv, EvidenceInv, AppendHistory
    PROVE  EvidenceInv'
<1>1. /\ sent' = {} /\ pc' = "save" /\ UNCHANGED document
      /\ others' = IF Unchanged(document) THEN others ELSE 0
  BY DEF AppendHistory, round, EvidenceInv, NothingIsSent
<1>2. db' # <<>> /\ db'[Len(db')].doc = document /\ db'[Len(db')].newer <= others'
  <2>1. CASE Unchanged(document)
    BY <1>1, <2>1 DEF AppendHistory, Unchanged, EvidenceInv, NewestIsRecent
  <2>2. CASE ~Unchanged(document)
    <3> DEFINE appended == Append(Aged(db), [newer |-> 0, doc |-> document])
    <3>1. /\ appended \in Seq(Records(Retain)) /\ InOrder(appended)
          /\ Len(appended) \in Nat /\ Len(appended) > 0
          /\ appended[Len(appended)] = [newer |-> 0, doc |-> document]
      <4>1. db \in Seq(Records(Retain - 1)) /\ InOrder(db) /\ document \in SUBSET Findings
        BY DEF TypeInv, TypeOK, RunnerTypes
      <4>2. Len(db) \in Nat
        BY <4>1
      <4> QED
        BY <4>1, <4>2, AppendedRecords
    <3> HIDE DEF appended
    <3>2. db' = Prune(appended)
      BY <2>2 DEF AppendHistory, appended
    <3>3. ~(Len(appended) = 1 /\ appended[1].newer >= Retain)
      BY <3>1, WindowAssumption DEF WindowAssumption
    <3>4. db' # <<>> /\ db'[Len(db')] = [newer |-> 0, doc |-> document]
      BY <3>1, <3>2, <3>3, PrunedRecords
    <3>5. others' = 0
      BY <1>1, <2>2
    <3> QED
      BY <3>4, <3>5
  <2> QED
    BY <2>1, <2>2
<1>3. WrittenSoFar' /\ NewestIsRecent'
  BY <1>1, <1>2 DEF WrittenSoFar, NewestIsRecent, DocumentIsOnRecord
<1> QED
  BY <1>1, <1>3, EvidenceOfASilentStep

\* Runs of other targets may push the record out, but only as retention says.
LEMMA OthersKeepEvidence ==
    ASSUME TypeInv, EvidenceInv, OtherTargetAppends
    PROVE  EvidenceInv'
<1>1. /\ db' = Prune(Aged(db)) /\ others' = others + 1 /\ others \in Nat
      /\ UNCHANGED <<cfg, pc, document, sent, saved, report>>
  BY DEF OtherTargetAppends, round, TypeInv, RunnerTypes
<1>2. db \in Seq(Records(Retain - 1)) /\ InOrder(db)
  BY DEF TypeInv, RunnerTypes
<1>3. NewestIsRecent'
  <2>1. CASE db = <<>>
    <3>1. Aged(db) \in Seq(Records(Retain)) /\ InOrder(Aged(db)) /\ Len(Aged(db)) = Len(db)
      BY <1>2, AgedRecords
    <3>2. Aged(db) = <<>>
      BY <2>1, <3>1
    <3>3. db' = <<>>
      BY <1>1, <3>1, <3>2, PrunedRecords
    <3> QED
      BY <3>3 DEF NewestIsRecent
  <2>2. CASE db # <<>>
    BY <1>1, <1>2, <2>2, RecordsOfOthers DEF NewestIsRecent, EvidenceInv
  <2> QED
    BY <2>1, <2>2
<1>4. DocumentIsOnRecord => DocumentIsOnRecord'
  <2> SUFFICES ASSUME DocumentIsOnRecord PROVE DocumentIsOnRecord'
    OBVIOUS
  <2>1. /\ db # <<>> => db[Len(db)].newer <= others
        /\ db = <<>> => others >= Retain
    BY DEF DocumentIsOnRecord, EvidenceInv, NewestIsRecent
  <2>2. /\ db' = <<>> => others + 1 >= Retain
        /\ db' # <<>> => db # <<>> /\ db'[Len(db')].doc = db[Len(db)].doc
    BY <1>1, <1>2, <2>1, RecordsOfOthers
  <2> QED
    BY <1>1, <2>2 DEF DocumentIsOnRecord
<1> QED
  BY <1>1, <1>3, <1>4
  DEF EvidenceInv, NothingIsSent, WrittenSoFar, EvidenceComesFirst, DocumentIsOnRecord

LEMMA WritingKeepsEvidence ==
    ASSUME TypeInv, EvidenceInv, SaveSnapshot \/ WriteReport
    PROVE  EvidenceInv'
<1>1. sent' = {} /\ UNCHANGED <<cfg, document, db, others>>
  BY DEF SaveSnapshot, WriteReport, round, bounds, EvidenceInv, NothingIsSent
<1>2. NewestIsRecent'
  BY <1>1 DEF EvidenceInv, NewestIsRecent
<1>3. WrittenSoFar'
  BY <1>1 DEF SaveSnapshot, WriteReport, Finish, Fail, EvidenceInv, WrittenSoFar,
              DocumentIsOnRecord
<1> QED
  BY <1>1, <1>2, <1>3, EvidenceOfASilentStep

\* By the time anything is sent, all of it is written.
LEMMA SendKeepsEvidence ==
    ASSUME TypeInv, EvidenceInv, Send
    PROVE  EvidenceInv'
<1>1. /\ pc = "notify" /\ pc' \in {"record", "returned"}
      /\ UNCHANGED <<cfg, document, db, saved, report, others>>
  BY DEF Send, Finish, Fail, round, store, bounds
<1> QED
  BY <1>1
  DEF EvidenceInv, NothingIsSent, WrittenSoFar, NewestIsRecent, EvidenceComesFirst,
      DocumentIsOnRecord

LEMMA NextKeepsEvidence == TypeInv /\ EvidenceInv /\ [Next]_vars => EvidenceInv'
<1> SUFFICES ASSUME TypeInv, EvidenceInv, [Next]_vars PROVE EvidenceInv'
  OBVIOUS
<1> USE DEF store, round, bounds, history, Finish, Fail
<1>1. CASE UNCHANGED vars
  BY <1>1, EvidenceCarriesOver DEF vars
<1>2. CASE DiagnoseInterrupted \/ DiagnoseFails \/ LoadFails \/ AppendFails \/ SleepInterrupted
           \/ Wake \/ Interrupt \/ Record
  BY <1>2, EvidenceCarriesOver
  DEF DiagnoseInterrupted, DiagnoseFails, LoadFails, AppendFails, SleepInterrupted, Wake,
      Interrupt, Record
<1>3. CASE NotifyNothing
  BY <1>3, EvidenceCarriesOver DEF NotifyNothing
<1>4. CASE Diagnose \/ Start \/ Exit \/ Kill
  <2>1. sent' = {} /\ UNCHANGED <<db, others>>
    BY <1>4 DEF Diagnose, Start, Exit, Kill, LoseMemory, EvidenceInv, NothingIsSent
  <2>2. pc' \in {"prepare", "diagnose", "exited", "killed"}
    BY <1>4 DEF Diagnose, Start, Exit, Kill
  <2>3. WrittenSoFar' /\ NewestIsRecent'
    BY <2>1, <2>2 DEF WrittenSoFar, NewestIsRecent, EvidenceInv
  <2> QED
    BY <2>1, <2>3, EvidenceOfASilentStep
<1>5. CASE Prepare
  <2>1. sent' = {} /\ pc' = IF cfg.db THEN "append" ELSE "save"
    BY <1>5 DEF Prepare, EvidenceInv, NothingIsSent
  <2>2. UNCHANGED <<cfg, db, others>>
    BY <1>5 DEF Prepare
  <2>3. WrittenSoFar' /\ NewestIsRecent'
    BY <2>1, <2>2 DEF WrittenSoFar, NewestIsRecent, EvidenceInv
  <2> QED
    BY <2>1, <2>3, EvidenceOfASilentStep
<1> QED
  BY <1>1, <1>2, <1>3, <1>4, <1>5, AppendHistoryKeepsEvidence, WritingKeepsEvidence,
     SendKeepsEvidence, OthersKeepEvidence
  DEF Next, Process

\* Whatever the webhook was told, or may have been told before its answer was
\* lost, is in the files and in the database, unless newer runs of other
\* targets pushed it out: for every configuration, retention and failure.
THEOREM EvidenceComesFirstHolds == Spec => []EvidenceComesFirst
<1>1. Init => TypeInv /\ EvidenceInv
  BY InitTypes, InitEvidence
<1>2. TypeInv /\ EvidenceInv /\ [Next]_vars => (TypeInv /\ EvidenceInv)'
  BY NextKeepsTypes, NextKeepsEvidence
<1>3. EvidenceInv => EvidenceComesFirst
  BY DEF EvidenceInv
<1> QED
  BY <1>1, <1>2, <1>3, PTL DEF Spec

-----------------------------------------------------------------------------
(* The exit status. *)

\* A failure ends the run, and what Run returns says why it returned.
ReturnTellsWhy ==
    /\ failed => pc \in {"returned", "exited"}
    /\ pc = "returned" =>
        /\ failed => code = 1
        /\ ~failed => code \in {0, 1}
        /\ (~failed /\ ~cancelled) => ~cfg.watch /\ code = PolicyCode

ExitInv == ReturnTellsWhy /\ ExitStatusTellsWhy

LEMMA ExitStepTellsWhy ==
    ASSUME ExitInv, Exit
    PROVE  ExitInv'
<1>1. /\ pc = "returned" /\ pc' = "exited" /\ code' = InterruptedExitCode(code)
      /\ UNCHANGED <<cfg, document, cancelled, failed>>
  BY DEF Exit
<1>2. ReturnTellsWhy'
  BY <1>1 DEF ReturnTellsWhy
<1>3. ExitStatusTellsWhy'
  BY <1>1 DEF ExitInv, ReturnTellsWhy, ExitStatusTellsWhy, InterruptedExitCode, PolicyCode
<1> QED
  BY <1>2, <1>3 DEF ExitInv

LEMMA NextTellsWhy == ExitInv /\ [Next]_vars => ExitInv'
<1> SUFFICES ASSUME ExitInv, [Next]_vars PROVE ExitInv'
  OBVIOUS
<1> USE DEF round, Finish, Fail, ExitInv, ReturnTellsWhy, ExitStatusTellsWhy
<1>1. CASE UNCHANGED vars
  BY <1>1 DEF vars, PolicyCode
<1>2. CASE DiagnoseInterrupted \/ SleepInterrupted
  BY <1>2 DEF DiagnoseInterrupted, SleepInterrupted
<1>3. CASE DiagnoseFails \/ LoadFails \/ AppendFails
  BY <1>3 DEF DiagnoseFails, LoadFails, AppendFails
<1>4. CASE Diagnose \/ Prepare \/ AppendHistory \/ NotifyNothing \/ Wake
  BY <1>4 DEF Diagnose, Prepare, AppendHistory, NotifyNothing, Wake
<1>5. CASE SaveSnapshot \/ WriteReport
  BY <1>5 DEF SaveSnapshot, WriteReport
<1>6. CASE Send
  BY <1>6 DEF Send
<1>7. CASE Record
  <2>1. ~failed'
    BY <1>7 DEF Record
  <2>2. CASE cfg.watch
    BY <1>7, <2>1, <2>2 DEF Record
  <2>3. CASE ~cfg.watch
    <3>1. code' = PolicyCode /\ PolicyCode' = PolicyCode /\ PolicyCode \in {0, 1}
      BY <1>7, <2>3 DEF Record, PolicyCode
    <3> QED
      BY <1>7, <2>1, <2>3, <3>1 DEF Record
  <2> QED
    BY <2>2, <2>3
<1>8. CASE Start \/ Kill
  BY <1>8 DEF Start, Kill, NothingYet
<1>9. CASE Interrupt \/ OtherTargetAppends
  BY <1>9 DEF Interrupt, OtherTargetAppends, Running, PolicyCode
<1> QED
  BY <1>1, <1>2, <1>3, <1>4, <1>5, <1>6, <1>7, <1>8, <1>9, ExitStepTellsWhy DEF Next, Process

\* The exit status tells an interrupt from a failure from the findings, and
\* findings never end a watch: for every policy and every order of failures,
\* signals and kills.
THEOREM ExitStatusHolds == Spec => []ExitStatusTellsWhy
<1>1. Init => ExitInv
  BY DEF Init, ExitInv, ReturnTellsWhy, ExitStatusTellsWhy
<1>2. ExitInv => ExitStatusTellsWhy
  BY DEF ExitInv
<1> QED
  BY <1>1, <1>2, NextTellsWhy, PTL DEF Spec

-----------------------------------------------------------------------------
(* What is resolved was evaluated. *)

\* The registry's own codes and the trends' are no rule's, and rules have names.
CodesAreTheRules ==
    /\ \A c \in {"RULE_UNAVAILABLE", "PARTIAL_UNAVAILABLE", "FINDING_FLAP"} : c \notin Codes
    /\ "" \notin Rules

\* A finding with a rule's code is that rule's.
LEMMA RuleOfAFinding ==
    ASSUME CodesAreTheRules, NEW f \in Findings, f.code \in Codes
    PROVE  f.rule = RuleOf[f.code] /\ f.section = SectionOf[f.code] /\ f.rule # ""
<1>1. \A c \in Codes, r \in Resources, p \in Parts, s \in Severities, a \in BOOLEAN :
          /\ Subject(c, r, p, s, a).code = c
          /\ Subject(c, r, p, s, a).rule = RuleOf[c]
          /\ Subject(c, r, p, s, a).section = SectionOf[c]
  BY DEF Subject
<1>2. \A r \in Rules, c \in {"RULE_UNAVAILABLE", "PARTIAL_UNAVAILABLE"} :
          Blocker(r, c).code \notin Codes
  BY DEF Blocker, CodesAreTheRules
<1>3. \A r \in Resources : Trend(r).code \notin Codes
  BY DEF Trend, CodesAreTheRules
<1>4. \E c \in Codes, r \in Resources, p \in Parts, s \in Severities, a \in BOOLEAN :
          f = Subject(c, r, p, s, a)
  BY <1>2, <1>3, KindsOfFindings
<1>5. f.rule = RuleOf[f.code] /\ f.section = SectionOf[f.code]
  BY <1>1, <1>4
<1>6. f.rule \in Rules
  BY <1>5 DEF Rules
<1> QED
  BY <1>5, <1>6 DEF CodesAreTheRules

\* What is unavailable has a rule.
LEMMA UnavailableHasARule ==
    ASSUME CodesAreTheRules, NEW u \in Findings, u.severity = "unavailable"
    PROVE  u.rule # ""
<1>1. \A c \in Codes, r \in Resources, p \in Parts, s \in Severities, a \in BOOLEAN :
          Subject(c, r, p, s, a).rule \in Rules
  BY DEF Subject, Rules
<1>2. \A r \in Rules, c \in {"RULE_UNAVAILABLE", "PARTIAL_UNAVAILABLE"} :
          Blocker(r, c).rule \in Rules
  BY DEF Blocker
<1>3. \A r \in Resources : Trend(r).severity # "unavailable"
  BY DEF Trend
<1>4. u.rule \in Rules
  BY <1>1, <1>2, <1>3, KindsOfFindings
<1> QED
  BY <1>4 DEF CodesAreTheRules

\* And it is filed under the section of a rule that does not misfile.
LEMMA BlockersAreFiled ==
    ASSUME CodesAreTheRules, NEW u \in Findings, u.severity = "unavailable", ~Misfiles(u.rule)
    PROVE  u.section = MetaSection[u.rule]
<1>1. CASE u.code \in Codes
  BY <1>1, RuleOfAFinding DEF Misfiles
<1>2. CASE u.code \notin Codes
  <2>1. \A c \in Codes, r \in Resources, p \in Parts, s \in Severities, a \in BOOLEAN :
            Subject(c, r, p, s, a).code = c
    BY DEF Subject
  <2>2. \A r \in Rules, c \in {"RULE_UNAVAILABLE", "PARTIAL_UNAVAILABLE"} :
            Blocker(r, c).section = MetaSection[Blocker(r, c).rule]
    BY DEF Blocker
  <2>3. \A r \in Resources : Trend(r).severity # "unavailable"
    BY DEF Trend
  <2> QED
    BY <1>2, <2>1, <2>2, <2>3, KindsOfFindings
<1> QED
  BY <1>1, <1>2

\* Compare resolves nothing about which a rule of the later document could not look.
LEMMA ResolvedWasEvaluated ==
    ASSUME CodesAreTheRules, NEW before \in SUBSET Findings, NEW after \in SUBSET Findings,
           NEW f \in Compare(before, after).resolved, NEW u \in after,
           f.severity # "unavailable", u.severity = "unavailable", u.rule = f.rule
    PROVE  Misfiled(f) \/ Misfiled(u)
<1>1. ~UnknownEntry(f, after)
  BY DEF Compare, Without
<1>2. SUFFICES ASSUME ~Misfiled(f), ~Misfiled(u) PROVE FALSE
  OBVIOUS
<1>3. u.rule # ""
  BY UnavailableHasARule
<1>4. u.section = f.section
  BY <1>2, <1>3 DEF Misfiled
<1>5. u \in MatchingUnavailable(f, after)
  BY <1>4 DEF MatchingUnavailable
<1> QED
  BY <1>1, <1>5 DEF UnknownEntry, EvaluationUnavailable

LEMMA PrepareResolvesWhatWasEvaluated ==
    ASSUME CodesAreTheRules, TypeInv, Prepare
    PROVE  ResolvedMeansEvaluated'
<1>1. TypeInv'
  BY PrepareKeepsTypes
<1>2. document' \in SUBSET Findings /\ difference' = Difference(document')
  BY <1>1 DEF Prepare, TypeInv, TypeOK
<1>3. SUFFICES ASSUME difference' # None
               PROVE  \E before \in SUBSET Findings :
                         difference'.resolved = Compare(before, document').resolved
  BY <1>2, ResolvedWasEvaluated DEF ResolvedMeansEvaluated
<1>4. CASE cfg.diff
  <2>1. previous \in SUBSET Findings /\ difference' = Compare(previous, document')
    BY <1>2, <1>4 DEF Difference, Prepare, TypeInv, RunnerTypes, Running
  <2> QED
    BY <2>1
<1>5. ASSUME NEW documents \in Seq(SUBSET Findings), documents # <<>>,
             difference' = CompareHistory(documents, document')
      PROVE  \E before \in SUBSET Findings :
                difference'.resolved = Compare(before, document').resolved
  <2>1. documents[Len(documents)] \in SUBSET Findings
    BY <1>5
  <2>2. difference'.resolved = Compare(documents[Len(documents)], document').resolved
    BY <1>5 DEF CompareHistory
  <2> QED
    BY <2>1, <2>2
<1>6. CASE ~cfg.diff /\ cfg.db /\ HistoryRecords # <<>>
  <2>1. HistoryRecords \in Seq(SUBSET Findings)
    BY HistoryIsMadeOfDocuments DEF TypeInv, RunnerTypes
  <2> QED
    BY <1>2, <1>5, <1>6, <2>1 DEF Difference
<1>7. CASE ~cfg.diff /\ ~(cfg.db /\ HistoryRecords # <<>>) /\ watchRuns # <<>>
  <2>1. watchRuns \in Seq(SUBSET Findings)
    BY DEF TypeInv, RunnerTypes
  <2> QED
    BY <1>2, <1>5, <1>7, <2>1 DEF Difference
<1>8. CASE ~cfg.diff /\ ~(cfg.db /\ HistoryRecords # <<>>) /\ ~(watchRuns # <<>>)
  BY <1>2, <1>3, <1>8 DEF Difference
<1> QED
  BY <1>4, <1>6, <1>7, <1>8

LEMMA NextResolvesWhatWasEvaluated ==
    ASSUME CodesAreTheRules
    PROVE  TypeInv /\ ResolvedMeansEvaluated /\ [Next]_vars => ResolvedMeansEvaluated'
<1> SUFFICES ASSUME TypeInv, ResolvedMeansEvaluated, [Next]_vars PROVE ResolvedMeansEvaluated'
  OBVIOUS
<1>1. CASE UNCHANGED <<document, difference>>
  BY <1>1 DEF ResolvedMeansEvaluated
<1>2. CASE Diagnose \/ Exit \/ Kill
  BY <1>2 DEF Diagnose, Exit, Kill, LoseMemory, ResolvedMeansEvaluated
<1>3. CASE Start
  BY <1>3 DEF Start, NothingYet, ResolvedMeansEvaluated
<1>4. CASE Prepare
  BY <1>4, PrepareResolvesWhatWasEvaluated
<1>5. \/ UNCHANGED <<document, difference>> \/ Diagnose \/ Exit \/ Kill \/ Start \/ Prepare
  BY DEF Next, Process, vars, round, DiagnoseInterrupted, DiagnoseFails, LoadFails,
         AppendHistory, AppendFails, SaveSnapshot, WriteReport, NotifyNothing, Send, Record,
         SleepInterrupted, Wake, Interrupt, OtherTargetAppends
<1> QED
  BY <1>1, <1>2, <1>3, <1>4, <1>5

\* Whatever is compared with what, the only findings reported resolved though
\* their rule could not look are those that a rule files outside its section.
THEOREM ResolvedHolds ==
    ASSUME CodesAreTheRules
    PROVE  Spec => []ResolvedMeansEvaluated
<1>1. Init => TypeInv /\ ResolvedMeansEvaluated
  BY InitTypes DEF Init, ResolvedMeansEvaluated
<1>2. TypeInv /\ ResolvedMeansEvaluated /\ [Next]_vars => (TypeInv /\ ResolvedMeansEvaluated)'
  BY NextKeepsTypes, NextResolvesWhatWasEvaluated
<1> QED
  BY <1>1, <1>2, PTL DEF Spec

\* And those are reported resolved: what a rule files outside its section is
\* gone from the document of a diagnosis that skipped the rule, and the
\* comparison takes that for an answer.
THEOREM MisfiledIsResolved ==
    ASSUME CodesAreTheRules, NEW before \in SUBSET Findings, NEW f \in before,
           f.code \in Codes, f.severity # "unavailable", Misfiled(f),
           NEW acks, NEW status, NEW state, status[f.rule] = "none"
    PROVE  f \in Compare(before, DocumentOf(acks, status, state)).resolved
<1> DEFINE after == DocumentOf(acks, status, state)
<1>1. f \in Findings /\ f.rule = RuleOf[f.code]
  BY RuleOfAFinding
\* Of the rule, the document has the blocker only.
<1>2. ASSUME NEW h \in after
      PROVE  \/ h.code \in Codes /\ h.code # f.code /\ h.rule # f.rule
             \/ h.code \notin Codes /\ h.section = MetaSection[h.rule]
  <2>1. \A x \in Subjects :
            LET g == Subject(x[1], x[2], x[3], state[x], x[1] \in acks)
            IN  g.code = x[1] /\ x[1] \in Codes /\ g.rule = RuleOf[x[1]]
    BY DEF Subject, Subjects
  <2>2. \A r \in Rules, c \in {"RULE_UNAVAILABLE", "PARTIAL_UNAVAILABLE"} :
            /\ Blocker(r, c).code \notin Codes
            /\ Blocker(r, c).section = MetaSection[Blocker(r, c).rule]
    BY DEF Blocker, CodesAreTheRules
  <2>3. CASE \E r \in Rules, c \in {"RULE_UNAVAILABLE", "PARTIAL_UNAVAILABLE"} : h = Blocker(r, c)
    BY <2>2, <2>3
  <2>4. CASE \E x \in Subjects : /\ status[RuleOf[x[1]]] # "none"
                                 /\ h = Subject(x[1], x[2], x[3], state[x], x[1] \in acks)
    BY <1>1, <2>1, <2>4
  <2> QED
    BY <2>3, <2>4 DEF DocumentOf
<1> HIDE DEF after
<1>3. \A h \in after : Key(h) # Key(f) /\ ID(h) # ID(f)
  BY <1>2 DEF Key, ID
<1>4. MatchingUnavailable(f, after) = {}
  <2>1. f.rule # ""
    BY DEF Misfiled
  <2> QED
    BY <1>2, <2>1 DEF MatchingUnavailable, Misfiled
<1> DEFINE pairs == {p \in [before : CorrelationMap(Without(before, after)),
                            after : CorrelationMap(Without(after, before))] :
                        Key(p.before) = Key(p.after)}
<1>5. f \in Without(before, after) \ {p.before : p \in pairs}
  <2>1. \A p \in pairs : p.after \in after /\ Key(p.before) = Key(p.after)
    BY DEF CorrelationMap, Without
  <2> QED
    BY <1>3, <2>1 DEF Without
<1>6. ~UnknownEntry(f, after)
  BY <1>4 DEF UnknownEntry, EvaluationUnavailable
<1>7. f \in Compare(before, after).resolved
  BY <1>5, <1>6 DEF Compare
<1> QED
  BY <1>7 DEF after

-----------------------------------------------------------------------------
(* The webhook misses nothing new, for any rules, any number of parts, any *)
(* window, any retention and any sequence of rounds, failures, kills and   *)
(* other targets.  The argument relates what the kept documents tell to    *)
(* what the evaluations on record have established.                        *)

-----------------------------------------------------------------------------
(* Findings with a rule's code. *)

LEMMA IssuesHaveACode ==
    ASSUME NEW f \in Findings, f.severity = "issue"
    PROVE  f.code \in Codes
<1>1. \A c \in Codes, r \in Resources, p \in Parts, s \in Severities, a \in BOOLEAN :
          Subject(c, r, p, s, a).code = c
  BY DEF Subject
<1>2. \A r \in Rules, c \in {"RULE_UNAVAILABLE", "PARTIAL_UNAVAILABLE"} :
          Blocker(r, c).severity # "issue"
  BY DEF Blocker
<1>3. \A r \in Resources : Trend(r).severity # "issue"
  BY DEF Trend
<1>4. \E c \in Codes, r \in Resources, p \in Parts, s \in Severities, a \in BOOLEAN :
          f = Subject(c, r, p, s, a)
  BY <1>2, <1>3, KindsOfFindings
<1> QED
  BY <1>1, <1>4

\* Findings with one code are blocked by the same unavailable findings.
LEMMA SameCodeSameBlockers ==
    ASSUME CodesAreTheRules, NEW f \in Findings, NEW g \in Findings, f.code \in Codes,
           f.code = g.code, NEW doc, EvaluationUnavailable(doc, f)
    PROVE  EvaluationUnavailable(doc, g)
<1>1. f.rule = g.rule /\ f.section = g.section
  BY RuleOfAFinding
<1> QED
  BY <1>1 DEF EvaluationUnavailable, MatchingUnavailable

-----------------------------------------------------------------------------
(* What documents tell is known. *)

\* What a document found, and no later one could look at, is known.
Covered(documents, facts) ==
    \A i \in 1..Len(documents) : \A g \in documents[i] :
        (/\ g.severity # "unavailable"
         /\ g.code \in Codes
         /\ \A j \in (i + 1)..Len(documents) : EvaluationUnavailable(documents[j], g))
            => \E k \in facts : Key(k) = Key(g)

\* Learning keeps what the document could not look at.
LEMMA LearningKeeps ==
    ASSUME CodesAreTheRules, NEW facts \in SUBSET Findings, NEW doc \in SUBSET Findings,
           NEW g \in Findings, g.code \in Codes, EvaluationUnavailable(doc, g),
           NEW k \in facts, Key(k) = Key(g)
    PROVE  \E n \in Learn(facts, doc) : Key(n) = Key(g)
<1>1. k.code = g.code /\ k \in Findings
  BY DEF Key
<1>2. EvaluationUnavailable(doc, k) /\ k.rule # ""
  BY <1>1, SameCodeSameBlockers, RuleOfAFinding
<1>3. \E u \in doc : u.severity = "unavailable" /\ u.rule = k.rule
  BY <1>2 DEF EvaluationUnavailable, MatchingUnavailable
<1>4. CASE \A h \in doc : Key(h) = Key(k) => h.severity = "unavailable"
  <2>1. k \in Learn(facts, doc)
    BY <1>3, <1>4 DEF Learn
  <2> QED
    BY <2>1
<1>5. CASE \E h \in doc : Key(h) = Key(k) /\ h.severity # "unavailable"
  <2>1. PICK h \in doc : Key(h) = Key(k) /\ h.severity # "unavailable"
    BY <1>5
  <2>2. h \in Learn(facts, doc)
    BY <2>1 DEF Learn
  <2> QED
    BY <2>1, <2>2
<1> QED
  BY <1>4, <1>5

\* A new document is learned and kept.
LEMMA CoveredWithANewDocument ==
    ASSUME CodesAreTheRules, NEW documents \in Seq(SUBSET Findings), NEW doc \in SUBSET Findings,
           NEW facts \in SUBSET Findings, Covered(documents, facts)
    PROVE  Covered(Append(documents, doc), Learn(facts, doc))
<1> DEFINE more == Append(documents, doc)
<1>1. /\ Len(more) = Len(documents) + 1 /\ Len(documents) \in Nat
      /\ more[Len(documents) + 1] = doc
      /\ \A i \in 1..Len(documents) : more[i] = documents[i]
  OBVIOUS
<1> HIDE DEF more
<1>2. SUFFICES ASSUME NEW i \in 1..Len(more), NEW g \in more[i], g.severity # "unavailable",
                      g.code \in Codes,
                      \A j \in (i + 1)..Len(more) : EvaluationUnavailable(more[j], g)
               PROVE  \E k \in Learn(facts, doc) : Key(k) = Key(g)
  BY DEF Covered, more
<1>3. CASE i = Len(more)
  <2>1. g \in Learn(facts, doc)
    BY <1>1, <1>2, <1>3 DEF Learn
  <2> QED
    BY <2>1
<1>4. CASE i # Len(more)
  <2>1. i \in 1..Len(documents) /\ g \in documents[i] /\ g \in Findings
    BY <1>1, <1>4
  <2>2. EvaluationUnavailable(doc, g)
    BY <1>1, <1>2, <1>4
  <2>3. \A j \in (i + 1)..Len(documents) : EvaluationUnavailable(documents[j], g)
    BY <1>1, <1>2
  <2>4. PICK k \in facts : Key(k) = Key(g)
    BY <1>2, <2>1, <2>3 DEF Covered
  <2> QED
    BY <1>2, <2>1, <2>2, <2>4, LearningKeeps
<1> QED
  BY <1>3, <1>4

\* Learning the newest document a second time loses nothing.
LEMMA CoveredWithTheSameDocument ==
    ASSUME CodesAreTheRules, NEW documents \in Seq(SUBSET Findings), documents # <<>>,
           NEW facts \in SUBSET Findings, Covered(documents, facts)
    PROVE  Covered(documents, Learn(facts, documents[Len(documents)]))
<1> DEFINE doc == documents[Len(documents)]
<1>1. doc \in SUBSET Findings /\ Len(documents) \in Nat /\ Len(documents) > 0
  OBVIOUS
<1>2. SUFFICES ASSUME NEW i \in 1..Len(documents), NEW g \in documents[i],
                      g.severity # "unavailable", g.code \in Codes,
                      \A j \in (i + 1)..Len(documents) : EvaluationUnavailable(documents[j], g)
               PROVE  \E k \in Learn(facts, doc) : Key(k) = Key(g)
  BY DEF Covered
<1>3. CASE i = Len(documents)
  <2>1. g \in Learn(facts, doc)
    BY <1>2, <1>3 DEF Learn
  <2> QED
    BY <2>1
<1>4. CASE i # Len(documents)
  <2>1. g \in Findings /\ EvaluationUnavailable(doc, g)
    BY <1>1, <1>2, <1>4
  <2>2. PICK k \in facts : Key(k) = Key(g)
    BY <1>2 DEF Covered
  <2> QED
    BY <1>1, <1>2, <2>1, <2>2, LearningKeeps
<1> QED
  BY <1>3, <1>4

\* A sequence that has the last documents of another is covered as well.
LEMMA CoveredSuffix ==
    ASSUME NEW documents \in Seq(SUBSET Findings), NEW facts, Covered(documents, facts),
           NEW suffix \in Seq(SUBSET Findings), NEW d \in Nat,
           Len(documents) = Len(suffix) + d,
           \A i \in 1..Len(suffix) : suffix[i] = documents[i + d]
    PROVE  Covered(suffix, facts)
<1>1. SUFFICES ASSUME NEW i \in 1..Len(suffix), NEW g \in suffix[i],
                      g.severity # "unavailable", g.code \in Codes,
                      \A j \in (i + 1)..Len(suffix) : EvaluationUnavailable(suffix[j], g)
               PROVE  \E k \in facts : Key(k) = Key(g)
  BY DEF Covered
<1>2. i + d \in 1..Len(documents) /\ g \in documents[i + d]
  OBVIOUS
<1>3. ASSUME NEW j \in (i + d + 1)..Len(documents)
      PROVE  EvaluationUnavailable(documents[j], g)
  <2>1. j - d \in (i + 1)..Len(suffix) /\ suffix[j - d] = documents[j]
    OBVIOUS
  <2> QED
    BY <1>1, <2>1
<1> QED
  BY <1>1, <1>2, <1>3 DEF Covered

-----------------------------------------------------------------------------
(* And where they tell it. *)

\* The document could not look where g was, and has nothing else to say there.
Gap(doc, g) ==
    /\ \E u \in doc : u.severity = "unavailable" /\ u.rule = g.rule
    /\ \A h \in doc : Key(h) = Key(g) => h.severity = "unavailable"

\* Since the last document that has an issue that is known, none could look.
Traced(documents, facts) ==
    \A g \in facts :
        (g.severity = "issue" /\ \E i \in 1..Len(documents) : g \in documents[i]) =>
            \E k \in 1..Len(documents) :
                /\ g \in documents[k]
                /\ \A j \in (k + 1)..Len(documents) : Gap(documents[j], g)

\* The last document has what is learned from it, and a gap in whatever else
\* stays known.
LEMMA TracedWithANewDocument ==
    ASSUME NEW documents \in Seq(SUBSET Findings), NEW doc \in SUBSET Findings,
           NEW facts, Traced(documents, facts)
    PROVE  Traced(Append(documents, doc), Learn(facts, doc))
<1> DEFINE more == Append(documents, doc)
<1>1. /\ Len(more) = Len(documents) + 1 /\ Len(documents) \in Nat
      /\ more[Len(documents) + 1] = doc
      /\ \A i \in 1..Len(documents) : more[i] = documents[i]
  OBVIOUS
<1> HIDE DEF more
<1>2. SUFFICES ASSUME NEW g \in Learn(facts, doc), g.severity = "issue",
                      NEW i \in 1..Len(more), g \in more[i]
               PROVE  \E k \in 1..Len(more) :
                         /\ g \in more[k]
                         /\ \A j \in (k + 1)..Len(more) : Gap(more[j], g)
  BY DEF Traced, more
<1>3. CASE g \in doc
  <2>1. Len(more) \in 1..Len(more) /\ g \in more[Len(more)]
    BY <1>1, <1>3
  <2>2. \A j \in (Len(more) + 1)..Len(more) : Gap(more[j], g)
    BY <1>1
  <2> QED
    BY <2>1, <2>2
<1>4. CASE g \notin doc
  <2>1. g \in facts /\ Gap(doc, g) /\ i \in 1..Len(documents) /\ g \in documents[i]
    BY <1>1, <1>2, <1>4 DEF Learn, Gap
  <2>2. PICK k \in 1..Len(documents) :
            /\ g \in documents[k]
            /\ \A j \in (k + 1)..Len(documents) : Gap(documents[j], g)
    BY <1>2, <2>1 DEF Traced
  <2>3. k \in 1..Len(more) /\ g \in more[k]
    BY <1>1, <2>2
  <2>4. ASSUME NEW j \in (k + 1)..Len(more)
        PROVE  Gap(more[j], g)
    <3>1. j = Len(more) \/ j \in (k + 1)..Len(documents)
      BY <1>1
    <3> QED
      BY <1>1, <2>1, <2>2, <3>1
  <2> QED
    BY <2>3, <2>4
<1> QED
  BY <1>3, <1>4

LEMMA TracedWithTheSameDocument ==
    ASSUME NEW documents \in Seq(SUBSET Findings), documents # <<>>,
           NEW facts, Traced(documents, facts)
    PROVE  Traced(documents, Learn(facts, documents[Len(documents)]))
<1> DEFINE doc == documents[Len(documents)]
<1>1. Len(documents) \in 1..Len(documents)
  OBVIOUS
<1>2. SUFFICES ASSUME NEW g \in Learn(facts, doc), g.severity = "issue",
                      \E i \in 1..Len(documents) : g \in documents[i]
               PROVE  \E k \in 1..Len(documents) :
                         /\ g \in documents[k]
                         /\ \A j \in (k + 1)..Len(documents) : Gap(documents[j], g)
  BY DEF Traced
<1>3. CASE g \in doc
  <2>1. \A j \in (Len(documents) + 1)..Len(documents) : Gap(documents[j], g)
    BY <1>1
  <2> QED
    BY <1>1, <1>3, <2>1
<1>4. CASE g \notin doc
  <2>1. g \in facts
    BY <1>4 DEF Learn
  <2> QED
    BY <1>2, <2>1 DEF Traced
<1> QED
  BY <1>3, <1>4

\* A suffix that still has the issue reaches back to its last document.
LEMMA TracedSuffix ==
    ASSUME NEW documents \in Seq(SUBSET Findings), NEW facts, Traced(documents, facts),
           NEW suffix \in Seq(SUBSET Findings), NEW d \in Nat,
           Len(documents) = Len(suffix) + d,
           \A i \in 1..Len(suffix) : suffix[i] = documents[i + d]
    PROVE  Traced(suffix, facts)
<1>1. Len(suffix) \in Nat
  OBVIOUS
<1>2. SUFFICES ASSUME NEW g \in facts, g.severity = "issue",
                      NEW i \in 1..Len(suffix), g \in suffix[i]
               PROVE  \E k \in 1..Len(suffix) :
                         /\ g \in suffix[k]
                         /\ \A j \in (k + 1)..Len(suffix) : Gap(suffix[j], g)
  BY DEF Traced
<1>3. i + d \in 1..Len(documents) /\ g \in documents[i + d]
  BY <1>1, <1>2
<1>4. PICK k \in 1..Len(documents) :
          /\ g \in documents[k]
          /\ \A j \in (k + 1)..Len(documents) : Gap(documents[j], g)
  BY <1>2, <1>3 DEF Traced
<1>5. ~(i + d \in (k + 1)..Len(documents))
  BY <1>2, <1>3, <1>4 DEF Gap
<1>6. k - d \in 1..Len(suffix) /\ suffix[k - d] = documents[k]
  BY <1>1, <1>3, <1>5
<1>7. ASSUME NEW j \in (k - d + 1)..Len(suffix)
      PROVE  Gap(suffix[j], g)
  <2>1. j + d \in (k + 1)..Len(documents) /\ suffix[j] = documents[j + d]
    BY <1>1, <1>6
  <2> QED
    BY <1>4, <2>1
<1> QED
  BY <1>4, <1>6, <1>7

\* What documents tell is known, and they tell where.
Told(documents, facts) == Covered(documents, facts) /\ Traced(documents, facts)

LEMMA ToldWithANewDocument ==
    ASSUME CodesAreTheRules, NEW documents \in Seq(SUBSET Findings), NEW doc \in SUBSET Findings,
           NEW facts \in SUBSET Findings, Told(documents, facts)
    PROVE  Told(Append(documents, doc), Learn(facts, doc))
  BY CoveredWithANewDocument, TracedWithANewDocument DEF Told

LEMMA ToldWithTheSameDocument ==
    ASSUME CodesAreTheRules, NEW documents \in Seq(SUBSET Findings), documents # <<>>,
           NEW facts \in SUBSET Findings, Told(documents, facts)
    PROVE  Told(documents, Learn(facts, documents[Len(documents)]))
  BY CoveredWithTheSameDocument, TracedWithTheSameDocument DEF Told

LEMMA ToldSuffix ==
    ASSUME NEW documents \in Seq(SUBSET Findings), NEW facts, Told(documents, facts),
           NEW suffix \in Seq(SUBSET Findings), NEW d \in Nat,
           Len(documents) = Len(suffix) + d,
           \A i \in 1..Len(suffix) : suffix[i] = documents[i + d]
    PROVE  Told(suffix, facts)
<1>1. Covered(suffix, facts)
  BY CoveredSuffix DEF Told
<1>2. Traced(suffix, facts)
  BY TracedSuffix DEF Told
<1> QED
  BY <1>1, <1>2 DEF Told

LEMMA ToldNewest ==
    ASSUME NEW documents \in Seq(SUBSET Findings), NEW facts, Told(documents, facts),
           NEW n \in Nat \ {0}
    PROVE  Told(Newest(documents, n), facts)
<1>1. CASE Len(documents) > n
  <2> DEFINE suffix == Newest(documents, n)
  <2>1. /\ suffix \in Seq(SUBSET Findings) /\ Len(suffix) = n
        /\ \A i \in 1..n : suffix[i] = documents[i + (Len(documents) - n)]
    BY <1>1 DEF Newest
  <2> HIDE DEF suffix
  <2>2. PICK d \in Nat : d = Len(documents) - n
    BY <1>1
  <2>3. Told(suffix, facts)
    <3>1. Len(documents) = Len(suffix) + d /\ \A i \in 1..Len(suffix) : suffix[i] = documents[i + d]
      BY <2>1, <2>2
    <3> QED
      BY <2>1, <3>1, ToldSuffix
  <2> QED
    BY <2>3 DEF suffix
<1>2. CASE ~(Len(documents) > n)
  BY <1>2 DEF Newest
<1> QED
  BY <1>1, <1>2

-----------------------------------------------------------------------------
(* What is compared with known documents announces what is not known. *)

LEMMA NothingKnownIsCompared ==
    ASSUME CodesAreTheRules, NEW documents \in Seq(SUBSET Findings), documents # <<>>,
           NEW facts \in SUBSET Findings, Covered(documents, facts),
           NEW doc \in SUBSET Findings, NEW f \in doc, f.severity = "issue",
           \A k \in facts : Key(k) # Key(f)
    PROVE  \/ f \in CompareHistory(documents, doc).new
           \/ \E p \in CompareHistory(documents, doc).worsened : p.after = f
<1> DEFINE last == documents[Len(documents)]
           result == Compare(last, doc)
           beforeOnly == Without(last, doc)
           afterOnly == Without(doc, last)
           pairs == {p \in [before : CorrelationMap(beforeOnly), after : CorrelationMap(afterOnly)] :
                        Key(p.before) = Key(p.after)}
           lost == {p \in pairs : p.after.severity = "unavailable" /\ UnknownEntry(p.before, doc)}
<1>1. /\ Len(documents) \in Nat /\ Len(documents) > 0 /\ last \in SUBSET Findings
      /\ f \in Findings /\ f.code \in Codes
  BY IssuesHaveACode
\* What the last document has of f's code and resource was unavailable.
<1>2. ASSUME NEW g \in last, Key(g) = Key(f)
      PROVE  g.severity = "unavailable"
  <2>1. g.code = f.code
    BY <1>2 DEF Key
  <2>2. \A j \in (Len(documents) + 1)..Len(documents) : EvaluationUnavailable(documents[j], g)
    BY <1>1
  <2> QED
    BY <1>1, <1>2, <2>1, <2>2 DEF Covered
<1>3. f \in afterOnly
  <2>1. \A g \in last : ID(g) = ID(f) => Key(g) = Key(f) /\ g.severity = "issue"
    BY DEF ID, Key
  <2> QED
    BY <1>2, <2>1 DEF Without
<1>4. CASE \E p \in pairs : p.after = f
  <2>1. PICK p \in pairs : p.after = f
    BY <1>4
  <2>2. p.before \in last /\ Key(p.before) = Key(f)
    BY <2>1 DEF CorrelationMap, Without
  <2>3. p.before.severity = "unavailable"
    BY <1>2, <2>2
  <2>4. Weight(p.after) > Weight(p.before)
    BY <2>1, <2>3 DEF Weight, SeverityWeight
  <2>5. p \in pairs \ lost
    BY <2>1
  <2>6. p \in result.worsened
    BY <2>4, <2>5 DEF Compare
  <2>7. p \in CompareHistory(documents, doc).worsened
    BY <2>6 DEF CompareHistory
  <2> QED
    BY <2>1, <2>7
<1>5. CASE ~\E p \in pairs : p.after = f
  <2>1. f \in result.new
    BY <1>3, <1>5 DEF Compare
  <2>2. LastKnownFinding(documents, f) = {}
    <3>1. SUFFICES ASSUME NEW i \in 1..(Len(documents) - 1), UnknownSince(documents, f, i),
                          NEW g \in Correlated(documents[i], f)
                   PROVE  FALSE
      BY DEF LastKnownFinding
    <3>2. /\ g \in documents[i] /\ g \in Findings /\ Key(g) = Key(f) /\ g.code = f.code
          /\ g.severity # "unavailable"
      BY <1>1, <3>1 DEF Correlated, CorrelationMap, Key
    <3>3. \A j \in (i + 1)..Len(documents) : EvaluationUnavailable(documents[j], g)
      BY <1>1, <3>1, <3>2, SameCodeSameBlockers DEF UnknownSince
    <3> QED
      BY <1>1, <3>2, <3>3 DEF Covered
  <2>3. f \in CompareHistory(documents, doc).new
    BY <2>1, <2>2 DEF CompareHistory
  <2> QED
    BY <2>3
<1> QED
  BY <1>4, <1>5

-----------------------------------------------------------------------------
(* The documents the program keeps tell what is known. *)

\* The record of a round comes first when there is a database, and watchRuns
\* follows at its end.
KeptIsKnown ==
    /\ cfg.db => Told(Contents(db), known)
    /\ (pc \in {"diagnose", "prepare", "append", "sleep"}
        \/ (~cfg.db /\ pc \in {"save", "output", "notify", "record"})) => Told(watchRuns, known)
    /\ (cfg.db /\ pc \in {"save", "output", "notify", "record"}) =>
            Told(Append(watchRuns, document), known)
    /\ pc = "append" => cfg.db
    /\ ~Running => watchRuns = <<>>

LEMMA NothingIsTold == \A facts : Told(<<>>, facts)
  BY DEF Told, Covered, Traced

LEMMA InitKnown == Init => KeptIsKnown
<1> SUFFICES ASSUME Init PROVE KeptIsKnown
  OBVIOUS
<1>1. db = <<>> /\ watchRuns = <<>> /\ pc = "off"
  BY DEF Init
<1>2. Contents(db) = <<>>
  BY <1>1 DEF Contents
<1> QED
  BY <1>1, <1>2, NothingIsTold DEF KeptIsKnown, Running

\* Retention deletes the oldest records, so what is left tells no less.
LEMMA PrunedIsTold ==
    ASSUME NEW records \in Seq(Records(Retain)), NEW facts, Told(Contents(records), facts),
           Prune(records) \in Seq(Records(Retain - 1))
    PROVE  Told(Contents(Prune(records)), facts)
<1>1. CASE records # <<>> /\ records[1].newer >= Retain
  <2>1. /\ Prune(records) = Tail(records) /\ Tail(records) \in Seq(Records(Retain))
        /\ Len(records) = Len(Tail(records)) + 1 /\ Len(Tail(records)) \in Nat
        /\ \A i \in 1..Len(Tail(records)) : Tail(records)[i] = records[i + 1]
    BY <1>1 DEF Prune
  <2> DEFINE whole == Contents(records)
             rest == Contents(Tail(records))
  <2>2. /\ whole \in Seq(SUBSET Findings) /\ Len(whole) = Len(records)
        /\ \A i \in 1..Len(records) : whole[i] = records[i].doc
    BY ContentsAreDocuments
  <2>3. /\ rest \in Seq(SUBSET Findings) /\ Len(rest) = Len(Tail(records))
        /\ \A i \in 1..Len(Tail(records)) : rest[i] = Tail(records)[i].doc
    BY <2>1, ContentsAreDocuments
  <2> HIDE DEF whole, rest
  <2>4. Len(whole) = Len(rest) + 1 /\ \A i \in 1..Len(rest) : rest[i] = whole[i + 1]
    BY <2>1, <2>2, <2>3
  <2>5. Told(rest, facts)
    BY <2>2, <2>3, <2>4, ToldSuffix DEF whole
  <2> QED
    BY <2>1, <2>5 DEF rest
<1>2. CASE ~(records # <<>> /\ records[1].newer >= Retain)
  BY <1>2 DEF Prune
<1> QED
  BY <1>1, <1>2

\* Aging changes no content.
LEMMA AgedContents ==
    ASSUME NEW records \in Seq(Records(Retain - 1)), InOrder(records)
    PROVE  Contents(Aged(records)) = Contents(records)
  BY DEF Contents, Aged

LEMMA AppendedContents ==
    ASSUME NEW records \in Seq(Records(Retain - 1)), InOrder(records),
           NEW content \in SUBSET Findings
    PROVE  Contents(Append(Aged(records), [newer |-> 0, doc |-> content]))
               = Append(Contents(records), content)
<1> DEFINE appended == Append(Aged(records), [newer |-> 0, doc |-> content])
<1>1. appended \in Seq(Records(Retain)) /\ Len(appended) = Len(records) + 1
      /\ Len(records) \in Nat /\ appended[Len(records) + 1].doc = content
  BY AppendedRecords
<1>2. /\ Aged(records) \in Seq(Records(Retain)) /\ Len(Aged(records)) = Len(records)
      /\ \A i \in 1..Len(records) : Aged(records)[i].doc = records[i].doc
  BY AgedRecords
<1>3. \A i \in 1..Len(records) : appended[i].doc = records[i].doc
  BY <1>2
<1> HIDE DEF appended
<1>4. /\ Contents(appended) \in Seq(SUBSET Findings) /\ Len(Contents(appended)) = Len(appended)
      /\ \A i \in 1..Len(appended) : Contents(appended)[i] = appended[i].doc
  BY <1>1, ContentsAreDocuments
<1>5. /\ Contents(records) \in Seq(SUBSET Findings) /\ Len(Contents(records)) = Len(records)
      /\ \A i \in 1..Len(records) : Contents(records)[i] = records[i].doc
  BY ContentsAreDocuments
<1>6. /\ Append(Contents(records), content) \in Seq(SUBSET Findings)
      /\ Len(Append(Contents(records), content)) = Len(records) + 1
      /\ Append(Contents(records), content)[Len(records) + 1] = content
      /\ \A i \in 1..Len(records) : Append(Contents(records), content)[i] = Contents(records)[i]
  BY <1>1, <1>5
<1>7. \A i \in 1..(Len(records) + 1) :
          Contents(appended)[i] = Append(Contents(records), content)[i]
  BY <1>1, <1>3, <1>4, <1>5, <1>6
<1>8. Contents(appended) = Append(Contents(records), content)
  BY <1>1, <1>4, <1>6, <1>7, SeqEqual
<1> QED
  BY <1>8 DEF appended

LEMMA AppendHistoryKeepsKnown ==
    ASSUME CodesAreTheRules, TypeInv, KeptIsKnown, AppendHistory
    PROVE  KeptIsKnown'
<1>1. /\ pc = "append" /\ pc' = "save" /\ cfg.db /\ known' = Learn(known, document)
      /\ UNCHANGED <<cfg, document, watchRuns>>
  BY DEF AppendHistory, KeptIsKnown, round
<1>2. /\ db \in Seq(Records(Retain - 1)) /\ InOrder(db) /\ document \in SUBSET Findings
      /\ known \in SUBSET Findings /\ watchRuns \in Seq(SUBSET Findings)
  BY DEF TypeInv, TypeOK, RunnerTypes
<1>3. Told(Append(watchRuns, document), known')
  BY <1>1, <1>2, ToldWithANewDocument DEF KeptIsKnown
<1>4. /\ Contents(db) \in Seq(SUBSET Findings) /\ Len(Contents(db)) = Len(db)
      /\ \A i \in 1..Len(db) : Contents(db)[i] = db[i].doc
  BY <1>2, ContentsAreDocuments
<1>5. Told(Contents(db'), known')
  <2>1. CASE Unchanged(document)
    <3>1. db' = db /\ Contents(db) # <<>> /\ Contents(db)[Len(Contents(db))] = document
      BY <1>2, <1>4, <2>1 DEF AppendHistory, Unchanged
    <3> QED
      BY <1>1, <1>2, <1>4, <3>1, ToldWithTheSameDocument DEF KeptIsKnown
  <2>2. CASE ~Unchanged(document)
    <3> DEFINE appended == Append(Aged(db), [newer |-> 0, doc |-> document])
    <3>1. Contents(appended) = Append(Contents(db), document)
      BY <1>2, AppendedContents
    <3>2. Told(Contents(appended), known')
      BY <1>1, <1>2, <1>4, <3>1, ToldWithANewDocument DEF KeptIsKnown
    <3>3. appended \in Seq(Records(Retain)) /\ InOrder(appended)
      BY <1>2, AppendedRecords
    <3> HIDE DEF appended
    <3>4. Prune(appended) \in Seq(Records(Retain - 1))
      BY <3>3, PrunedRecords
    <3>5. db' = Prune(appended)
      BY <2>2 DEF AppendHistory, appended
    <3> QED
      BY <3>2, <3>3, <3>4, <3>5, PrunedIsTold
  <2> QED
    BY <2>1, <2>2
<1>6. Running'
  BY <1>1 DEF Running
<1> QED
  BY <1>1, <1>3, <1>5, <1>6 DEF KeptIsKnown

LEMMA OthersKeepKnown ==
    ASSUME TypeInv, KeptIsKnown, OtherTargetAppends
    PROVE  KeptIsKnown'
<1>1. db' = Prune(Aged(db)) /\ UNCHANGED <<cfg, pc, document, watchRuns, known>>
  BY DEF OtherTargetAppends, round, history
<1>2. db \in Seq(Records(Retain - 1)) /\ InOrder(db)
  BY DEF TypeInv, RunnerTypes
<1>3. Aged(db) \in Seq(Records(Retain)) /\ InOrder(Aged(db)) /\ Contents(Aged(db)) = Contents(db)
  BY <1>2, AgedRecords, AgedContents
<1>4. db' \in Seq(Records(Retain - 1))
  BY <1>1, <1>3, PrunedRecords
<1>5. cfg.db => Told(Contents(db'), known)
  BY <1>1, <1>3, <1>4, PrunedIsTold DEF KeptIsKnown
<1> QED
  BY <1>1, <1>5 DEF KeptIsKnown, Running

LEMMA RecordKeepsKnown ==
    ASSUME CodesAreTheRules, TypeInv, KeptIsKnown, Record
    PROVE  KeptIsKnown'
<1>1. /\ pc = "record" /\ pc' \in {"sleep", "returned"} /\ UNCHANGED <<cfg, db>>
      /\ known' = IF cfg.db THEN known ELSE Learn(known, document)
      /\ watchRuns' = Newest(Append(watchRuns, document), HistoryLimit)
  BY DEF Record, Finish, store
<1>2. /\ watchRuns \in Seq(SUBSET Findings) /\ document \in SUBSET Findings
      /\ known \in SUBSET Findings /\ Append(watchRuns, document) \in Seq(SUBSET Findings)
  BY DEF TypeInv, TypeOK, RunnerTypes
<1>3. Told(Append(watchRuns, document), known')
  <2>1. CASE cfg.db
    BY <1>1, <2>1 DEF KeptIsKnown
  <2>2. CASE ~cfg.db
    BY <1>1, <1>2, <2>2, ToldWithANewDocument DEF KeptIsKnown
  <2> QED
    BY <2>1, <2>2
<1>4. Told(watchRuns', known')
  BY <1>1, <1>2, <1>3, ToldNewest, LimitIsPositive
<1>5. Running'
  BY <1>1 DEF Running
<1> QED
  BY <1>1, <1>4, <1>5 DEF KeptIsKnown

LEMMA NextKeepsKnown ==
    ASSUME CodesAreTheRules, TypeInv, KeptIsKnown, [Next]_vars
    PROVE  KeptIsKnown'
<1> USE DEF store, round, history, bounds, Finish, Fail
<1>1. ASSUME UNCHANGED <<cfg, db, watchRuns, known>>, pc' = "returned"
      PROVE  KeptIsKnown'
  BY <1>1 DEF KeptIsKnown, Running
<1>2. ASSUME UNCHANGED <<cfg, db, watchRuns, known, document, pc>>
      PROVE  KeptIsKnown'
  BY <1>2 DEF KeptIsKnown, Running
<1>3. CASE UNCHANGED vars \/ Interrupt
  BY <1>2, <1>3 DEF vars, Interrupt
<1>4. CASE DiagnoseInterrupted \/ DiagnoseFails \/ LoadFails \/ AppendFails \/ SleepInterrupted
  BY <1>1, <1>4
  DEF DiagnoseInterrupted, DiagnoseFails, LoadFails, AppendFails, SleepInterrupted
<1>5. CASE SaveSnapshot \/ WriteReport \/ Send \/ NotifyNothing
  <2>1. /\ UNCHANGED <<cfg, db, watchRuns, known, document>>
        /\ pc \in {"save", "output", "notify"} /\ pc' \in {"output", "notify", "record", "returned"}
    BY <1>5 DEF SaveSnapshot, WriteReport, Send, NotifyNothing
  <2> QED
    BY <2>1 DEF KeptIsKnown, Running
<1>6. CASE Diagnose \/ Wake
  <2>1. /\ UNCHANGED <<cfg, db, watchRuns, known>>
        /\ pc \in {"diagnose", "sleep"} /\ pc' \in {"diagnose", "prepare"}
    BY <1>6 DEF Diagnose, Wake
  <2> QED
    BY <2>1 DEF KeptIsKnown, Running
<1>7. CASE Prepare
  <2>1. /\ UNCHANGED <<cfg, db, watchRuns, known>>
        /\ pc = "prepare" /\ pc' = IF cfg.db THEN "append" ELSE "save"
    BY <1>7 DEF Prepare
  <2> QED
    BY <2>1 DEF KeptIsKnown, Running
<1>8. CASE Exit \/ Kill
  <2>1. UNCHANGED <<cfg, db, known>> /\ pc' \in {"exited", "killed"} /\ watchRuns' = <<>>
    BY <1>8 DEF Exit, Kill, LoseMemory
  <2> QED
    BY <2>1 DEF KeptIsKnown
<1>9. CASE Start
  <2>1. /\ UNCHANGED <<cfg, db>> /\ watchRuns' = <<>> /\ pc' = "diagnose"
        /\ known' = IF cfg.db THEN known ELSE {}
    BY <1>9 DEF Start, KeptIsKnown, Running
  <2> QED
    BY <2>1, NothingIsTold DEF KeptIsKnown, Running
<1> QED
  BY <1>3, <1>4, <1>5, <1>6, <1>7, <1>8, <1>9, AppendHistoryKeepsKnown, OthersKeepKnown,
     RecordKeepsKnown
  DEF Next, Process

-----------------------------------------------------------------------------
(* From the comparison to the webhook. *)

Announced == cfg.webhook /\ ~cfg.diff /\ difference # None

NewIssues ==
    {f \in document : f.severity = "issue" /\ ~f.ack /\ \A g \in basis : Key(g) # Key(f)}

\* From the comparison on, every new issue is in the payload, and the payload
\* is what is sent.
PayloadHasTheNews ==
    /\ (pc \in {"append", "save", "output", "notify", "record"} /\ Announced) =>
            NewIssues \subseteq payload
    /\ pc = "record" => payload = {} \/ sent = payload

LEMMA PreparePutsTheNewsInThePayload ==
    ASSUME CodesAreTheRules, TypeInv, KeptIsKnown, Prepare
    PROVE  PayloadHasTheNews'
<1>1. /\ pc = "prepare" /\ pc' \in {"append", "save"} /\ UNCHANGED cfg /\ basis' = known
      /\ difference' = Difference(document')
      /\ payload' = IF cfg.webhook /\ difference' # None THEN BuildPayload(difference') ELSE {}
  BY DEF Prepare
<1>2. document' \in SUBSET Findings
  BY PrepareKeepsTypes DEF TypeInv, TypeOK
<1>3. /\ known \in SUBSET Findings /\ watchRuns \in Seq(SUBSET Findings)
      /\ HistoryRecords \in Seq(SUBSET Findings)
  BY HistoryIsMadeOfDocuments DEF TypeInv, TypeOK, RunnerTypes
<1>4. SUFFICES ASSUME Announced', NEW f \in NewIssues'
               PROVE  f \in payload'
  BY <1>1 DEF PayloadHasTheNews
<1>5. /\ cfg.webhook /\ ~cfg.diff /\ difference' # None
      /\ f \in document' /\ f.severity = "issue" /\ ~f.ack
      /\ \A k \in known : Key(k) # Key(f)
  BY <1>1, <1>4 DEF Announced, NewIssues
<1>6. ASSUME NEW documents \in Seq(SUBSET Findings), documents # <<>>, Covered(documents, known),
             difference' = CompareHistory(documents, document')
      PROVE  \/ f \in difference'.new
             \/ \E p \in difference'.worsened : p.after = f
  <2> DEFINE doc == document'
             facts == known
  <2>1. /\ doc \in SUBSET Findings /\ f \in doc /\ f.severity = "issue"
        /\ facts \in SUBSET Findings /\ Covered(documents, facts)
        /\ \A k \in facts : Key(k) # Key(f)
        /\ difference' = CompareHistory(documents, doc)
    BY <1>2, <1>3, <1>5, <1>6
  <2> HIDE DEF doc, facts
  <2>2. \/ f \in CompareHistory(documents, doc).new
        \/ \E p \in CompareHistory(documents, doc).worsened : p.after = f
    BY <1>6, <2>1, NothingKnownIsCompared
  <2> QED
    BY <2>1, <2>2
<1>7. \/ f \in difference'.new
      \/ \E p \in difference'.worsened : p.after = f
  <2>1. CASE cfg.db /\ HistoryRecords # <<>>
    <3>1. Contents(db) \in Seq(SUBSET Findings) /\ Told(Contents(db), known)
      BY <2>1, ContentsAreDocuments DEF TypeInv, RunnerTypes, KeptIsKnown
    <3>2. Covered(HistoryRecords, known)
      BY <3>1, ToldNewest, LimitIsPositive DEF HistoryRecords, Told
    <3>3. difference' = CompareHistory(HistoryRecords, document')
      BY <1>1, <1>5, <2>1 DEF Difference
    <3> QED
      BY <1>3, <1>6, <2>1, <3>2, <3>3
  <2>2. CASE ~(cfg.db /\ HistoryRecords # <<>>) /\ watchRuns # <<>>
    <3>1. Covered(watchRuns, known)
      BY <1>1 DEF KeptIsKnown, Told
    <3>2. difference' = CompareHistory(watchRuns, document')
      BY <1>1, <1>5, <2>2 DEF Difference
    <3> QED
      BY <1>3, <1>6, <2>2, <3>1, <3>2
  <2>3. CASE ~(cfg.db /\ HistoryRecords # <<>>) /\ ~(watchRuns # <<>>)
    BY <1>1, <1>5, <2>3 DEF Difference
  <2> QED
    BY <2>1, <2>2, <2>3
<1>8. f \in BuildPayload(difference')
  BY <1>5, <1>7 DEF BuildPayload
<1> QED
  BY <1>1, <1>5, <1>8

LEMMA NextKeepsTheNews ==
    ASSUME CodesAreTheRules, TypeInv, KeptIsKnown, PayloadHasTheNews, [Next]_vars
    PROVE  PayloadHasTheNews'
<1> USE DEF store, round, history, bounds, Finish, Fail
<1>1. ASSUME UNCHANGED <<cfg, difference, document, basis, payload, sent, pc>>
      PROVE  PayloadHasTheNews'
  BY <1>1 DEF PayloadHasTheNews, Announced, NewIssues
<1>2. CASE UNCHANGED vars \/ Interrupt \/ OtherTargetAppends
  BY <1>1, <1>2 DEF vars, Interrupt, OtherTargetAppends
<1>3. ASSUME pc' \in {"prepare", "diagnose", "sleep", "returned", "exited", "killed"}
      PROVE  PayloadHasTheNews'
  BY <1>3 DEF PayloadHasTheNews
<1>4. CASE DiagnoseInterrupted \/ DiagnoseFails \/ LoadFails \/ AppendFails \/ SleepInterrupted
           \/ Diagnose \/ Wake \/ Exit \/ Kill \/ Start \/ Record
  BY <1>3, <1>4
  DEF DiagnoseInterrupted, DiagnoseFails, LoadFails, AppendFails, SleepInterrupted, Diagnose,
      Wake, Exit, Kill, Start, Record
<1>5. CASE Prepare
  BY <1>5, PreparePutsTheNewsInThePayload
<1>6. CASE AppendHistory \/ SaveSnapshot \/ WriteReport
  <2>1. /\ UNCHANGED <<cfg, difference, document, basis, payload, sent>>
        /\ pc \in {"append", "save", "output"} /\ pc' \in {"save", "output", "notify", "returned"}
    BY <1>6 DEF AppendHistory, SaveSnapshot, WriteReport
  <2> QED
    BY <2>1 DEF PayloadHasTheNews, Announced, NewIssues
<1>7. CASE NotifyNothing \/ Send
  <2>1. /\ UNCHANGED <<cfg, difference, document, basis, payload>>
        /\ pc = "notify" /\ pc' \in {"record", "returned"}
        /\ pc' = "record" => payload = {} \/ sent' = payload
    BY <1>7 DEF NotifyNothing, Send
  <2> QED
    BY <2>1 DEF PayloadHasTheNews, Announced, NewIssues
<1> QED
  BY <1>2, <1>4, <1>5, <1>6, <1>7 DEF Next, Process

\* A round with something to compare with announces every unacknowledged issue
\* about which the last evaluations on record had nothing to say.  How many
\* rounds could not look in between, how many records retention left, and how
\* many parts a resource has plays no role.
THEOREM NothingNewIsMissedHolds ==
    ASSUME CodesAreTheRules
    PROVE  Spec => []NothingNewIsMissed
<1> DEFINE Inv == TypeInv /\ KeptIsKnown /\ PayloadHasTheNews
<1>1. Init => Inv
  <2>1. Init => PayloadHasTheNews
    BY DEF Init, PayloadHasTheNews
  <2> QED
    BY <2>1, InitTypes, InitKnown
<1>2. Inv /\ [Next]_vars => Inv'
  BY NextKeepsTypes, NextKeepsKnown, NextKeepsTheNews
<1>3. Inv => NothingNewIsMissed
  BY DEF PayloadHasTheNews, NothingNewIsMissed, Announced, NewIssues
<1> QED
  BY <1>1, <1>2, <1>3, PTL DEF Spec

-----------------------------------------------------------------------------
(* What is true of every document a diagnosis produces is true of all that    *)
(* the program keeps.                                                         *)

KeptIn(S) ==
    /\ document \in S
    /\ \A i \in 1..Len(db) : db[i].doc \in S
    /\ \A i \in 1..Len(watchRuns) : watchRuns[i] \in S
    /\ (Running /\ cfg.diff) => previous \in S

\* The newest documents are among the documents.
LEMMA NewestIn ==
    ASSUME NEW T, NEW documents \in Seq(T), NEW S,
           \A i \in 1..Len(documents) : documents[i] \in S, NEW n \in Nat \ {0}
    PROVE  \A i \in 1..Len(Newest(documents, n)) : Newest(documents, n)[i] \in S
<1>1. CASE Len(documents) > n
  <2>1. /\ Len(Newest(documents, n)) = n /\ Len(documents) \in Nat
        /\ \A i \in 1..n : Newest(documents, n)[i] = documents[Len(documents) - n + i]
    BY <1>1 DEF Newest
  <2>2. \A i \in 1..n : Len(documents) - n + i \in 1..Len(documents)
    BY <1>1, <2>1
  <2> QED
    BY <2>1, <2>2
<1>2. CASE ~(Len(documents) > n)
  BY <1>2 DEF Newest
<1> QED
  BY <1>1, <1>2

\* So are the documents of the records that retention leaves.
LEMMA PrunedIn ==
    ASSUME NEW records \in Seq(Records(Retain)), NEW S,
           \A i \in 1..Len(records) : records[i].doc \in S
    PROVE  \A i \in 1..Len(Prune(records)) : Prune(records)[i].doc \in S
<1>1. CASE records # <<>> /\ records[1].newer >= Retain
  <2>1. /\ Prune(records) = Tail(records) /\ Len(records) \in Nat
        /\ Len(Tail(records)) = Len(records) - 1
        /\ \A i \in 1..Len(Tail(records)) : Tail(records)[i] = records[i + 1]
    BY <1>1 DEF Prune
  <2>2. \A i \in 1..Len(Tail(records)) : i + 1 \in 1..Len(records)
    BY <2>1
  <2> QED
    BY <2>1, <2>2
<1>2. CASE ~(records # <<>> /\ records[1].newer >= Retain)
  BY <1>2 DEF Prune
<1> QED
  BY <1>1, <1>2

LEMMA InitKeepsIn ==
    ASSUME NEW S, {} \in S
    PROVE  Init => KeptIn(S)
  BY DEF Init, KeptIn, Running

LEMMA AppendHistoryKeepsIn ==
    ASSUME NEW S, TypeInv, KeptIn(S), AppendHistory
    PROVE  KeptIn(S)'
<1>1. UNCHANGED <<cfg, document, watchRuns, previous>> /\ pc = "append"
  BY DEF AppendHistory, round
<1>2. db \in Seq(Records(Retain - 1)) /\ InOrder(db) /\ document \in SUBSET Findings
  BY DEF TypeInv, TypeOK, RunnerTypes
<1>3. \A i \in 1..Len(db') : db'[i].doc \in S
  <2>1. CASE Unchanged(document)
    BY <2>1 DEF AppendHistory, KeptIn
  <2>2. CASE ~Unchanged(document)
    <3> DEFINE aged == Aged(db)
               appended == Append(aged, [newer |-> 0, doc |-> document])
    <3>1. /\ aged \in Seq(Records(Retain)) /\ Len(aged) = Len(db) /\ Len(db) \in Nat
          /\ \A i \in 1..Len(db) : aged[i].doc = db[i].doc
      BY <1>2, AgedRecords
    <3>2. appended \in Seq(Records(Retain)) /\ Len(appended) = Len(db) + 1
      BY <1>2, AppendedRecords
    <3>3. db' = Prune(appended)
      BY <2>2 DEF AppendHistory
    <3> HIDE DEF aged
    <3>4. appended[Len(db) + 1].doc = document /\ \A i \in 1..Len(db) : appended[i] = aged[i]
      BY <3>1
    <3> HIDE DEF appended
    <3>5. \A i \in 1..Len(appended) : appended[i].doc \in S
      BY <3>1, <3>2, <3>4 DEF KeptIn
    <3> QED
      BY <3>2, <3>3, <3>5, PrunedIn
  <2> QED
    BY <2>1, <2>2
<1> QED
  BY <1>1, <1>3 DEF KeptIn, Running

LEMMA NextKeepsIn ==
    ASSUME NEW S, {} \in S,
           \A acks \in SUBSET Codes : Diagnoses(acks, FoundSeverities) \subseteq S,
           document \in S => document \union Trends \in S,
           TypeInv, KeptIn(S), [Next]_vars
    PROVE  KeptIn(S)'
<1> USE DEF store, round, history, bounds
<1>1. CASE UNCHANGED vars \/ DiagnoseInterrupted \/ DiagnoseFails \/ LoadFails \/ AppendFails
           \/ SaveSnapshot \/ WriteReport \/ NotifyNothing \/ Send \/ SleepInterrupted \/ Wake
           \/ Interrupt
  <2>1. UNCHANGED <<cfg, document, db, watchRuns, previous>> /\ (Running' => Running)
    BY <1>1
    DEF vars, DiagnoseInterrupted, DiagnoseFails, LoadFails, AppendFails, SaveSnapshot,
        WriteReport, NotifyNothing, Send, SleepInterrupted, Wake, Interrupt, Running
  <2> QED
    BY <2>1 DEF KeptIn
<1>2. CASE Diagnose
  <2>1. acknowledged' \in SUBSET Codes
    BY <1>2 DEF Diagnose, TypeInv, TypeOK
  <2>2. document' \in S /\ UNCHANGED <<cfg, db, watchRuns, previous>> /\ (Running' => Running)
    BY <1>2, <2>1 DEF Diagnose, Running
  <2> QED
    BY <2>2 DEF KeptIn
<1>3. CASE Prepare
  <2>1. /\ document' = document \union Trends
        /\ UNCHANGED <<cfg, db, watchRuns, previous>> /\ (Running' => Running)
    BY <1>3 DEF Prepare, Running
  <2> QED
    BY <2>1 DEF KeptIn
<1>4. CASE Record
  <2>1. /\ watchRuns' = Newest(Append(watchRuns, document), HistoryLimit)
        /\ UNCHANGED <<cfg, document, db, previous>> /\ (Running' => Running)
    BY <1>4 DEF Record, Running
  <2> DEFINE more == Append(watchRuns, document)
  <2>2. /\ watchRuns \in Seq(SUBSET Findings) /\ document \in SUBSET Findings
        /\ more \in Seq(SUBSET Findings) /\ Len(more) \in Nat
    BY DEF TypeInv, TypeOK, RunnerTypes
  <2>3. \A i \in 1..Len(more) : more[i] \in S
    BY <2>2 DEF KeptIn
  <2> HIDE DEF more
  <2>4. \A i \in 1..Len(Newest(more, HistoryLimit)) : Newest(more, HistoryLimit)[i] \in S
    BY <2>2, <2>3, NewestIn, LimitIsPositive
  <2> QED
    BY <2>1, <2>4 DEF KeptIn, more
<1>5. CASE Start
  <2>1. /\ document' = {} /\ UNCHANGED <<cfg, db, watchRuns>>
        /\ cfg.diff => previous' \in Diagnoses({}, FoundSeverities)
    BY <1>5 DEF Start, NothingYet, Documents
  <2>2. {} \in SUBSET Codes
    OBVIOUS
  <2>3. cfg.diff => previous' \in S
    BY <2>1, <2>2
  <2> QED
    BY <2>1, <2>3 DEF KeptIn
<1>6. CASE Exit \/ Kill
  <2>1. /\ watchRuns' = <<>> /\ UNCHANGED db /\ ~Running'
        /\ document' = {} \/ UNCHANGED document
    BY <1>6 DEF Exit, Kill, LoseMemory, NothingYet, Running
  <2>2. \A i \in 1..Len(watchRuns') : watchRuns'[i] \in S
    BY <2>1
  <2>3. \A i \in 1..Len(db') : db'[i].doc \in S
    BY <2>1 DEF KeptIn
  <2>4. document' \in S
    BY <2>1 DEF KeptIn
  <2> QED
    BY <2>1, <2>2, <2>3, <2>4 DEF KeptIn
<1>7. CASE OtherTargetAppends
  <2>1. /\ db' = Prune(Aged(db)) /\ UNCHANGED <<cfg, pc, document, watchRuns, previous>>
    BY <1>7 DEF OtherTargetAppends
  <2>2. /\ Aged(db) \in Seq(Records(Retain)) /\ Len(Aged(db)) = Len(db)
        /\ \A i \in 1..Len(db) : Aged(db)[i].doc = db[i].doc
    BY AgedRecords DEF TypeInv, RunnerTypes
  <2>3. \A i \in 1..Len(Aged(db)) : Aged(db)[i].doc \in S
    BY <2>2 DEF KeptIn
  <2>4. \A i \in 1..Len(db') : db'[i].doc \in S
    BY <2>1, <2>2, <2>3, PrunedIn
  <2> QED
    BY <2>1, <2>4 DEF KeptIn, Running
<1> QED
  BY <1>1, <1>2, <1>3, <1>4, <1>5, <1>6, <1>7, AppendHistoryKeepsIn DEF Next, Process

-----------------------------------------------------------------------------
(* The webhook hears nothing again that the compared documents show. *)

\* The walk back over the documents that could not look ends at the finding.
LEMMA TheWalkFindsIt ==
    ASSUME CodesAreTheRules, NEW documents \in Seq(SUBSET Findings),
           NEW k \in 1..(Len(documents) - 1), NEW g \in documents[k], g.severity = "issue",
           ~Misfiles(g.rule), \A h \in documents[k] : Key(h) = Key(g) => h = g,
           \A j \in (k + 1)..Len(documents) :
               Gap(documents[j], g) /\ \A h \in documents[j] : Key(h) # Key(g),
           NEW f \in Findings, ID(f) = ID(g)
    PROVE  LastKnownFinding(documents, f) = {g}
<1>1. /\ Len(documents) \in Nat /\ g \in Findings /\ g.code \in Codes
      /\ Key(f) = Key(g) /\ f.code = g.code /\ f.severity = "issue"
  <2>1. documents[k] \in SUBSET Findings /\ Len(documents) \in Nat
    OBVIOUS
  <2>2. g \in Findings
    BY <2>1
  <2>3. g.code \in Codes
    BY <2>2, IssuesHaveACode
  <2> QED
    BY <2>1, <2>2, <2>3 DEF ID, Key
<1>2. /\ f.rule = RuleOf[f.code] /\ f.rule = g.rule
      /\ f.section = SectionOf[f.code] /\ f.section = MetaSection[f.rule]
  BY <1>1, RuleOfAFinding DEF Misfiles
<1>3. ASSUME NEW j \in (k + 1)..Len(documents)
      PROVE  Correlated(documents[j], f) = {} /\ EvaluationUnavailable(documents[j], f)
  <2>1. Correlated(documents[j], f) = {}
    BY <1>1 DEF Correlated, CorrelationMap
  <2>2. PICK u \in documents[j] : u.severity = "unavailable" /\ u.rule = g.rule
    BY DEF Gap
  <2>3. u \in Findings
    <3>1. documents[j] \in SUBSET Findings
      BY <1>1
    <3> QED
      BY <3>1
  <2>4. u.section = MetaSection[g.rule]
    BY <1>2, <2>2, <2>3, BlockersAreFiled
  <2> QED
    BY <1>2, <2>1, <2>2, <2>4 DEF EvaluationUnavailable, MatchingUnavailable
<1>4. UnknownSince(documents, f, k)
  BY <1>3 DEF UnknownSince
<1>5. Correlated(documents[k], f) = {g}
  BY <1>1 DEF Correlated, CorrelationMap
<1>6. ASSUME NEW i \in 1..(Len(documents) - 1), UnknownSince(documents, f, i), i # k
      PROVE  Correlated(documents[i], f) = {}
  <2>1. CASE i < k
    <3>1. k \in (i + 1)..Len(documents)
      BY <1>1, <2>1
    <3> QED
      BY <1>5, <1>6, <3>1 DEF UnknownSince
  <2>2. CASE i > k
    <3>1. i \in (k + 1)..Len(documents)
      BY <1>1, <2>2
    <3> QED
      BY <1>3, <3>1
  <2> QED
    BY <1>6, <2>1, <2>2
<1> DEFINE ends == {i \in 1..(Len(documents) - 1) : UnknownSince(documents, f, i)}
<1>7. k \in ends /\ \A i \in ends : i # k => Correlated(documents[i], f) = {}
  BY <1>4, <1>6
<1>8. LastKnownFinding(documents, f) = UNION {Correlated(documents[i], f) : i \in ends}
  BY DEF LastKnownFinding
<1> DEFINE of(i) == Correlated(documents[i], f)
<1>9. of(k) = {g} /\ \A i \in ends : i # k => of(i) = {}
  BY <1>5, <1>7
<1>10. LastKnownFinding(documents, f) = UNION {of(i) : i \in ends}
  BY <1>8
<1> HIDE DEF ends, of
<1> QED
  BY <1>7, <1>9, <1>10

LEMMA KnownIsNotAnnounced ==
    ASSUME CodesAreTheRules, NEW documents \in Seq(SUBSET Findings), documents # <<>>,
           NEW facts, Traced(documents, facts), NEW doc \in SUBSET Findings,
           NEW f \in BuildPayload(CompareHistory(documents, doc)),
           NEW g \in Shown(documents, facts), ~Misfiles(g.rule)
    PROVE  ID(f) # ID(g)
<1> DEFINE last == documents[Len(documents)]
           result == Compare(last, doc)
           bridged == {p \in [before : UNION {LastKnownFinding(documents, x) : x \in result.new},
                              after : {x \in result.new : x.severity # "unavailable"}] :
                         p.before \in LastKnownFinding(documents, p.after)}
<1>1. SUFFICES ASSUME ID(f) = ID(g) PROVE FALSE
  OBVIOUS
<1>2. /\ f.severity = "issue" /\ f \in doc /\ f \in Findings
      /\ \/ f \in result.new /\ f \notin {p.after : p \in bridged}
         \/ \E p \in result.worsened : p.after = f
         \/ \E p \in bridged : p.after = f /\ Weight(p.after) > Weight(p.before)
  <2>1. \/ f \in CompareHistory(documents, doc).new
        \/ \E p \in CompareHistory(documents, doc).worsened : p.after = f
    BY DEF BuildPayload
  <2>2. f.severity = "issue"
    BY DEF BuildPayload
  <2>3. f \in doc
    BY <2>1, CompareHistoryIsOfTheLaterDocument
  <2>4. /\ CompareHistory(documents, doc).new = result.new \ {p.after : p \in bridged}
        /\ CompareHistory(documents, doc).worsened =
               result.worsened \union {p \in bridged : Weight(p.after) > Weight(p.before)}
    BY DEF CompareHistory
  <2> HIDE DEF result, bridged
  <2> QED
    BY <2>1, <2>2, <2>3, <2>4
<1>3. g.severity = "issue" /\ Key(g) = Key(f)
  BY <1>1, <1>2 DEF ID, Key
<1>4. /\ result.new \subseteq Without(doc, last)
      /\ \A p \in result.worsened : /\ p.after \in Without(doc, last)
                                    /\ p.before \in last /\ Key(p.before) = Key(p.after)
  BY DEF Compare, CorrelationMap, Without
<1>5. \A p \in bridged : p.after \in result.new /\ p.before \in LastKnownFinding(documents, p.after)
  OBVIOUS
<1> HIDE DEF result
<1>6. PICK k \in 1..Len(documents) :
          /\ g \in documents[k]
          /\ \A j \in (k + 1)..Len(documents) : Gap(documents[j], g)
          /\ \A j \in k..Len(documents) : \A h \in documents[j] : Key(h) = Key(g) => h = g
  <2>1. g \in facts /\ DOMAIN documents = 1..Len(documents) /\ Len(documents) \in Nat
    BY DEF Shown
  <2>2. PICK n \in 1..Len(documents) :
            /\ g \in documents[n]
            /\ \A j \in n..Len(documents) : \A h \in documents[j] : Key(h) = Key(g) => h = g
    BY <2>1 DEF Shown
  <2>3. PICK k \in 1..Len(documents) :
            /\ g \in documents[k]
            /\ \A j \in (k + 1)..Len(documents) : Gap(documents[j], g)
    BY <1>3, <2>1, <2>2 DEF Traced
  <2>4. ~(n \in (k + 1)..Len(documents))
    BY <1>3, <2>2, <2>3 DEF Gap
  <2>5. \A j \in k..Len(documents) : j \in n..Len(documents)
    BY <2>1, <2>4
  <2> QED
    BY <2>2, <2>3, <2>5
<1>7. Len(documents) \in Nat /\ documents[k] \in SUBSET Findings /\ g \in Findings
  BY <1>6
\* An issue of the last document is not new, and nothing of it worsened.
<1>8. CASE k = Len(documents)
  <2>1. g \in last
    BY <1>6, <1>8
  <2>2. f \notin Without(doc, last)
    BY <1>1, <2>1 DEF Without
  <2> QED
    BY <1>2, <1>4, <1>5, <2>2
\* An issue from before the gap is bridged, and reconfirmed.
<1>9. CASE k # Len(documents)
  <2>1. k \in 1..(Len(documents) - 1)
    BY <1>7, <1>9
  <2>2. ASSUME NEW j \in (k + 1)..Len(documents)
        PROVE  \A h \in documents[j] : Key(h) # Key(g)
    <3>1. Gap(documents[j], g) /\ \A h \in documents[j] : Key(h) = Key(g) => h = g
      BY <1>6, <1>7
    <3> QED
      BY <1>3, <3>1 DEF Gap
  <2>3. LastKnownFinding(documents, f) = {g} /\ \A h \in last : Key(h) # Key(f)
    <3>1. \A h \in documents[k] : Key(h) = Key(g) => h = g
      BY <1>6, <1>7
    <3>2. Len(documents) \in (k + 1)..Len(documents)
      BY <1>7, <2>1
    <3>3. LastKnownFinding(documents, f) = {g}
      BY <1>1, <1>2, <1>3, <1>6, <2>1, <2>2, <3>1, TheWalkFindsIt
    <3> QED
      BY <1>3, <2>2, <3>2, <3>3
  <2>4. ~\E p \in result.worsened : p.after = f
    BY <1>4, <2>3
  <2>5. ~\E p \in bridged : p.after = f /\ Weight(p.after) > Weight(p.before)
    <3>1. Weight(f) = 4 /\ Weight(g) = 4
      BY <1>2, <1>3 DEF Weight, SeverityWeight
    <3> QED
      BY <1>5, <2>3, <3>1
  <2>6. f \in result.new => [before |-> g, after |-> f] \in bridged
    BY <1>2, <2>3
  <2>7. f \in result.new => f \in {p.after : p \in bridged}
    <3>1. [before |-> g, after |-> f].after = f
      OBVIOUS
    <3> QED
      BY <2>6, <3>1
  <2> QED
    BY <1>2, <2>4, <2>5, <2>7
<1> QED
  BY <1>8, <1>9

-----------------------------------------------------------------------------
(* From the record to the webhook. *)

\* From the comparison on, what is announced or sent is not what was remembered.
PayloadIsNew ==
    ~cfg.diff => \A f \in payload \union sent, g \in remembered : ID(f) # ID(g)

LEMMA PreparePutsNothingKnownInThePayload ==
    ASSUME CodesAreTheRules, TypeInv, NothingIsSent, KeptIsKnown, Prepare
    PROVE  PayloadIsNew'
<1> DEFINE documents == ComparedDocuments
           doc == document'
<1>1. /\ pc = "prepare" /\ UNCHANGED <<cfg, sent>> /\ sent = {}
      /\ remembered' = {g \in Shown(documents, known) : ~Misfiles(g.rule)}
      /\ payload' = IF cfg.webhook /\ Difference(doc) # None
                    THEN BuildPayload(Difference(doc)) ELSE {}
  BY DEF Prepare, NothingIsSent
<1>2. /\ doc \in SUBSET Findings /\ watchRuns \in Seq(SUBSET Findings)
      /\ db \in Seq(Records(Retain - 1)) /\ Contents(db) \in Seq(SUBSET Findings)
  BY PrepareKeepsTypes, ContentsAreDocuments DEF TypeInv, TypeOK, RunnerTypes
<1>3. documents \in Seq(SUBSET Findings) /\ Traced(documents, known)
  <2>1. CASE cfg.db /\ HistoryRecords # <<>>
    <3>1. Told(Contents(db), known)
      BY <2>1 DEF KeptIsKnown
    <3>2. Told(HistoryRecords, known) /\ HistoryRecords \in Seq(SUBSET Findings)
      BY <1>2, <3>1, ToldNewest, NewestAreElements, LimitIsPositive DEF HistoryRecords
    <3> QED
      BY <2>1, <3>2 DEF ComparedDocuments, Told
  <2>2. CASE ~(cfg.db /\ HistoryRecords # <<>>)
    BY <1>1, <1>2, <2>2 DEF ComparedDocuments, KeptIsKnown, Told
  <2> QED
    BY <2>1, <2>2
<1>4. ASSUME ~cfg.diff, Difference(doc) # None
      PROVE  documents # <<>> /\ Difference(doc) = CompareHistory(documents, doc)
  BY <1>4 DEF Difference, ComparedDocuments
<1> HIDE DEF documents, doc
<1>5. ASSUME ~cfg.diff, Difference(doc) # None, NEW f \in BuildPayload(Difference(doc)),
             NEW g \in Shown(documents, known), ~Misfiles(g.rule)
      PROVE  ID(f) # ID(g)
  <2> DEFINE facts == known
  <2>1. g \in Shown(documents, facts) /\ Traced(documents, facts)
    BY <1>3, <1>5
  <2> HIDE DEF facts
  <2> QED
    BY <1>2, <1>3, <1>4, <1>5, <2>1, KnownIsNotAnnounced
<1> QED
  BY <1>1, <1>5 DEF PayloadIsNew

LEMMA NextAnnouncesNothingKnown ==
    ASSUME CodesAreTheRules, TypeInv, NothingIsSent, KeptIsKnown, PayloadIsNew, [Next]_vars
    PROVE  PayloadIsNew'
<1> USE DEF store, round, history, bounds, Finish, Fail
<1>1. CASE UNCHANGED vars \/ DiagnoseInterrupted \/ DiagnoseFails \/ LoadFails \/ AppendHistory
           \/ AppendFails \/ SaveSnapshot \/ WriteReport \/ NotifyNothing \/ Record
           \/ SleepInterrupted \/ Wake \/ Interrupt \/ OtherTargetAppends \/ Start
  <2>1. UNCHANGED <<cfg, payload, sent, remembered>>
    BY <1>1
    DEF vars, DiagnoseInterrupted, DiagnoseFails, LoadFails, AppendHistory, AppendFails,
        SaveSnapshot, WriteReport, NotifyNothing, Record, SleepInterrupted, Wake, Interrupt,
        OtherTargetAppends, Start
  <2> QED
    BY <2>1 DEF PayloadIsNew
<1>2. CASE Send
  <2>1. UNCHANGED <<cfg, payload, remembered>> /\ sent' \in {{}, payload}
    BY <1>2 DEF Send
  <2> QED
    BY <2>1 DEF PayloadIsNew
<1>3. CASE Diagnose \/ Exit \/ Kill
  <2>1. payload' = {} /\ sent' = {}
    BY <1>3 DEF Diagnose, Exit, Kill, LoseMemory
  <2> QED
    BY <2>1 DEF PayloadIsNew
<1> QED
  BY <1>1, <1>2, <1>3, PreparePutsNothingKnownInThePayload DEF Next, Process

\* An issue that the evaluations on record had and a compared document shows is
\* not announced as new or worse, whatever could not look in between: for any
\* window and retention, and any gaps, failures, kills and other targets.
THEOREM NotAnnouncedAgainHolds ==
    ASSUME CodesAreTheRules
    PROVE  Spec => []NotAnnouncedAgain
<1> DEFINE Inv == TypeInv /\ EvidenceInv /\ KeptIsKnown /\ PayloadIsNew
<1>1. Init => Inv
  <2>1. Init => PayloadIsNew
    BY DEF Init, PayloadIsNew
  <2> QED
    BY <2>1, InitTypes, InitEvidence, InitKnown
<1>2. Inv /\ [Next]_vars => Inv'
  <2>1. EvidenceInv => NothingIsSent
    BY DEF EvidenceInv
  <2> QED
    BY <2>1, NextKeepsTypes, NextKeepsEvidence, NextKeepsKnown, NextAnnouncesNothingKnown
<1>3. Inv => NotAnnouncedAgain
  BY DEF PayloadIsNew, NotAnnouncedAgain
<1> QED
  BY <1>1, <1>2, <1>3, PTL DEF Spec

-----------------------------------------------------------------------------
(* Every finding is counted once. *)

\* No two findings of a document share a fingerprint.
Distinct(doc) == \A g, h \in doc : ID(g) = ID(h) => g = h

DistinctOnes == {doc \in SUBSET Findings : Distinct(doc)}

LEMMA DiagnosesAreDistinct ==
    ASSUME CodesAreTheRules, NEW acks, NEW doc \in Diagnoses(acks, FoundSeverities)
    PROVE  Distinct(doc)
<1>1. PICK status \in [Rules -> {"all", "part", "none"}],
           state \in [Subjects -> FoundSeverities \union {"absent"}] :
               doc = DocumentOf(acks, status, state)
  BY DEF Diagnoses
<1> DEFINE Found(x) == Subject(x[1], x[2], x[3], state[x], x[1] \in acks)
<1>2. \A g \in doc :
          \/ \E x \in Subjects : g = Found(x)
          \/ \E r \in Rules, c \in {"RULE_UNAVAILABLE", "PARTIAL_UNAVAILABLE"} : g = Blocker(r, c)
  BY <1>1 DEF DocumentOf
<1>3. \A x \in Subjects : /\ x = <<x[1], x[2], x[3]>> /\ Found(x).code \in Codes
                          /\ Found(x).code = x[1] /\ Found(x).resource = x[2] /\ Found(x).part = x[3]
  BY DEF Subjects, Subject
<1>4. \A r, c : Blocker(r, c).code = c /\ Blocker(r, c).resource = r
  BY DEF Blocker
<1> HIDE DEF Found
<1>5. SUFFICES ASSUME NEW g \in doc, NEW h \in doc, g.code = h.code, g.resource = h.resource,
                      g.part = h.part
               PROVE  g = h
  BY DEF Distinct, ID
<1>6. CASE g.code \in Codes
  <2>1. \A r \in Rules, c \in {"RULE_UNAVAILABLE", "PARTIAL_UNAVAILABLE"} :
            g # Blocker(r, c) /\ h # Blocker(r, c)
    <3>1. \A r \in Rules, c \in {"RULE_UNAVAILABLE", "PARTIAL_UNAVAILABLE"} :
              Blocker(r, c).code \notin Codes
      BY DEF Blocker, CodesAreTheRules
    <3>2. g.code \in Codes /\ h.code \in Codes
      BY <1>5, <1>6
    <3> QED
      BY <3>1, <3>2
  <2>2. PICK x \in Subjects : g = Found(x)
    BY <1>2, <2>1
  <2>3. PICK y \in Subjects : h = Found(y)
    BY <1>2, <2>1
  <2>4. x = y
    BY <1>3, <1>5, <2>2, <2>3
  <2> QED
    BY <2>2, <2>3, <2>4
<1>7. CASE g.code \notin Codes
  <2>1. PICK r \in Rules, c \in {"RULE_UNAVAILABLE", "PARTIAL_UNAVAILABLE"} : g = Blocker(r, c)
    BY <1>2, <1>3, <1>7
  <2>2. PICK q \in Rules, d \in {"RULE_UNAVAILABLE", "PARTIAL_UNAVAILABLE"} : h = Blocker(q, d)
    BY <1>2, <1>3, <1>5, <1>7
  <2>3. r = q /\ c = d
    BY <1>4, <1>5, <2>1, <2>2
  <2> QED
    BY <2>1, <2>2, <2>3
<1> QED
  BY <1>6, <1>7

LEMMA TrendsKeepItDistinct ==
    ASSUME CodesAreTheRules, TypeInv, document \in DistinctOnes
    PROVE  document \union Trends \in DistinctOnes
<1>1. Trends \subseteq Findings /\ document \subseteq Findings
  BY TheTrendsAreFindings DEF DistinctOnes
<1>2. \A r : Trend(r).code = "FINDING_FLAP" /\ Trend(r).resource = r
  BY DEF Trend
<1>3. ASSUME NEW g \in Findings, g.code = "FINDING_FLAP"
      PROVE  g = Trend(g.resource)
  <2>1. \A c \in Codes, r \in Resources, p \in Parts, s \in Severities, a \in BOOLEAN :
            Subject(c, r, p, s, a).code # "FINDING_FLAP"
    BY DEF Subject, CodesAreTheRules
  <2>2. \A r \in Rules, c \in {"RULE_UNAVAILABLE", "PARTIAL_UNAVAILABLE"} :
            Blocker(r, c).code # "FINDING_FLAP"
    BY DEF Blocker
  <2> QED
    BY <1>2, <1>3, <2>1, <2>2, KindsOfFindings
<1>4. \A t \in Trends : t.code = "FINDING_FLAP"
  BY <1>2 DEF Trends, Analyze
<1>5. ASSUME NEW g \in document \union Trends, NEW h \in Trends, ID(g) = ID(h)
      PROVE  g = h
  <2>1. g.code = h.code /\ g.resource = h.resource /\ g \in Findings /\ h \in Findings
    BY <1>1, <1>5 DEF ID
  <2> QED
    BY <1>3, <1>4, <2>1
<1>6. Distinct(document)
  BY DEF DistinctOnes
<1>7. Distinct(document \union Trends)
  <2>1. SUFFICES ASSUME NEW g \in document \union Trends, NEW h \in document \union Trends,
                        ID(g) = ID(h)
                 PROVE  g = h
    BY DEF Distinct
  <2>2. CASE g \in document /\ h \in document
    BY <1>6, <2>1, <2>2 DEF Distinct
  <2>3. CASE h \in Trends
    BY <1>5, <2>1, <2>3
  <2>4. CASE g \in Trends
    BY <1>5, <2>1, <2>4
  <2> QED
    BY <2>2, <2>3, <2>4
<1> QED
  BY <1>1, <1>7 DEF DistinctOnes

DistinctDocuments == KeptIn(DistinctOnes)

LEMMA InitIsDistinct == Init => DistinctDocuments
<1>1. {} \in DistinctOnes
  BY DEF DistinctOnes, Distinct
<1> QED
  BY <1>1, InitKeepsIn DEF DistinctDocuments

LEMMA NextKeepsDistinct ==
    ASSUME CodesAreTheRules, TypeInv, DistinctDocuments, [Next]_vars
    PROVE  DistinctDocuments'
<1>1. {} \in DistinctOnes
  BY DEF DistinctOnes, Distinct
<1>2. \A acks \in SUBSET Codes : Diagnoses(acks, FoundSeverities) \subseteq DistinctOnes
  BY DiagnosesAreFindings, DiagnosesAreDistinct DEF DistinctOnes
<1> QED
  BY <1>1, <1>2, NextKeepsIn, TrendsKeepItDistinct DEF DistinctDocuments

\* The lists of a difference that pair an earlier finding with a later one.
Entries == {"worsened", "improved", "changed", "reconfirmed", "unchanged"}

\* The lists that tell of a later finding.
Places(d, f) ==
    {k \in Entries : \E p \in d[k] : p.after = f} \union {k \in {"new"} : f \in d.new}

\* Each finding of the document is in one list, once, but for an unavailable
\* one that tells why an earlier finding is unknown.
CountedOnce(d, doc) ==
    /\ \A f \in doc : /\ f.severity # "unavailable" => Places(d, f) # {}
                      /\ \A k, l \in Places(d, f) : k = l
    /\ \A k \in Entries : \A p, q \in d[k] : p.after = q.after => p = q

\* The lists divide a set of pairs, which have later findings of their own.
Divides(d, doc, pairs) ==
    /\ \A p, q \in pairs : p.after = q.after => p = q
    /\ \A k \in Entries : d[k] \subseteq pairs
    /\ \A p \in pairs : \E k \in Entries : p \in d[k]
    /\ \A p \in pairs : \A k, l \in Entries : p \in d[k] /\ p \in d[l] => k = l
    /\ \A p \in pairs : p.after \notin d.new
    /\ \A f \in doc : f.severity # "unavailable" => f \in d.new \/ \E p \in pairs : p.after = f

LEMMA DividedPairsCount ==
    ASSUME NEW d, NEW doc, NEW pairs, Divides(d, doc, pairs)
    PROVE  CountedOnce(d, doc)
<1> USE DEF Divides
<1>1. ASSUME NEW f \in doc, f.severity # "unavailable"
      PROVE  Places(d, f) # {}
  BY <1>1 DEF Places
<1>2. ASSUME NEW f \in doc, NEW k \in Places(d, f), NEW l \in Places(d, f)
      PROVE  k = l
  <2>1. CASE f \in d.new
    <3>1. \A e \in Entries : \A p \in d[e] : p.after # f
      BY <2>1
    <3> QED
      BY <1>2, <3>1 DEF Places
  <2>2. CASE f \notin d.new
    <3>1. PICK p \in d[k] : p.after = f
      BY <1>2, <2>2 DEF Places
    <3>2. PICK q \in d[l] : q.after = f
      BY <1>2, <2>2 DEF Places
    <3>3. k \in Entries /\ l \in Entries
      BY <1>2, <2>2 DEF Places
    <3> QED
      BY <3>1, <3>2, <3>3
  <2> QED
    BY <2>1, <2>2
<1> QED
  BY <1>1, <1>2 DEF CountedOnce

LEMMA SeveritiesAreKnown ==
    ASSUME NEW f \in Findings
    PROVE  Weight(f) \in Int
<1>1. \A c \in Codes, r \in Resources, p \in Parts, s \in Severities, a \in BOOLEAN :
          Subject(c, r, p, s, a).severity = s
  BY DEF Subject
<1>2. \A r \in Rules, c \in {"RULE_UNAVAILABLE", "PARTIAL_UNAVAILABLE"} :
          Blocker(r, c).severity = "unavailable"
  BY DEF Blocker
<1>3. \A r \in Resources : Trend(r).severity = "warning"
  BY DEF Trend
<1>4. f.severity \in Severities
  BY <1>1, <1>2, <1>3, KindsOfFindings DEF Severities
<1> QED
  BY <1>4 DEF Weight, SeverityWeight, Severities

\* d is the comparison, but that these pairs tell of findings it called new.
Bridges(d, result, pairs) ==
    /\ \A p \in pairs : p.after \in result.new /\ p.before \in Findings
    /\ \A p, q \in pairs : p.after = q.after => p = q
    /\ d.new = result.new \ {p.after : p \in pairs}
    /\ d.worsened = result.worsened \union {p \in pairs : Weight(p.after) > Weight(p.before)}
    /\ d.improved = result.improved \union {p \in pairs : Weight(p.after) < Weight(p.before)}
    /\ d.changed = result.changed
                   \union {p \in pairs : /\ Weight(p.after) = Weight(p.before)
                                         /\ ID(p.after) # ID(p.before)}
    /\ d.reconfirmed = {p \in pairs : ID(p.after) = ID(p.before)}
    /\ d.unchanged = result.unchanged

\* Either way every later finding is counted once.
LEMMA ComparisonsCount ==
    ASSUME NEW before \in SUBSET Findings, Distinct(before), NEW after \in SUBSET Findings,
           NEW bridged, NEW d, Bridges(d, Compare(before, after), bridged)
    PROVE  CountedOnce(d, after)
<1> DEFINE beforeOnly == Without(before, after)
           afterOnly == Without(after, before)
           common == {p \in [before : before, after : after] : ID(p.before) = ID(p.after)}
           pairs == {p \in [before : CorrelationMap(beforeOnly), after : CorrelationMap(afterOnly)] :
                        Key(p.before) = Key(p.after)}
           lost == {p \in pairs : p.after.severity = "unavailable" /\ UnknownEntry(p.before, after)}
           judged == pairs \ lost
           all == judged \union common \union bridged
\* The three sets tell of different later findings, and each of one pair.
<1>1. \A p \in common : p.after \in after /\ p.after \notin afterOnly /\ p.before \in Findings
  BY DEF Without
<1>2. \A p \in pairs : p.after \in afterOnly /\ p.before \in Findings
  BY DEF CorrelationMap, Without
<1>3. \A p \in bridged : /\ p.after \in afterOnly /\ p.before \in Findings
                         /\ \A q \in pairs : q.after # p.after
  BY DEF Compare, Bridges
<1>4. \A p, q \in common : p.after = q.after => p = q
  BY DEF Distinct
<1>5. \A p, q \in pairs : p.after = q.after => p = q
  <2>1. \A g, h \in CorrelationMap(beforeOnly) : Key(g) = Key(h) => g = h
    BY DEF CorrelationMap
  <2> QED
    BY <2>1
<1>6. \A p, q \in bridged : p.after = q.after => p = q
  BY DEF Bridges
<1>7. \A f \in after : f \in afterOnly \/ \E p \in common : p.after = f
  <2>1. SUFFICES ASSUME NEW f \in after, f \notin afterOnly
                 PROVE  \E p \in common : p.after = f
    OBVIOUS
  <2>2. PICK g \in before : ID(g) = ID(f)
    BY <2>1 DEF Without
  <2>3. [before |-> g, after |-> f] \in common
    BY <2>1, <2>2
  <2> QED
    BY <2>3
<1>8. \A p \in lost : p.after.severity = "unavailable"
  OBVIOUS
<1>9. /\ Compare(before, after).new = afterOnly \ {p.after : p \in pairs}
      /\ Compare(before, after).worsened = {p \in judged : Weight(p.after) > Weight(p.before)}
      /\ Compare(before, after).improved = {p \in judged : Weight(p.after) < Weight(p.before)}
      /\ Compare(before, after).changed = {p \in judged : Weight(p.after) = Weight(p.before)}
                                          \union {p \in common : p.before # p.after}
      /\ Compare(before, after).unchanged = {p \in common : p.before = p.after}
  BY DEF Compare
<1>10. \A p \in all : Weight(p.after) \in Int /\ Weight(p.before) \in Int
  <2>1. afterOnly \subseteq Findings
    BY DEF Without
  <2> QED
    BY <1>1, <1>2, <1>3, <2>1, SeveritiesAreKnown
<1>11. \A p \in all : ID(p.after) = ID(p.before) => Weight(p.after) = Weight(p.before)
  BY DEF ID, Weight
<1> HIDE DEF beforeOnly, afterOnly, common, pairs, lost
<1>12. \A p, q \in all : p.after = q.after => p = q
  BY <1>1, <1>2, <1>3, <1>4, <1>5, <1>6
<1>13. /\ judged \subseteq pairs /\ judged \intersect common = {}
       /\ judged \intersect bridged = {} /\ common \intersect bridged = {}
  BY <1>1, <1>2, <1>3
<1> HIDE DEF judged
<1>14. \A p : /\ p \in d.worsened <=> /\ p \in judged \/ p \in bridged
                                      /\ Weight(p.after) > Weight(p.before)
              /\ p \in d.improved <=> /\ p \in judged \/ p \in bridged
                                      /\ Weight(p.after) < Weight(p.before)
              /\ p \in d.changed <=> \/ p \in judged /\ Weight(p.after) = Weight(p.before)
                                     \/ p \in common /\ p.before # p.after
                                     \/ /\ p \in bridged /\ Weight(p.after) = Weight(p.before)
                                        /\ ID(p.after) # ID(p.before)
              /\ p \in d.reconfirmed <=> p \in bridged /\ ID(p.after) = ID(p.before)
              /\ p \in d.unchanged <=> p \in common /\ p.before = p.after
  BY <1>9 DEF Bridges
<1>15. \A k \in Entries : d[k] \subseteq all
  BY <1>14 DEF Entries
<1>16. \A p \in all : \E k \in Entries : p \in d[k]
  <2>1. SUFFICES ASSUME NEW p \in all
                 PROVE  \/ p \in d.worsened \/ p \in d.improved \/ p \in d.changed
                        \/ p \in d.reconfirmed \/ p \in d.unchanged
    BY DEF Entries
  <2>2. \/ Weight(p.after) > Weight(p.before) \/ Weight(p.after) < Weight(p.before)
        \/ Weight(p.after) = Weight(p.before)
    BY <1>10
  <2> QED
    BY <1>14, <2>2
<1>17. \A p \in all : \A k, l \in Entries : p \in d[k] /\ p \in d[l] => k = l
  <2>1. SUFFICES ASSUME NEW p \in all
                 PROVE  /\ p \in d.worsened => /\ p \notin d.improved /\ p \notin d.changed
                                               /\ p \notin d.reconfirmed /\ p \notin d.unchanged
                        /\ p \in d.improved => /\ p \notin d.changed /\ p \notin d.reconfirmed
                                               /\ p \notin d.unchanged
                        /\ p \in d.changed => p \notin d.reconfirmed /\ p \notin d.unchanged
                        /\ p \in d.reconfirmed => p \notin d.unchanged
    BY DEF Entries
  <2>2. Weight(p.after) \in Int /\ Weight(p.before) \in Int
    BY <1>10
  <2>3. ID(p.after) = ID(p.before) => Weight(p.after) = Weight(p.before)
    BY <1>11
  <2>4. CASE p \in judged
    BY <1>13, <1>14, <2>2, <2>4
  <2>5. CASE p \in common
    BY <1>13, <1>14, <2>5
  <2>6. CASE p \in bridged
    BY <1>13, <1>14, <2>2, <2>3, <2>6
  <2> QED
    BY <2>4, <2>5, <2>6
<1>18. \A p \in all : p.after \notin d.new
  BY <1>1, <1>9, <1>13 DEF Bridges
<1>19. \A f \in after : f.severity # "unavailable" => f \in d.new \/ \E p \in all : p.after = f
  <2>1. \A p \in pairs : p \in judged \/ p \in lost
    BY DEF judged
  <2> QED
    BY <1>7, <1>8, <1>9, <2>1 DEF Bridges
<1> HIDE DEF all
<1>20. Divides(d, after, all)
  BY <1>12, <1>15, <1>16, <1>17, <1>18, <1>19 DEF Divides
<1> QED
  BY <1>20, DividedPairsCount

\* No matter how far history walks back, it bridges to one finding.
LEMMA OneFindingIsBridged ==
    ASSUME NEW documents \in Seq(SUBSET Findings), NEW f,
           NEW g \in LastKnownFinding(documents, f), NEW h \in LastKnownFinding(documents, f)
    PROVE  g = h /\ g \in Findings
<1>1. PICK i \in 1..(Len(documents) - 1) :
          UnknownSince(documents, f, i) /\ g \in Correlated(documents[i], f)
  BY DEF LastKnownFinding
<1>2. PICK j \in 1..(Len(documents) - 1) :
          UnknownSince(documents, f, j) /\ h \in Correlated(documents[j], f)
  BY DEF LastKnownFinding
<1>3. Len(documents) \in Nat /\ documents[i] \in SUBSET Findings
  BY <1>1
<1>4. ~(i < j) /\ ~(j < i)
  <2>1. ASSUME i < j PROVE FALSE
    <3>1. j \in (i + 1)..Len(documents)
      BY <1>3, <2>1
    <3> QED
      BY <1>1, <1>2, <3>1 DEF UnknownSince
  <2>2. ASSUME j < i PROVE FALSE
    <3>1. i \in (j + 1)..Len(documents)
      BY <1>3, <2>2
    <3> QED
      BY <1>1, <1>2, <3>1 DEF UnknownSince
  <2> QED
    BY <2>1, <2>2
<1>5. i = j
  BY <1>3, <1>4
<1> QED
  BY <1>1, <1>2, <1>3, <1>5 DEF Correlated, CorrelationMap

LEMMA CompareCounts ==
    ASSUME NEW before \in SUBSET Findings, Distinct(before), NEW after \in SUBSET Findings
    PROVE  CountedOnce(Compare(before, after), after)
<1> DEFINE d == Compare(before, after)
<1>1. d.reconfirmed = {}
  BY DEF Compare
<1> HIDE DEF d
<1>2. Bridges(d, d, {})
  BY <1>1 DEF Bridges
<1>3. CountedOnce(d, after)
  BY <1>2, ComparisonsCount DEF d
<1> QED
  BY <1>3 DEF d

LEMMA CompareHistoryCounts ==
    ASSUME NEW documents \in Seq(SUBSET Findings), documents # <<>>,
           Distinct(documents[Len(documents)]), NEW after \in SUBSET Findings
    PROVE  CountedOnce(CompareHistory(documents, after), after)
<1> DEFINE before == documents[Len(documents)]
           result == Compare(before, after)
           d == CompareHistory(documents, after)
           X == UNION {LastKnownFinding(documents, f) : f \in result.new}
           Y == {f \in result.new : f.severity # "unavailable"}
           bridged == {p \in [before : X, after : Y] :
                         p.before \in LastKnownFinding(documents, p.after)}
<1>1. before \in SUBSET Findings
  OBVIOUS
<1>2. X \subseteq Findings
  BY OneFindingIsBridged
<1>3. /\ d.new = result.new \ {p.after : p \in bridged}
      /\ d.worsened = result.worsened
                      \union {p \in bridged : Weight(p.after) > Weight(p.before)}
      /\ d.improved = result.improved
                      \union {p \in bridged : Weight(p.after) < Weight(p.before)}
      /\ d.changed = result.changed
                     \union {p \in bridged : /\ Weight(p.after) = Weight(p.before)
                                             /\ ID(p.after) # ID(p.before)}
      /\ d.reconfirmed = {p \in bridged : ID(p.after) = ID(p.before)}
      /\ d.unchanged = result.unchanged
  BY DEF CompareHistory
<1>4. \A p \in bridged : /\ p \in [before : X, after : Y] /\ p.after \in result.new
                         /\ p.before \in X /\ p.before \in LastKnownFinding(documents, p.after)
  OBVIOUS
<1>5. bridged \subseteq [before : X, after : Y]
  OBVIOUS
<1> HIDE DEF bridged, X, Y, d
<1>6. \A p, q \in bridged : p.after = q.after => p = q
  <2>1. SUFFICES ASSUME NEW p \in bridged, NEW q \in bridged, p.after = q.after
                 PROVE  p = q
    OBVIOUS
  <2>2. p.before = q.before
    BY <1>4, <2>1, OneFindingIsBridged
  <2> QED
    BY <1>5, <2>1, <2>2
<1> HIDE DEF result
<1>7. Bridges(d, result, bridged)
  BY <1>2, <1>3, <1>4, <1>6 DEF Bridges
<1> HIDE DEF before
<1>8. Distinct(before)
  BY DEF before
<1>9. CountedOnce(d, after)
  BY <1>1, <1>7, <1>8, ComparisonsCount DEF result
<1> QED
  BY <1>9 DEF d

LEMMA PrepareCounts ==
    ASSUME TypeInv, DistinctDocuments, Prepare, difference' # None
    PROVE  CountedOnce(difference', document')
<1>1. /\ document' \in SUBSET Findings /\ difference' = Difference(document')
      /\ watchRuns \in Seq(SUBSET Findings) /\ db \in Seq(Records(Retain - 1)) /\ Running
  BY PrepareKeepsTypes DEF Prepare, TypeInv, TypeOK, RunnerTypes, Running
<1>2. /\ \A i \in 1..Len(db) : db[i].doc \in DistinctOnes
      /\ \A i \in 1..Len(watchRuns) : watchRuns[i] \in DistinctOnes
      /\ cfg.diff => previous \in DistinctOnes
  BY <1>1 DEF DistinctDocuments, KeptIn
<1>3. \A doc \in DistinctOnes : doc \in SUBSET Findings /\ Distinct(doc)
  BY DEF DistinctOnes
<1>4. ASSUME NEW documents \in Seq(SUBSET Findings), documents # <<>>,
             \A i \in 1..Len(documents) : documents[i] \in DistinctOnes
      PROVE  CountedOnce(CompareHistory(documents, document'), document')
  <2> DEFINE doc == document'
  <2>1. doc \in SUBSET Findings
    BY <1>1
  <2>2. Distinct(documents[Len(documents)])
    BY <1>3, <1>4
  <2> HIDE DEF doc
  <2>3. CountedOnce(CompareHistory(documents, doc), doc)
    BY <1>4, <2>1, <2>2, CompareHistoryCounts
  <2> QED
    BY <2>3 DEF doc
<1>5. CASE cfg.diff
  <2> DEFINE before == previous
             doc == document'
  <2>1. /\ before \in SUBSET Findings /\ Distinct(before) /\ doc \in SUBSET Findings
    BY <1>1, <1>2, <1>3, <1>5
  <2>2. difference' = Compare(before, doc)
    BY <1>1, <1>5 DEF Difference
  <2> HIDE DEF before, doc
  <2>3. CountedOnce(Compare(before, doc), doc)
    BY <2>1, CompareCounts
  <2> QED
    BY <2>2, <2>3 DEF doc
<1>6. CASE ~cfg.diff /\ cfg.db /\ HistoryRecords # <<>>
  <2> DEFINE documents == Contents(db)
  <2>1. /\ documents \in Seq(SUBSET Findings) /\ Len(documents) = Len(db)
        /\ \A i \in 1..Len(db) : documents[i] = db[i].doc
    BY <1>1, ContentsAreDocuments
  <2>2. \A i \in 1..Len(documents) : documents[i] \in DistinctOnes
    BY <1>2, <2>1
  <2>3. HistoryRecords = Newest(documents, HistoryLimit)
    BY DEF HistoryRecords
  <2> HIDE DEF documents
  <2>4. \A i \in 1..Len(HistoryRecords) : HistoryRecords[i] \in DistinctOnes
    BY <2>1, <2>2, <2>3, NewestIn, LimitIsPositive
  <2>5. HistoryRecords \in Seq(SUBSET Findings)
    BY <1>1, HistoryIsMadeOfDocuments
  <2>6. difference' = CompareHistory(HistoryRecords, document')
    BY <1>1, <1>6 DEF Difference
  <2> QED
    BY <1>4, <1>6, <2>4, <2>5, <2>6
<1>7. CASE ~cfg.diff /\ ~(cfg.db /\ HistoryRecords # <<>>)
  <2>1. watchRuns # <<>> /\ difference' = CompareHistory(watchRuns, document')
    BY <1>1, <1>7 DEF Difference
  <2> QED
    BY <1>1, <1>2, <1>4, <2>1
<1> QED
  BY <1>5, <1>6, <1>7

FindingsAreCounted == difference # None => CountedOnce(difference, document)

LEMMA NextCounts ==
    ASSUME TypeInv, DistinctDocuments, FindingsAreCounted, [Next]_vars
    PROVE  FindingsAreCounted'
<1>1. CASE UNCHANGED <<document, difference>>
  BY <1>1 DEF FindingsAreCounted
<1>2. CASE Diagnose \/ Exit \/ Kill
  BY <1>2 DEF Diagnose, Exit, Kill, LoseMemory, FindingsAreCounted
<1>3. CASE Start
  BY <1>3 DEF Start, NothingYet, FindingsAreCounted, CountedOnce
<1>4. CASE Prepare
  BY <1>4, PrepareCounts DEF FindingsAreCounted
<1>5. \/ UNCHANGED <<document, difference>> \/ Diagnose \/ Exit \/ Kill \/ Start \/ Prepare
  BY DEF Next, Process, vars, round, DiagnoseInterrupted, DiagnoseFails, LoadFails,
         AppendHistory, AppendFails, SaveSnapshot, WriteReport, NotifyNothing, Send, Record,
         SleepInterrupted, Wake, Interrupt, OtherTargetAppends
<1> QED
  BY <1>1, <1>2, <1>3, <1>4, <1>5

\* Whatever a round is compared with, each finding of its document is in one
\* list of the difference and there once: what history bridges is taken out of
\* the new ones, a changed severity is not also new, and the counts add up.
\* Only an unavailable finding may be in none, where it tells why an earlier
\* one is unknown.
THEOREM EveryFindingIsCounted ==
    ASSUME CodesAreTheRules
    PROVE  Spec => []FindingsAreCounted
<1> DEFINE Inv == TypeInv /\ DistinctDocuments /\ FindingsAreCounted
<1>1. Init => Inv
  <2>1. Init => FindingsAreCounted
    BY DEF Init, FindingsAreCounted
  <2> QED
    BY <2>1, InitTypes, InitIsDistinct
<1>2. Inv /\ [Next]_vars => Inv'
  BY NextKeepsTypes, NextKeepsDistinct, NextCounts
<1>3. Inv => FindingsAreCounted
  OBVIOUS
<1> QED
  BY <1>1, <1>2, <1>3, PTL DEF Spec

\* The lists that tell of an earlier finding.
EarlierPlaces(d, b) ==
    {k \in {"worsened", "improved", "changed", "unchanged"} : \E p \in d[k] : p.before = b}
    \union {k \in {"resolved", "unknown"} : b \in d[k]}

\* A comparison forgets no earlier finding either: each is paired with a later
\* one, or unknown, or resolved, and only one of these.
THEOREM NothingIsForgotten ==
    ASSUME NEW before \in SUBSET Findings, NEW after \in SUBSET Findings, Distinct(after),
           NEW b \in before
    PROVE  \E k : EarlierPlaces(Compare(before, after), b) = {k}
<1> DEFINE beforeOnly == Without(before, after)
           afterOnly == Without(after, before)
           common == {p \in [before : before, after : after] : ID(p.before) = ID(p.after)}
           pairs == {p \in [before : CorrelationMap(beforeOnly), after : CorrelationMap(afterOnly)] :
                        Key(p.before) = Key(p.after)}
           lost == {p \in pairs : p.after.severity = "unavailable" /\ UnknownEntry(p.before, after)}
           judged == pairs \ lost
           gone == beforeOnly \ {p.before : p \in pairs}
           d == Compare(before, after)
\* b is paired by its fingerprint, or by its code and resource, or gone.
<1>1. \A p \in common : p.before \notin beforeOnly
  BY DEF Without
<1>2. \A p \in pairs : p.before \in beforeOnly /\ p.before \in before /\ p.after \in after
  BY DEF CorrelationMap, Without
<1>3. \A p, q \in common : p.before = q.before => p = q
  BY DEF Distinct
<1>4. \A p, q \in pairs : p.before = q.before => p = q
  <2>1. \A g, h \in CorrelationMap(afterOnly) : Key(g) = Key(h) => g = h
    BY DEF CorrelationMap
  <2> QED
    BY <2>1
<1>5. b \in beforeOnly \/ \E p \in common : p.before = b
  <2>1. SUFFICES ASSUME b \notin beforeOnly
                 PROVE  \E p \in common : p.before = b
    OBVIOUS
  <2>2. PICK f \in after : ID(f) = ID(b)
    BY <2>1 DEF Without
  <2>3. [before |-> b, after |-> f] \in common
    BY <2>2
  <2> QED
    BY <2>3
<1>6. \A p \in pairs : Weight(p.after) \in Int /\ Weight(p.before) \in Int
  BY <1>2, SeveritiesAreKnown
<1>7. /\ d.worsened = {p \in judged : Weight(p.after) > Weight(p.before)}
      /\ d.improved = {p \in judged : Weight(p.after) < Weight(p.before)}
      /\ d.changed = {p \in judged : Weight(p.after) = Weight(p.before)}
                     \union {p \in common : p.before # p.after}
      /\ d.unchanged = {p \in common : p.before = p.after}
      /\ d.resolved = {g \in gone : ~UnknownEntry(g, after)}
      /\ d.unknown = {g \in gone : UnknownEntry(g, after)} \union {p.before : p \in lost}
  BY DEF Compare
<1>8. lost \subseteq pairs /\ judged \subseteq pairs /\ judged \intersect lost = {}
      /\ pairs = judged \union lost
  OBVIOUS
<1>9. \A g : g \in gone <=> g \in beforeOnly /\ \A p \in pairs : p.before # g
  OBVIOUS
<1> HIDE DEF beforeOnly, afterOnly, common, pairs, lost, judged, gone, d
<1>10. SUFFICES \E k : EarlierPlaces(d, b) = {k}
  BY DEF d
<1>11. ASSUME NEW k \in {"worsened", "improved", "changed", "unchanged", "resolved", "unknown"},
              \A l : l \in EarlierPlaces(d, b) <=> l = k
       PROVE  \E e : EarlierPlaces(d, b) = {e}
  BY <1>11
<1>12. \A l : l \in EarlierPlaces(d, b) <=>
           \/ l = "worsened" /\ \E p \in d.worsened : p.before = b
           \/ l = "improved" /\ \E p \in d.improved : p.before = b
           \/ l = "changed" /\ \E p \in d.changed : p.before = b
           \/ l = "unchanged" /\ \E p \in d.unchanged : p.before = b
           \/ l = "resolved" /\ b \in d.resolved
           \/ l = "unknown" /\ b \in d.unknown
  BY DEF EarlierPlaces
<1>13. CASE \E p \in common : p.before = b
  <2>1. PICK p \in common : p.before = b
    BY <1>13
  <2>2. /\ \A q \in common : q.before = b => q = p
        /\ \A q \in pairs : q.before # b
        /\ b \notin gone
    BY <1>1, <1>2, <1>3, <1>9, <2>1
  <2>3. CASE p.before = p.after
    <3>1. \A l : l \in EarlierPlaces(d, b) <=> l = "unchanged"
      BY <1>7, <1>8, <1>12, <2>1, <2>2, <2>3
    <3> QED
      BY <1>11, <3>1
  <2>4. CASE p.before # p.after
    <3>1. \A l : l \in EarlierPlaces(d, b) <=> l = "changed"
      BY <1>7, <1>8, <1>12, <2>1, <2>2, <2>4
    <3> QED
      BY <1>11, <3>1
  <2> QED
    BY <2>3, <2>4
<1>14. CASE b \in beforeOnly /\ \E p \in pairs : p.before = b
  <2>1. PICK p \in pairs : p.before = b
    BY <1>14
  <2>2. /\ \A q \in pairs : q.before = b => q = p
        /\ \A q \in common : q.before # b
        /\ b \notin gone
    BY <1>1, <1>4, <1>9, <1>14, <2>1
  <2>3. CASE p \in lost
    <3>1. \A l : l \in EarlierPlaces(d, b) <=> l = "unknown"
      BY <1>7, <1>8, <1>12, <2>1, <2>2, <2>3
    <3> QED
      BY <1>11, <3>1
  <2>4. CASE p \in judged
    <3>1. Weight(p.after) \in Int /\ Weight(p.before) \in Int
      BY <1>6
    <3>2. CASE Weight(p.after) > Weight(p.before)
      <4>1. \A l : l \in EarlierPlaces(d, b) <=> l = "worsened"
        BY <1>7, <1>8, <1>12, <2>1, <2>2, <2>4, <3>1, <3>2
      <4> QED
        BY <1>11, <4>1
    <3>3. CASE Weight(p.after) < Weight(p.before)
      <4>1. \A l : l \in EarlierPlaces(d, b) <=> l = "improved"
        BY <1>7, <1>8, <1>12, <2>1, <2>2, <2>4, <3>1, <3>3
      <4> QED
        BY <1>11, <4>1
    <3>4. CASE Weight(p.after) = Weight(p.before)
      <4>1. \A l : l \in EarlierPlaces(d, b) <=> l = "changed"
        BY <1>7, <1>8, <1>12, <2>1, <2>2, <2>4, <3>1, <3>4
      <4> QED
        BY <1>11, <4>1
    <3>5. \/ Weight(p.after) > Weight(p.before) \/ Weight(p.after) < Weight(p.before)
          \/ Weight(p.after) = Weight(p.before)
      BY <3>1
    <3> QED
      BY <3>2, <3>3, <3>4, <3>5
  <2> QED
    BY <1>8, <2>1, <2>3, <2>4
<1>15. CASE b \in gone
  <2>1. /\ \A q \in pairs : q.before # b
        /\ \A q \in common : q.before # b
    BY <1>1, <1>9, <1>15
  <2>2. CASE UnknownEntry(b, after)
    <3>1. \A l : l \in EarlierPlaces(d, b) <=> l = "unknown"
      BY <1>7, <1>8, <1>12, <1>15, <2>1, <2>2
    <3> QED
      BY <1>11, <3>1
  <2>3. CASE ~UnknownEntry(b, after)
    <3>1. \A l : l \in EarlierPlaces(d, b) <=> l = "resolved"
      BY <1>7, <1>8, <1>12, <1>15, <2>1, <2>3
    <3> QED
      BY <1>11, <3>1
  <2> QED
    BY <2>2, <2>3
<1>16. \/ \E p \in common : p.before = b
       \/ b \in beforeOnly /\ \E p \in pairs : p.before = b
       \/ b \in gone
  BY <1>5, <1>9
<1> QED
  BY <1>13, <1>14, <1>15, <1>16

=============================================================================
