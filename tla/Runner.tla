------------------------------- MODULE Runner --------------------------------
(***************************************************************************)
(* One installation of the program from run to run: internal/app (once,    *)
(* watch, prepare, finish), the history database and the webhook.  A run   *)
(* is scheduled or a watch that diagnoses round after round; it can be     *)
(* interrupted at any moment, fail at any step that does I/O, be killed,   *)
(* and be started again.  Other installations append to the same database  *)
(* under another target.                                                   *)
(*                                                                         *)
(* A diagnosis is one atomic step: the module Collect shows that the       *)
(* snapshot it works on is one.                                            *)
(***************************************************************************)
EXTENDS Report

CONSTANTS
    Configs,        \* configurations to consider
    FoundSeverities,\* severities the rules report
    Acknowledgements, \* codes the baseline file may acknowledge
    Window,         \* Config.HistoryWindow
    FlapThreshold,  \* Config.FlapThreshold
    Retain,         \* Config.HistoryRetain
    MaxRounds,      \* bound: diagnoses
    MaxUnknown,     \* bound: consecutive evaluations on record with an unavailable rule
    MaxOthers,      \* bound: runs of other targets between two records of this one
    MaxKills,       \* bound: kills
    None            \* no document, no difference

ASSUME WindowAssumption ==
    /\ Window \in Nat /\ Window >= 2
    /\ FlapThreshold \in 1..(Window - 1)
    /\ Retain \in Nat \ {0}

ASSUME BaselineAssumption ==
    /\ FoundSeverities \subseteq Severities
    /\ Acknowledgements \subseteq SUBSET Codes

ASSUME BoundsAssumption == MaxUnknown \in Nat /\ MaxOthers \in Nat

VARIABLES
    cfg,            \* the configuration of every run
    acknowledged,   \* codes the loaded baseline acknowledges
    pc,             \* where the run stands
    document,       \* the document of the current round
    difference,     \* its comparison, None without a basis
    payload,        \* issues the webhook is to announce
    previous,       \* the --diff document
    watchRuns,      \* documents of this process, newest last
    db,             \* this target's records in the history database, newest last,
                    \* each with the number of newer ones, other targets' included
    saved,          \* content of the --save-snapshot file
    report,         \* content of the --output-file
    cancelled,      \* SIGINT or SIGTERM arrived
    code,           \* what Run returned, then the exit status
    sent,           \* issues the webhook received in this round
    failed,         \* history: a step of this run failed
    known,          \* history: findings of the last evaluations on record
    basis,          \* history: the value of known that the round started from
    remembered,     \* history: what of it the documents to compare with show
    turns,          \* history: how often a code turned up on or left a resource
    rounds, unknowns, others, kills

store == <<db, saved, report>>
round == <<document, difference, payload>>
history == <<known, basis, remembered, turns>>
bounds == <<rounds, unknowns, others, kills>>
vars == <<cfg, acknowledged, pc, document, difference, payload, previous, watchRuns, db,
          saved, report, cancelled, code, sent, failed, known, basis, remembered, turns,
          rounds, unknowns, others, kills>>

\* The combinations Config.Validate accepts.
Valid(c) ==
    /\ c.watch => ~c.diff /\ ~c.save /\ ~c.output /\ ~c.exitZero
    /\ c.webhook => c.diff \/ c.db \/ c.watch

Documents == Diagnoses({}, FoundSeverities)

Newest(seq, n) == IF Len(seq) > n THEN SubSeq(seq, Len(seq) - n + 1, Len(seq)) ELSE seq

-----------------------------------------------------------------------------
(* Diagnose *)

Blocked(doc) == \E f \in doc : f.severity = "unavailable"

\* What is on record once doc is: its own findings, and those of before that
\* doc could not look at.
Learn(before, doc) ==
    {f \in doc : f.severity # "unavailable"} \union
    {f \in before : /\ \E u \in doc : u.severity = "unavailable" /\ u.rule = f.rule
                    /\ \A g \in doc : Key(g) = Key(f) => g.severity = "unavailable"}

Abnormal(facts, key) == \E g \in facts : Key(g) = key /\ ~g.ack

\* The changes between two evaluations on record, counted on.
Turned(before, after) ==
    [key \in Codes \X Resources |->
        IF Abnormal(before, key) = Abnormal(after, key) THEN turns[key] ELSE turns[key] + 1]

\* How long rules have been unavailable once the document is on record.
Outage == IF Blocked(document) THEN unknowns + 1 ELSE 0

\* An acknowledgement may expire between two rounds.
Diagnose ==
    /\ pc = "diagnose"
    /\ ~cancelled
    /\ acknowledged' \in SUBSET acknowledged
    /\ document' \in Diagnoses(acknowledged', FoundSeverities)
    /\ Blocked(document') => unknowns < MaxUnknown
    /\ difference' = None
    /\ payload' = {}
    /\ sent' = {}
    /\ pc' = "prepare"
    /\ UNCHANGED <<cfg, previous, watchRuns, store, cancelled, code,
                   failed, history, bounds>>

\* Run returns: c for main's exit status.
Finish(c) == pc' = "returned" /\ code' = c

DiagnoseInterrupted ==
    /\ pc = "diagnose"
    /\ cancelled
    /\ Finish(0)
    /\ UNCHANGED <<cfg, acknowledged, round, previous, watchRuns, store, cancelled, sent,
                   failed, history, bounds>>

\* An error of any step below ends the run, a watch too.
Fail ==
    /\ Finish(1)
    /\ failed' = TRUE

\* The cluster snapshot could not be saved (or, in a replay, loaded).
DiagnoseFails ==
    /\ pc = "diagnose"
    /\ ~cancelled
    /\ Fail
    /\ UNCHANGED <<cfg, acknowledged, round, previous, watchRuns, store, cancelled, sent,
                   history, bounds>>

-----------------------------------------------------------------------------
(* prepare *)

\* What history.Load reads and what watchRuns keeps.
HistoryLimit == IF Window > 2 THEN Window - 1 ELSE 1

Contents(records) == [i \in DOMAIN records |-> records[i].doc]

HistoryRecords == Newest(Contents(db), HistoryLimit)

\* Mutant: rounds of the same process are compared one by one.
DifferenceWithLast(doc) ==
    IF cfg.diff THEN Compare(previous, doc)
    ELSE IF cfg.db /\ HistoryRecords # <<>>
         THEN Compare(HistoryRecords[Len(HistoryRecords)], doc)
    ELSE IF watchRuns # <<>> THEN Compare(watchRuns[Len(watchRuns)], doc)
    ELSE None

Difference(doc) ==
    IF cfg.diff THEN Compare(previous, doc)
    ELSE IF cfg.db /\ HistoryRecords # <<>> THEN CompareHistory(HistoryRecords, doc)
    ELSE IF watchRuns # <<>> THEN CompareHistory(watchRuns, doc)
    ELSE None

\* The documents that the comparison walks back through.
ComparedDocuments == IF cfg.db /\ HistoryRecords # <<>> THEN HistoryRecords ELSE watchRuns

\* The facts that documents show: one of them found it, and neither it nor a
\* later one has another finding with its code and resource.
Shown(documents, facts) ==
    {g \in facts : \E k \in DOMAIN documents :
        /\ g \in documents[k]
        /\ \A i \in k..Len(documents) : \A h \in documents[i] : Key(h) = Key(g) => h = g}

Trends == IF cfg.db THEN Analyze(HistoryRecords, document, Window, FlapThreshold) ELSE {}

Prepare ==
    /\ pc = "prepare"
    /\ cfg.db /\ (db # <<>> \/ others > 0) => ~cancelled
    /\ document' = document \union Trends
    /\ difference' = Difference(document')
    /\ payload' = IF cfg.webhook /\ difference' # None THEN BuildPayload(difference') ELSE {}
    /\ basis' = known
    /\ remembered' = {g \in Shown(ComparedDocuments, known) : ~Misfiles(g.rule)}
    /\ pc' = IF cfg.db THEN "append" ELSE "save"
    /\ UNCHANGED <<cfg, acknowledged, previous, watchRuns, store, cancelled, code, sent,
                   failed, known, turns, bounds>>

LoadFails ==
    /\ pc = "prepare"
    /\ cfg.db
    /\ Fail
    /\ UNCHANGED <<cfg, acknowledged, round, previous, watchRuns, store, cancelled, sent,
                   history, bounds>>

-----------------------------------------------------------------------------
(* finish: history, snapshot, report, webhook, in this order *)

\* stateKey: a watch skips a document that repeats the newest record.
Unchanged(doc) ==
    cfg.watch /\ db # <<>> /\ db[Len(db)].doc = doc

\* One more record in the database makes every other one older.
Aged(records) ==
    [i \in DOMAIN records |-> [newer |-> records[i].newer + 1, doc |-> records[i].doc]]

\* Mutant: nothing is ever deleted.
KeepEverything(records) == records

\* Mutant: the newest record is deleted.
KeepOldest(records) ==
    IF records # <<>> /\ records[1].newer >= Retain
    THEN SubSeq(records, 1, Len(records) - 1) ELSE records

\* The newest records of all targets together stay: one more record pushes out
\* one at most.
Prune(records) ==
    IF records # <<>> /\ records[1].newer >= Retain THEN Tail(records) ELSE records

\* One transaction.
AppendHistory ==
    /\ pc = "append"
    /\ ~cancelled
    /\ db' = IF Unchanged(document) THEN db
             ELSE Prune(Append(Aged(db), [newer |-> 0, doc |-> document]))
    /\ others' = IF Unchanged(document) THEN others ELSE 0
    /\ known' = Learn(known, document)
    /\ turns' = Turned(known, known')
    /\ unknowns' = Outage
    /\ pc' = "save"
    /\ UNCHANGED <<cfg, acknowledged, round, previous, watchRuns, saved, report, cancelled,
                   code, sent, failed, basis, remembered, rounds, kills>>

AppendFails ==
    /\ pc = "append"
    /\ Fail
    /\ UNCHANGED <<cfg, acknowledged, round, previous, watchRuns, store, cancelled, sent,
                   history, bounds>>

\* WriteAtomic replaces the file or not; a failing call may have replaced it
\* before the directory could not be synced.
SaveSnapshot ==
    /\ pc = "save"
    /\ IF cfg.save
       THEN \/ saved' = document /\ pc' = "output" /\ UNCHANGED <<code, failed>>
            \/ saved' \in {saved, document} /\ Fail
       ELSE pc' = "output" /\ UNCHANGED <<saved, code, failed>>
    /\ UNCHANGED <<cfg, acknowledged, round, previous, watchRuns, db, report, cancelled,
                   sent, history, bounds>>

WriteReport ==
    /\ pc = "output"
    /\ IF cfg.output
       THEN \/ report' = document /\ pc' = "notify" /\ UNCHANGED <<code, failed>>
            \/ report' \in {report, document} /\ Fail
       ELSE pc' = "notify" /\ UNCHANGED <<report, code, failed>>
    /\ UNCHANGED <<cfg, acknowledged, round, previous, watchRuns, db, saved, cancelled,
                   sent, history, bounds>>

\* Nothing to compare with, or nothing to announce.
NotifyNothing ==
    /\ pc = "notify"
    /\ payload = {}
    /\ pc' = "record"
    /\ UNCHANGED <<cfg, acknowledged, round, previous, watchRuns, store, cancelled, code,
                   sent, failed, history, bounds>>

\* One POST, never repeated. Its answer may be lost after it was received.
Send ==
    /\ pc = "notify"
    /\ payload # {}
    /\ \/ /\ ~cancelled
          /\ sent' = payload
          /\ pc' = "record"
          /\ UNCHANGED <<code, failed>>
       \/ /\ sent' \in {{}, payload}
          /\ Fail
    /\ UNCHANGED <<cfg, acknowledged, round, previous, watchRuns, store, cancelled, history,
                   bounds>>

\* The policy of a single run; a watch goes to sleep whatever it found.
PolicyCode ==
    IF cfg.exitZero \/ ~ShouldFail(document, cfg.failOn, 0) THEN 0 ELSE 1

Record ==
    /\ pc = "record"
    /\ watchRuns' = Newest(Append(watchRuns, document), HistoryLimit)
    /\ IF cfg.db THEN UNCHANGED <<known, unknowns>>
       ELSE known' = Learn(known, document) /\ unknowns' = Outage
    /\ IF cfg.watch THEN pc' = "sleep" /\ UNCHANGED code ELSE Finish(PolicyCode)
    /\ UNCHANGED <<cfg, acknowledged, round, previous, store, cancelled, sent, failed,
                   basis, remembered, turns, rounds, others, kills>>

-----------------------------------------------------------------------------
(* watch and main *)

\* Both branches of the select may be ready.
Wake ==
    /\ pc = "sleep"
    /\ rounds < MaxRounds
    /\ rounds' = rounds + 1
    /\ pc' = "diagnose"
    /\ UNCHANGED <<cfg, acknowledged, round, previous, watchRuns, store, cancelled, code,
                   sent, failed, history, unknowns, others, kills>>

\* Mutant: the sleep cannot be interrupted.
SleepThrough == FALSE /\ UNCHANGED vars

SleepInterrupted ==
    /\ pc = "sleep"
    /\ cancelled
    /\ Finish(0)
    /\ UNCHANGED <<cfg, acknowledged, round, previous, watchRuns, store, cancelled, sent,
                   failed, history, bounds>>

\* Mutant: main returns what Run returned.
PlainExitCode(c) == c

InterruptedExitCode(c) ==
    IF ~cancelled THEN c ELSE IF cfg.watch THEN 0 ELSE 130

\* Only the database and the files outlive a process; document, code, failed
\* and cancelled stay to tell how a run ended.
LoseMemory ==
    /\ watchRuns' = <<>>
    /\ previous' = None
    /\ difference' = None
    /\ payload' = {}
    /\ sent' = {}
    /\ basis' = {}
    /\ remembered' = {}

NothingYet ==
    /\ document' = {}
    /\ code' = 0
    /\ cancelled' = FALSE
    /\ failed' = FALSE

Exit ==
    /\ pc = "returned"
    /\ code' = InterruptedExitCode(code)
    /\ pc' = "exited"
    /\ LoseMemory
    /\ UNCHANGED <<cfg, acknowledged, document, store, cancelled, failed, known, turns,
                   bounds>>

\* The next run of the schedule, or the operator starts the watch again.
Start ==
    /\ pc \in {"off", "exited", "killed"}
    /\ rounds < MaxRounds
    /\ rounds' = rounds + 1
    /\ pc' = "diagnose"
    /\ acknowledged' \in Acknowledgements
    /\ previous' \in (IF cfg.diff THEN Documents ELSE {None})
    /\ known' = IF cfg.db THEN known ELSE {}
    /\ NothingYet
    /\ UNCHANGED <<cfg, watchRuns, difference, payload, sent, basis, remembered, turns, store,
                   unknowns, others, kills>>

Running == pc \notin {"off", "exited", "killed"}

Interrupt ==
    /\ Running
    /\ ~cancelled
    /\ cancelled' = TRUE
    /\ UNCHANGED <<cfg, acknowledged, pc, round, previous, watchRuns, store, code, sent,
                   failed, history, bounds>>

Kill ==
    /\ Running
    /\ kills < MaxKills
    /\ kills' = kills + 1
    /\ pc' = "killed"
    /\ LoseMemory
    /\ NothingYet
    /\ UNCHANGED <<cfg, acknowledged, store, known, turns, rounds, unknowns, others>>

OtherTargetAppends ==
    /\ cfg.db
    /\ others < MaxOthers
    /\ others' = others + 1
    /\ db' = Prune(Aged(db))
    /\ UNCHANGED <<cfg, acknowledged, pc, round, previous, watchRuns, saved, report,
                   cancelled, code, sent, failed, history, rounds, unknowns, kills>>

-----------------------------------------------------------------------------

Init ==
    /\ cfg \in {c \in Configs : Valid(c)}
    /\ acknowledged = {}
    /\ pc = "off"
    /\ document = {}
    /\ difference = None
    /\ payload = {}
    /\ previous = None
    /\ watchRuns = <<>>
    /\ db = <<>>
    /\ saved = None
    /\ report = None
    /\ cancelled = FALSE
    /\ code = 0
    /\ sent = {}
    /\ failed = FALSE
    /\ known = {}
    /\ basis = {}
    /\ remembered = {}
    /\ turns = [key \in Codes \X Resources |-> 0]
    /\ rounds = 0
    /\ unknowns = 0
    /\ others = 0
    /\ kills = 0

Process ==
    \/ Diagnose \/ DiagnoseInterrupted \/ DiagnoseFails \/ Prepare \/ LoadFails
    \/ AppendHistory \/ AppendFails \/ SaveSnapshot \/ WriteReport
    \/ NotifyNothing \/ Send \/ Record \/ SleepInterrupted \/ Exit

Next == Process \/ Wake \/ Start \/ Interrupt \/ Kill \/ OtherTargetAppends

Spec == Init /\ [][Next]_vars

\* The process is scheduled, and each of its steps ends: API requests, the
\* database (busy_timeout) and the webhook (http.Client.Timeout) have timeouts.
\* Nobody has to start a run or to interrupt one, and the timer that wakes a
\* watch is only as live as the bound on the rounds.
FairSpec == Spec /\ WF_vars(Process)

-----------------------------------------------------------------------------
(* Properties *)

TypeOK ==
    /\ Valid(cfg)
    /\ acknowledged \subseteq Codes
    /\ pc \in {"off", "diagnose", "prepare", "append", "save", "output", "notify", "record",
               "sleep", "returned", "exited", "killed"}
    /\ document \subseteq Findings
    /\ payload \subseteq Findings
    /\ sent \subseteq Findings
    /\ known \subseteq Findings /\ basis \subseteq Findings
    /\ \A i \in DOMAIN watchRuns : watchRuns[i] \subseteq Findings
    /\ Len(watchRuns) <= HistoryLimit
    /\ \A i \in DOMAIN db : db[i].newer \in 0..(Retain - 1) /\ db[i].doc \subseteq Findings
    /\ code \in {0, 1, 130}
    /\ cancelled \in BOOLEAN /\ failed \in BOOLEAN

\* abnormal -> unknown -> abnormal is a reconfirmation: the webhook receives no
\* issue that the last evaluations on record had, as far as the documents the
\* round is compared with still show it and its rule does not misfile.
NotAnnouncedAgain ==
    ~cfg.diff => \A f \in sent, g \in remembered : ID(f) # ID(g)

\* src/README.md:254 without conditions: abnormal -> unknown -> abnormal confirms
\* an issue the evaluations on record had, and is not announced again.
ReconfirmedIsNotNews ==
    ~cfg.diff => \A f \in sent, g \in basis : ID(f) # ID(g)

\* A round with something to compare with announces every unacknowledged issue
\* about which the last evaluations on record had nothing to say.
NothingNewIsMissed ==
    (pc = "record" /\ cfg.webhook /\ ~cfg.diff /\ difference # None) =>
        \A f \in document :
            (f.severity = "issue" /\ ~f.ack /\ \A g \in basis : Key(g) # Key(f)) => f \in sent

\* Whatever the webhook was told is on record first, so a failed or lost
\* notification costs no evidence: the files hold the announced document, and
\* the database does unless newer runs of other targets pushed it out.
EvidenceComesFirst ==
    sent # {} =>
        /\ cfg.save => saved = document
        /\ cfg.output => report = document
        /\ cfg.db => IF db = <<>> THEN others >= Retain ELSE db[Len(db)].doc = document

\* What is reported resolved although its rule could not look is only what a
\* rule files outside the section it declares.
ResolvedMeansEvaluated ==
    difference # None => \A f \in difference.resolved, u \in document :
        (f.severity # "unavailable" /\ u.severity = "unavailable" /\ u.rule = f.rule)
            => Misfiled(f) \/ Misfiled(u)

\* A trend on record is about a resource on which a code really changed that
\* often between evaluations: an outage is no change, nor is the document that
\* a watch did not repeat, a failed round or a restart. Rules that misfile are
\* left out: the analysis does not see all of their outages.
FlapsAreChanges ==
    \A i \in DOMAIN db, r \in Resources :
        Trend(r) \in db[i].doc =>
            \E c \in Codes : \/ turns[<<c, r>>] >= FlapThreshold
                             \/ Misfiles(RuleOf[c])

\* The exit status tells an interrupt from a failure from the findings, and no
\* finding ends a watch.
ExitStatusTellsWhy ==
    pc = "exited" =>
        /\ cancelled => code = IF cfg.watch THEN 0 ELSE 130
        /\ (~cancelled /\ failed) => code = 1
        /\ (~cancelled /\ ~failed) =>
                ~cfg.watch /\ (code = 1 <=> ShouldFail(document, cfg.failOn, 0) /\ ~cfg.exitZero)

\* An interrupted program ends, wherever the signal meets it.
InterruptEndsTheRun == cancelled ~> pc \in {"exited", "killed"}
=============================================================================
