# Verification of k8s-diagnose

`k8s-diagnose` reads a Kubernetes cluster, runs rules over what it read, compares the
result with earlier results and reports it: to the terminal, to files, to a history
database and to a webhook. It runs once, on a schedule, or as a watch that diagnoses
round after round. It never writes to the cluster.

This directory holds TLA+ modules of the parts of the program where the order of steps,
failures and repeated runs decide whether a report can be trusted, the TLC
configurations that check them on small instances, and proofs, checked by TLAPS, of
theorems about them for every value of their parameters. `PROJECT.json` maps every
definition to the lines of code it models.

Run from this directory:

    tlasany Collect.tla                               # parse
    tlc -workers 2 -config MCCollect.cfg MCCollect    # model-check
    tlapm CollectProofs.tla                           # check the proofs

## 1. The system

### 1.1 Components, their state and their operations

| component | source | state it keeps | operations | modelled in |
|---|---|---|---|---|
| snapshot collector | `internal/kube/collect.go`, `collect_tasks.go`, `lists.go` | the task table, a worker per task, the results channel, the `Snapshot` being filled | `Collect`; per resource a paging list function; optional APIs with several versions | `Collect`, `ClusterView` |
| API client recorders | `internal/kube/client.go` | server time, Warning headers, request trace; shared by all workers and all rounds | `Preflight`, `BeginCollection`, `RoundTrip`, `HandleWarningHeader`, `ClassifyError` | `Collect` |
| cluster state files and replay | `internal/kube/persist.go` | a JSON file with the scope it was collected for | save, load, check of the scope | `Session`; the write: `AtomicWrite` |
| atomic writes | `internal/report/report.go` (`WriteAtomic`), the settings editor | temporary files, the destination | create, write, fsync, close, rename, fsync of the directory, deferred removal | `AtomicWrite` |
| snapshot and its narrowing | `internal/kube/snapshot.go`, `internal/app/select_scope.go` | the lists with their statuses, an index over them | lookups that answer found, absent or unknown; the snapshot of one Pod | `SnapshotScope` |
| rule registry and rules | `internal/rules` | none between rounds; a dependency graph per round | `Registry.Run`: skip, run in part, run; about forty rules | `Diagnosis`, with `ServiceRule`, `ReferenceRules`, `GatewayRule`; what a round keeps of it: `Report` |
| correlation | `internal/rules/rootcause.go` | `State.RootCauses` | `Correlate`, the baseline's workload resolver | `Acknowledge` |
| baseline | `internal/baseline` | the approvals of a file | `Apply`, `matchWorkload` | `Acknowledge` |
| comparison | `internal/report` (`Compare`, `CompareHistory`), `internal/jsonutil` | none | new, resolved, unknown, worsened, reconfirmed ... | `Report` |
| history database | `internal/history` | SQLite records of all targets | `Load`, `Append` with retention, flap analysis | `Runner`, `Report` |
| webhook | `internal/notify` | none | `BuildPayload`, one POST | `Runner`, `Report` |
| run and watch | `internal/app/app.go`, `main.go` | the documents of this process, the exit code | `Run`, `once`, `watch`, `prepare`, `finish` | `Runner` |
| connection checks | `internal/connect` | the results so far, the next local port, a port-forward with two goroutines per check | `targetsAt`, `CheckSnapshot`, `checkTargets`, `checkOne`, `forward` | `ConnectTargets`, `PortForward` |
| configuration | `internal/config` | the settings with their explicit marks, the INI file | defaults, INI, command words, flags; profiles; `Validate`; editing one setting; saving | `Configuration` |
| guide and editor | `internal/app/wizard.go` | the menu shown, the configuration being put together | menus, options, prompts, confirmation, the settings editor | `Guide` |
| Pod selection | `internal/app/selection.go` | the two searches, the highlighted line | keys, searches, reload | `PodScreen` |
| one start | `main.go`, `Run` in `internal/app/app.go`, `internal/app/debug.go` | the configuration, the chosen Pod, the files written, the exit code | load inputs, replay or read the cluster, choose, diagnose, refresh, `kubectl debug` | `Session` |
| rendering, formats, masking, logs, RBAC manifests | `internal/console`, `internal/app`, `internal/redact`, `internal/rbac` | terminal, text | layout, regular expressions, YAML | not modelled |

### 1.2 How they interact

    main ── signal context ──> app.Run ──> guide | editor | select | list | once | watch
      select:    Pod screen ─ fresh snapshot ─ same Pod? ─ narrow ─ rules ─ debug menu
                                 │
      diagnose:  Collector.Collect ─ Registry.Run ─ Correlate ─ baseline.Apply ─ Correlate
      prepare:   history.Load ─ Analyze/AddFindings ─ baseline.Apply ─ Compare(History)
      finish:    history.Append ─ --save-snapshot ─ --output-file ─ webhook ─ watchRuns

During a diagnosis only the collector's workers share memory: the context of an errgroup, a
buffered channel and the recorders of the HTTP transport. A connection check shares three
channels with the goroutines of its port-forward. Everything else is sequential within one
process. Processes share
files and the database. A signal cancels one context that every request, query, POST and
sleep is given.

### 1.3 What is hard, and what must hold

* **Collecting** (`Collect`). Up to 16 lists run at once and each may fail on any page.
  A list cut short must not pass for a whole one, because to a rule "not in the list" is
  a fact. One failing list must not take another down; every requested key must get a
  status; the recorders outlive a round.
* **Replacing files** (`AtomicWrite`). Any of eight system calls may fail, scheduled runs
  may overlap, a process or the machine may die in between.
* **Comparing over time** (`Runner`, `Report`). A finding that is missing may be gone or
  merely out of sight. What the webhook hears depends on several earlier rounds, on
  retention, and on which of the later steps failed.
* **Acknowledging** (`Acknowledge`). The baseline is applied twice, between two
  correlations, and an acknowledgement is copied along the root causes. The order of
  rules, an expired approval, or the shape of the graph may let it reach too little or
  too much.
* **Checking connections** (`PortForward`). What fails may be the Pod, the tunnel, the local
  port, or the check itself because of an interrupt; only the first is a finding about the
  Pod. A dial may hang where no channel reaches it, and its goroutines outlive the check.
* **Judging what is not there** (`Diagnosis`). Rules report that something does not exist.
  They read snapshots that were cut three times: to a namespace, by lists that failed, and
  to the chosen Pod. Each rule has to tell absent from unknown and from dropped.
* **Looking twice** (`Session`). The Pod on screen, the Pod that is diagnosed and the Pod
  that `kubectl debug` changes are three reads of a name, and Pods are recreated under
  their names all the time.
* **Configuring** (`Configuration`, `Guide`). Some fifty settings come from four sources,
  restrict each other, and are edited, switched by profile and saved one by one. Files are
  read and written under names that may be the same file.
* **Replaying** (`Session`). A saved cluster state must not be taken for another scope, and
  nothing may reach out to the real cluster meanwhile.
* **Ending** (`Collect`, `Runner`, `PortForward`). A watch runs for days. No worker may wait for ever, and
  a signal or the end of the input must end the program from wherever it is.

The complete list, with the line where each hazard bites and the properties that cover
it, is `hazards` in `PROJECT.json`.

## 2. The modules

| module | models | built on |
|---|---|---|
| `ClusterView` | what a caller of `Collect` is promised: one atomic read | |
| `Collect` | the collector, its workers and the API server | refines `ClusterView` |
| `CollectProofs` | theorems about `Collect` | `Collect`, TLAPS |
| `AtomicWrite` | `WriteAtomic` over a file system that loses its cache | |
| `AtomicWriteProofs` | theorems about `AtomicWrite` | `AtomicWrite`, TLAPS |
| `Report` | documents, their comparison, payloads, flap analysis (operators only) | |
| `Runner` | runs, watch, history, webhook, exit status | `Report` |
| `RunnerProofs` | theorems about `Runner`: types, evidence, exit status, what is resolved, what the webhook is told | `Runner`, TLAPS |
| `PortForwardProofs` | theorems about `PortForward` | `PortForward`, TLAPS |
| `Acknowledge` | correlation and baseline of one diagnosis | |
| `Recursion` | induction and recursion over the naturals, for the proofs | TLAPS |
| `AcknowledgeProofs` | theorems about `Acknowledge` | `Acknowledge`, `Recursion` |
| `ConnectTargets` | which requests `--connect` sends (operators only) | |
| `PortForward` | the checks, their port-forwards and goroutines | `ConnectTargets` |
| `SnapshotScope` | snapshots, their lookups, the narrowing to one Pod (operators only) | |
| `ServiceRule`, `ReferenceRules`, `GatewayRule` | the rules that conclude from absence (operators only) | `SnapshotScope` |
| `Diagnosis` | collecting, narrowing and the registry over those rules | the three rule modules |
| `DiagnosisProofs` | theorems about `Diagnosis` | `Diagnosis`, `Recursion` |
| `Configuration` | settings, validation, profiles, the INI file (operators only) | |
| `Guide` | the menus and the settings editor | `Configuration` |
| `PodScreen` | the screen on which a Pod is chosen | |
| `Session` | one start of the program | `Guide`, `PodScreen` |
| `SessionProofs` | theorems about `Session` | `Session`, TLAPS |
| `MCCollect`, `MCRunner`, `MCAcknowledge`, `MCPortForward`, `MCDiagnosis`, `MCSession` | values for the constants | |

Operators marked `Mutant:` are the same code with a plausible bug. Nothing in the
specifications uses them; each is the reason to believe that one property would notice
(section 3).

### 2.1 `Collect` and `ClusterView`

`pc` follows one caller: preflight, then up to `MaxRounds` collections. `Spawn(k)` is one
iteration of the loop around `group.Go`: it is enabled while fewer than `Limit` workers
are active, as `SetLimit` makes it block otherwise. The order of the task table is left
open, which covers the one the code has. A worker (`ReadPage`, `FailPage`, `AbortPage`, `NotServed`,
`Send`) is the paging loop that all list functions share: every page is a request, whose
response may carry a Date and Warnings (`Response`); the last page ends the list; an
error returns what was read so far *together with* the error; an optional API that is
not found starts again from page one of the next version. `Send` puts the result into
the channel and returns `nil` to the group (`GroupReturn`). `Wait`, `Apply` and `Return`
are the rest of `Collect`: the loop over the closed channel, the alias of the
cluster-wide Pod status, draining the warnings, the clock.

Data is cut down to what a rule could be misled by: a list is a number of pages, whether
its end was seen, and its error class. `heard`, `dates` and `ownFailure` are history
variables that only properties read.

`ClusterView` is the contract: the caller holds nothing or a complete view, and each
collection replaces it in a single step. `ImplementsClusterView` instantiates it with
`view` hidden while `Collect` runs.

### 2.2 `AtomicWrite`

One action per system call of `WriteAtomic`, with its failing branch. The deferred
`os.Remove` is the `remove` step every path ends in; it finds nothing once the rename has
taken the name away. A file is named `<<writer, call>>`. The file system keeps what
processes see (`path`, `data`) and what may be found after a power loss (`onDisk`, the
files the directory entry may name; `synced`, the files whose content is durable).
`PowerLoss` picks any directory entry the disk may hold and cuts any unsynced content
short; `Kill` runs no deferred call. That a rename is atomic, and that an fsync does what
it says, are the assumptions about the operating system.

### 2.3 `Report` and `Runner`

A document is a set of findings; a finding keeps code, resource, part, severity, rule,
section and whether it is acknowledged: the fields that decide fingerprints,
correlation keys and which unavailable rule speaks for a finding. `Diagnoses` are the
documents one round can produce: each rule is evaluated, evaluated in part, or skipped,
and each subject is in any state. The comparison and flap operators follow the Go
functions one by one.

`Runner` has one action per step of a round in the order of `prepare` and `finish`.
A diagnosis is one step, which `ImplementsClusterView` justifies for the part that is
concurrent. Every I/O step has a failing branch, and any failure ends the process
through `Run`'s return value and main's exit status. `Send` may fail after the receiver
acted. `Start` is the next scheduled run or the operator restarting a watch: only the
database and the files outlive a process. `Interrupt` and `Kill` may come at any point;
`OtherTargetAppends` is another installation that uses the same database. `known` is the
history variable that says what the evaluations on record have established so far:
the last document's findings, and those of before that it could not look at. `db` holds this
target's records, newest last, each with the number of newer ones in the whole database;
records of other targets matter only by that number, since retention (`Prune`) counts them
all. `remembered` is what of `known` the documents of the comparison show, and `turns` counts how
often a code turned up on a resource or left it between evaluations: both are history variables
for one property each.

### 2.4 `Acknowledge`

`Init` chooses a dependency graph, the findings, a baseline and whether a history database
is configured. Then `Correlate`, `ApplyRule` (one iteration of `Apply`'s loop over the
rules), `Propagate` (its loop over the root causes), `CorrelateAgain` and `Prepare`
follow the program, and `Midnight` may fall between any two steps. `State.Add` resets the
root causes whenever it adds a finding; `AddExpired` and `RootsAfter` model where that
matters. `Propagated` copies root after root, as the loop does, so a finding that is a symptom
of one cause and the cause of others hands on what it was given. `Descendants` follows the
breadth-first search level by level, also on graphs with cycles; `ReachedIsLeast` proves that
it is what the edges reach and nothing else. Left out: texts, and the key on an edge, by which
a cause `MISSING_KEY` reaches only the consumers of its key.

### 2.5 `ConnectTargets` and `PortForward`

`ConnectTargets` follows `targetsAt`: the probes of the containers and sidecars, then the
ports no probe covers, then, if there are none, the ports that Services suggest, then the
Services' own targets with the request of the probe they meet. `Preflight` is
`CheckSnapshot`. A request is a path and the rest of it; `CheckSignature` is what makes two
requests equal.

`PortForward` has one action per step of `checkTargets` and `checkOne` (`Check`), of the
forwarder (`Forwarder(k)`) and of the context watcher (`Watch(k)`). `tunnels` keeps a record
for every port-forward, also those whose check is over: its channels are the fields `stop`
(how often it was closed), `ready`, `errors` (how many are in the buffer) and the forwarder's
being `ended` (done). Go's `select` is one action per case. client-go is external and
modelled by its order: dial, listen, close ready, then wait for stop or for the loss of the
connection; it looks at stop only there. `DialWedges` is the dial that never returns, the
case the comment on `cleanup` names. `ForwardShutdownTimeout` lets the timer win at any time.

Two assumptions about time: the kubelet's refusal arrives before `remoteSettleTimeout`, and
a server that answers does so before the request's timeout. Left out: the checks an operator
types in afterwards (`ManualTarget`, `NextLocalPort`) and the printed commands.

### 2.6 `SnapshotScope`, the rules, and `Diagnosis`

A snapshot is a record of lists, the namespace it was collected in, and the keys that
failed. `Available` is the question rules ask about a key before they take absence for a
fact. Lookups by name (`Found`) go through an index that the first of them builds, and that
the narrowing has to drop. `Scope` is `scopeSnapshotToSelectedPod`: the Services
that select the Pod or that it mentions, the targets of aliases, its endpoints, the
Ingresses that use those Services, and its own ConfigMaps, Secrets, claims and classes. It
walks the Services in the order of their list, as the code does (`FollowAliases`); a list that
was filtered keeps the positions of what is left (`Filtered`).

The three rule modules translate the rules whose verdict is "does not exist", "does not
match" or "is not reached": Services with their endpoints, ports and aliases; references
and environment values of a Pod; ConfigMaps, Ingresses, claims, volumes, policies, budgets
and admission webhooks; Gateways and HTTPRoutes. Labels are sets of pairs, host names are
sequences of labels, a DNS name in the environment is a record that says which of its
forms it has.

`Diagnosis` collects a cluster with any of `Failures` (a failed list still holds its first
page), narrows the snapshot in select mode, or refuses when the Pod is gone, and takes one
action per rule: `RunRule`, `ReportUnavailable` or `SkipRule`, with the metadata the code
declares. The cluster does not change meanwhile; that is the subject of `Session`.

### 2.7 `Configuration`, `Guide`, `PodScreen` and `Session`

A configuration is a record with a field per setting and the set of those that are
`explicit`: given in the file, on the command line or in the editor. Only these are saved,
and several rules of `Validate` only apply to them. `Parsed` is the start: defaults, the
settings file, the profile of the command word, the flags, in the code's order;
`PrepareMode` and `Profile` clear what a mode has no use for; `With` sets one value and
`Validate` judges the whole. Paths are compared as the code does (`SamePath`): with `~`
expanded, symbolic links followed, and two existing files asked whether they are one
(`Home`, `Canonical` and `Inode` are constants).

`Guide` has one action for each thing an operator can do on a menu. A save (`EnterSetting`) has
three outcomes. `SaveINI` may fail before its rename, and nothing has changed; or after it, in
opening, syncing or closing the directory: then the editor keeps the old configuration while the
file holds the new one, which the history variable `unconfirmed` remembers. `PodScreen` has one
for each key: a turn of the loop, up to the next drawing, which clamps the highlighted line.

`Session` puts them together with `Run`: `Start`, loading the inputs, preflight, the first
snapshot, the screen, the fresh snapshot with `StillTheSame` (`resolveSelectedPod`),
the report and its files, and the menu of `kubectl debug` with the look at the Pod before
it. A terminal that cannot be read or written ends guide and screen with status 1
(`GuideFails`, `ScreenFails`), which nothing forces it to do. `Change` recreates, stops or deletes a Pod between any two steps; `Signal`
and `InputEnds` come at any point. `target` is the Pod that was chosen, `diagnosed`
and `debugged` the UIDs of those that were looked at and changed, `calls` the outside
systems that were asked. What the diagnosis finds is left to `Diagnosis`.

## 3. What TLC checks

Every property has a mutant in `PROJECT.json`: a change to one mapped definition, of the
kind a refactoring could bring in, under which TLC finds the property violated.

### `collect` (`MCCollect.cfg`)

Keys `pods`, `all_pods` and one optional key with two API versions; two workers; lists of
up to two pages; one Warning text; Dates 1 and 2; two collections; all requested subsets
and both scopes. Two pages make the only distinction that matters, the first page and
a later one; two rounds show what one collection leaves to the next; three tasks on two
workers make the loop block.

| property | says |
|---|---|
| `AvailableMeansWhole` | a key has status ok only if its list was read to the end |
| `FailuresAreIsolated` | without an interrupt, a key is unreadable only if its own request failed |
| `RecordersServeTheirRound` | the clock is the latest Date of this collection, and no Warning is lost, those of the preflight included |
| `CollectReturns` | a collection that started returns |
| `ImplementsClusterView` | a collection is one atomic read: exactly the requested keys have a status, whole lists only are ok, and cluster-wide both Pod views come from one request |

*Fairness*: weak, of the collecting goroutine and of each worker. The Go scheduler runs
every runnable goroutine, and `rest.Config.Timeout` ends every request, so a worker is
never stuck inside one. Beginning a collection and interrupting it are not fair.

### `atomic_write` (`MCAtomicWrite.cfg`)

Two writers, two calls each, two kills or power losses. Two calls let a confirmed write be
followed by a failing one; two crashes let a power loss follow a kill.
`NeverTorn`: whoever opens the path reads one whole document. `ConfirmedWritesSurvive`:
after `nil` no power loss takes the path back to an older document (not on Windows, where
the code does not sync the directory). That a file the path has named is never written
again, so that a reader that has it open is safe too, is proved (`OpenedFilesAreFrozen`).

### `runner` (`MCRunner.cfg`)

One rule, one code, one resource; severities issue and warning; a watch with and without
a database, a scheduled run with database and snapshot file, a `--diff` run with a report
file, a recording run with `--exit-zero`; `HistoryWindow` 3, flap threshold 2, retention 4;
three diagnoses, no two unavailable ones in a row on record (`MaxUnknown`), one run of another
target between two records of this one (`MaxOthers`), one kill. Three rounds are the shortest
history for "abnormal, unknown, abnormal"; window 3 is the smallest that remembers two
documents. `MaxUnknown` counts evaluations that reached the record, not diagnoses: a complete
diagnosis whose append failed ends no gap. Retention 4 is the smallest
that keeps an issue across one gap with a foreign run before and after it.

| property | says |
|---|---|
| `NotAnnouncedAgain` | the webhook hears no issue that the evaluations on record already had, as far as the documents compared with still show it (`Shown`) and its rule does not misfile |
| `NothingNewIsMissed` | with something to compare with, it hears every other unacknowledged issue |
| `EvidenceComesFirst` | what it was told is in the files, and in the database unless other targets pushed it out |
| `FlapsAreChanges` | a trend on record is about a code that turned up and went as often as the threshold says, between evaluations: an outage, a skipped record, a failed round or a restart is no change |
| `ExitStatusTellsWhy` | interrupt, failure and findings are told apart; findings never end a watch |

`Shown` are the known issues that some document of the comparison has, with no other finding of
the code on the resource in it or later. Outages and retention decide what that is; the section
on disagreements says when it is less than the README promises.

### `runner_rules` (`MCRunnerRules.cfg`)

Issues only, two diagnoses, retention 3, and two codes of one rule, of which one is filed in the
section that the rule declares and one in another, as `runtime-dependencies` does.

| property | says |
|---|---|
| `ResolvedMeansEvaluated` | what is reported resolved although its rule could not look is only what a rule misfiles |
| `InterruptEndsTheRun` | an interrupt ends the program, wherever it arrives |

*Fairness*: weak, of the process as a whole: it is scheduled, and requests, the database
(`busy_timeout`) and the webhook (`http.Client.Timeout`) all give up. Waking a watch, starting a
run, signals and kills are not fair. That the `select` of the sleep may choose the timer when the
context is done too is in the model (`Wake` has no guard on `cancelled`); the next round's first
check then ends the watch.

### `acknowledge` (`MCAcknowledge.cfg`)

A ConfigMap, two Pods, a ReplicaSet, a Deployment and a Job; graphs that miss one reader or
up to two owners, and one in which the ConfigMap that a Pod reads is controlled by it; every
subset of six findings and of the degraded states; twelve baselines, with approvals
that are limited to a workload, expired, or expire at midnight; two days.
The whole pipeline is finite here, so the deadlock check is on and `Finished` is the only
way to stop.

| property | says |
|---|---|
| `OnlyThroughAnApproval` | an acknowledgement comes from an approval valid at the start, that covers the finding or one upstream of it |
| `ApprovalStaysInItsWorkloads` | an approval limited to workloads reaches nothing that touches another, not by propagation either; of ReplicaSets without an owner it is only asked where it is applied |
| `SymptomsFollowTheirCause` | what is related to an acknowledged cause is acknowledged (condition: see the finding below) |
| `SecondPassKeepsTheFirst` | the second pass takes back nothing, and acknowledges no further issue or warning of the first |

The properties say what the code keeps to; what it does beside them shows in the conditions.
`BaselineWorkloadResolver` looks at ReplicaSets only where it reaches no top-level workload: a
dependency shared by a Deployment and a ReplicaSet without an owner is approved for the
Deployment alone, and the ReplicaSet's symptoms with it. Logs of a Pod are chained below its
cause and are related to what is upstream of both. When a
finding is related to two causes the second pass may hand it the other one's approval. A
resource that depends on itself (`OnACycle`) becomes a symptom of its own symptom, and then the
last two properties fail; a Pod that reads an object it controls is enough.

### `port_forward` (`MCPortForward.cfg`)

Four Pods (two probes with one request and a startup probe that is over; two containers with
one port name; probes that are waiting, unresolvable or bound to a host, beside a sidecar;
nothing declared at all), Services by name and number, endpoints read, stale, legacy or not
read, with and without `--connect-path`, random, sufficient and insufficient ports, five kinds
of server. Two tunnels are open at most: the second is enough to meet a leftover of the first.

| property | says |
|---|---|
| `ResultsTellTheTruth` | a result, shared or not, is true of its own port and request, unless an interrupt or a lost tunnel turned it into a failure |
| `WarningsAreObservations` | a warning needs a tunnel that was open, and one request raises one warning |
| `ChecksEnd` | the checks end; a hanging dial holds them up only until an interrupt |
| `NothingIsLeftBehind` | forwarder and watcher end, unless the dial hangs |

*Fairness*: weak, of the caller, of each forwarder and of each watcher. The Go scheduler runs
them, local dials, reads and HTTP requests have timeouts, and a dial that does not hang is
ended by `portForwardTimeout`. Losing a connection and the interrupt are not fair.

The model also shows what the properties had to allow for. An interrupt or a tunnel lost
between ready and the probe is reported as a failure of the Pod, with low confidence. And a
Pod result that could not be obtained, say because the local port was taken, is shared with
the Service target all the same, as untested.

### `diagnosis` (`MCDiagnosis.cfg`)

A Pod that refers to one object of every kind, with Services in front of it and behind it,
aliases of aliases in either order, a second namespace with a Service, a Gateway and an Ingress
of its own; 64 choices of which of six objects exist, with the endpoint
ready or not; cluster-wide, in one namespace, and narrowed to the Pod; eight sets of
lists that fail, with and without a first page. The eight are not all combinations, and
not every list fails in one of them: the Pods in both views, Services, endpoints in both forms,
Secrets, claims, and ConfigMaps together with the classes do. Of all others the theorems of
section 4 speak. The run is finite and the deadlock check is on.

| property | says |
|---|---|
| `AbsenceIsReal` | what is said not to exist, not to be selected or not to match does not exist, is not selected, does not match in the cluster |
| `NothingIsLostSilently` | what a complete collection would have shown is shown, or its rule reports that it could not look |
| `HalfAListInventsNothing` | what is reported on incomplete data would be reported on complete data |

Each of them has exceptions, which are definitions of their own
(`BeyondTheNarrowedView`, `JudgedOnOnePod`, `DroppedForALink`, `MayDiffer`), because the code
has them; without any one of them TLC finds the property violated.

* The narrowed snapshot keeps a whole Ingress but, of its backends, only the Services that
  are the Pod's; the others are reported as missing (`MISSING_SERVICE`).
* An alias of the Pod may lead to another namespace, whose Ingresses over the target are then
  kept. Secrets are kept of the Pod's namespace only, so the certificates of these Ingresses
  are reported as missing (`MISSING_TLS_SECRET`).
* It keeps one Pod, against which the peers of a NetworkPolicy are counted
  (`PEER_NO_MATCH`).
* `ServiceRule` does not name `all_pods` among its inputs: when that list fails, what the
  rule says of other Pods is lost without a report, or wrong (see `narrowed_view`).
* An alias that points to another alias is followed only if its target comes later in
  the list of Services (`select_scope.go:58`). An earlier one is kept as a name, its own target
  is not, and `EXTERNAL_NAME_TARGET_NOT_FOUND` says of an existing Service what the comment
  above the loop wants to avoid. The same goes for aliases kept for their endpoints alone.
* The narrowing follows claims to their volumes, and endpoints to Services and from these to
  Ingresses. When the list in between failed, the volume or the Ingress is dropped and nobody
  says so, for the rules over volumes and Ingresses do not declare that list.
* `envServiceFindings` trims a trailing dot of a short name (`runtime_dependency.go:135`);
  `selectedPodReferencesService`, which decides whether the Service is kept, knows the dot only
  on the full name (`select_scope.go:192`). Such a Service is kept for its endpoints or not
  at all, and when these failed, `STARTUP_NOT_GATED` is lost silently (`NamesWithADot`). The
  proof found this case; TLC did once a Pod had such a host.
* Some verdicts depend on lists that their rule only prefers: whether an endpoint terminates,
  a port that only an EndpointSlice resolves, a budget's counters without the Pods.

### `session` (`MCSession.cfg`)

Four Pods in two namespaces on a terminal of 23 lines, which shows three; one Pod changes,
at most twice; ten paths with a symbolic link, a hard link and a home directory; two
saved states; command lines for every mode, for replays inside and outside their
scope, for reports into colliding files; the guide and the editor over two
settings files, five settings to edit with wrong values, two settings saved, each of which may report
an error before or after the file was replaced. Two changes are the fewest that
fall before and after one of the looks at the Pod; three lines for four Pods make the window scroll.

| property | says |
|---|---|
| `ReplayStaysOffline` | a replay asks no cluster, no kubectl and no webhook, and records nothing in the history |
| `ReplayShowsTheRunThatSavedIt` | it shows the Pods that run would have seen when the state was saved, in the mode that was collected |
| `InputsSurvive` | no file a run writes is one of those it reads, or another one it writes, under whatever name |
| `ChoiceIsKept` | the Pod that is diagnosed and debugged is the one that was chosen, not another of its name |
| `ChoiceIsOnScreen` | the highlighted Pod is a Pod of the list and within the lines shown |
| `ProfilesAlwaysApply` | whatever was edited, every item of the root menu makes a valid configuration |
| `SavedIsWhatRuns` | the editor's settings are what the next start reads, but for the tuning that a mode drops; if the last save failed after it had replaced the file, all of what that save was to write is |
| `ScreensEndWithTheInput` | when the input has ended, the program ends |

*Fairness*: weak, of the program's own steps. While a screen waits for its operator and the
input is open, nothing is fair: an operator may think for ever. Once the input has ended every
read returns at once, so the steps of the screens are fair too. Signals, changes of Pods and
the end of the input are not.

`ChoiceIsKept` has one gap, the history variable `replaced`: between the last look at the Pod
and kubectl's own request the Pod can be recreated, and kubectl only takes a name.

### Where the code disagrees with what is written

Four runs state what a comment, a test or the program's README says, and TLC shows an
execution in which the code does something else. Each is one entry of `findings`, with
the quoted line.

* `two_parts`: two findings with one code and resource, such as two containers of a Pod,
  drop out of the correlation map; after one unavailable round both are announced again.
* `expired_approval`: reporting an expired approval resets the root causes that the rest of
  `Apply` works with; without a history database the symptoms of an acknowledged cause are
  not acknowledged.
* `narrowed_view`: when the list of all Pods could not be fetched, a Service the chosen Pod
  only refers to is matched against that one Pod and reported as selecting none, which is
  what the comment above the line wants to avoid.
* `saved_file_reloads`: choosing the mode for one Pod in the editor and going back leaves the
  flap threshold in force but no longer marked as given; a window that fits it is saved
  without it, and the next start refuses the file.

More disagreements are known from the models and have no run of their own; the
conditions below keep them out of the passing runs.

* A rule unavailable for `HistoryWindow - 1` rounds makes its known issue new again
  (`app.go:588`), while the README (line 254) promises reconfirmation without a limit. A shorter
  gap does not suffice either when other targets share the database, since retention counts
  their records too: one gap round and one foreign run between two records need four records to
  be retained. `NotAnnouncedAgain` asks for what the documents compared with still show.
* `runtime-dependencies` files findings under sections it does not declare
  (`runtime_dependency.go:23`, `:66`); when it is unavailable they count as resolved, and later
  as new. `runner_rules` has such a rule; `ResolvedMeansEvaluated` names its findings as the
  exception, and `MisfiledIsResolved` (section 4) proves that it is one. All of them are
  candidates in the code, so the webhook does not hear of them.
* The fallback of `matchWorkload` "for callers without a resource graph"
  (`baseline.go:233`) also serves a caller that has one, and an approval limited to a
  Deployment then covers a Pod without an owner.

`SymptomsFollowTheirCause` states as its condition when an approval has expired. One thing no document speaks of:
`config --no-config` starts from the defaults and saves over the settings file that
it did not read.

## 4. What is proved

The model checker covers one instance. TLAPS covers all of them, from the named
assumptions of the modules only. Where a theorem needs more, its statement says so.

`CollectProofs`, where `Keys` is finite and contains `pods` but not `all_pods`, `Optional`
keys are among the others, there is at least one version and one page, and `Workers` is any
integer, also zero or negative, since `Limit` clamps it:

| theorem | property |
|---|---|
| `TypeCorrect` | `TypeOK` |
| `WorkerLimitHolds` | `WorkerLimit`: never more than `Limit` lists at once |
| `AvailableMeansWholeHolds` | `AvailableMeansWhole` |
| `SnapshotIsComplete` | `EveryRequestAnswered` and `PodViewsAgree`, two of the three clauses of the contract |
| `InvariantHolds` | `CollectInv`, from which the four above follow |
| `CollectImplementsClusterView` | `ImplementsClusterView` |
| `FailuresAreIsolatedHolds` | `FailuresAreIsolated` |
| `RecordersServeTheirRoundHolds` | `RecordersServeTheirRound` |

None of these properties is inductive by itself. `EveryRequestAnswered` speaks of the end
of a collection, and nothing in it says what the channel holds just before. `CollectInv`
adds three facts:

* `Accounting`: every planned task is waiting, running, buffered or applied, and at
  exactly one of these places; outside the loop no worker is active; while workers run the
  snapshot has no status yet.
* `FinishedLists`: a list that ended without an error was read to its end. This is the
  paging loop's contribution, action by action.
* `AppliedLists`: what `Apply` wrote is what the worker of that key read, for the Pod list
  in both fields.

With them, `Return` finds the channel empty, so every planned key has a status, and the
alias adds the one key that has no task. The refinement follows: `Return` maps to a
collection of `ClusterView` whose view satisfies its contract, `Begin` hides the view,
every other step maps to a stutter. The counting lemmas under `WorkerLimit` (starting one
worker adds one to the cardinality of `Active`, an ending one takes one away) come from
`FiniteSetTheorems`.

The last two go over `FailureInv`: an error is the key's own from the page that failed to the
status (`ErrorsAreOwn`), since workers share nothing but the context, and what the recorders
hold is what this collection was told (`RecordersInStep`), for any number of Dates, which the
latest one replaces.

`AtomicWriteProofs`, for any number of writers, calls and crashes and for both values of
`Windows`:

| theorem | property |
|---|---|
| `TypeCorrect` | `TypeOK` |
| `NeverTornHolds` | `NeverTorn` |
| `ConfirmedWritesSurviveHolds` | `ConfirmedWritesSurvive` |
| `OpenedFilesAreFrozenHolds` | `OpenedFilesAreFrozen` |
| `InvariantHolds` | `WriteInv`, from which the four above follow |

`NeverTorn` only speaks of the file the path names now. A power loss may bring back any
file of `onDisk`, so the invariant must say of all `Published` files that they are whole
and synced (`PublishedFilesAreWhole`). A rename publishes one, so by then its call must
have written and synced it, and until then nobody else may have published it
(`CallsInOrder`). For `ConfirmedWritesSurvive` the renames are numbered: the path has the
highest number among those whose directory is about to be synced, and after the sync
nothing older is left on disk (`RenamesInOrder`). A power loss ends every call, so it
cannot fall between a rename and the sync that the same call makes.

`SessionProofs`, for any Pods, terminals, commands, files, edits and saved states. What a start
may meet is assumed in `Session` and `Guide`: flags are options, a settings file holds settings
its parser takes (`StartAssumption`; the parser refuses the file otherwise), a switch is typed
as a Boolean (`GuideAssumption`), each file that is named has a name in the file system
(`PathAssumption`) and a saved state is of the Pods (`SavedAssumption`).

| theorem | property |
|---|---|
| `HighlightIsOnScreen` | `ChoiceIsOnScreen` |
| `ChosenPodIsTheOne` | `ChoiceIsKept` |
| `ReplayNeedsNoCluster` | `ReplayStaysOffline` |
| `ReplayIsOfItsScope` | `ReplayShowsTheRunThatSavedIt` |
| `NoInputIsOverwritten` | `InputsSurvive` |
| `EveryItemLeadsOn` | `ProfilesAlwaysApply` |
| `EditsAreRead` | `SavedIsWhatRuns` |
| `TypesHold` | `TypeOK` |

* `ChoiceIsOnScreen` speaks of what is drawn; keys and a reload move the line before that.
  `ScreenInv` follows the line and the first line of the window from the drawing that clamps
  them (`DrawClamps`) over each key (`MovesStayInList`). `WindowHoldsLine` is the arithmetic
  of the window; it needs `PageIsPositive`, that a page has a line however low the terminal.
* `ChoiceInv` says what `diagnosed`, `debugged` and `replaced` may be at each step, from
  `resolveSelectedPod` to kubectl. Before a Pod is chosen (`Unchosen`) there is none.
* `ReplayStaysOffline` rests on the validation that forbids what cannot be replayed
  (`ReplayIsAlone`), so every configuration that runs must have been validated. The command
  line is, but the guide puts configurations together by itself: `ConfigInv` says that what it
  holds, and each outcome of its menus, is valid. `OfflineInv` then follows the calls.
* `ReplayShowsTheRunThatSavedIt` is about what was read; `ScopeInv` adds that nothing is read
  before the scope was compared, and that no later phase is reached by a replay of another
  scope.
* `InputsSurvive` rests on `ConfigInv` as well, since files may be named in the guide, and on
  `WrittenInv`: nothing is written that the configuration did not name. The code compares
  canonical paths and inodes, while a rename replaces a directory entry. `EntryAssumption`
  bridges them: two names of one entry, and an entry and a link to it, lead to one file. That
  both are defined for the paths of the run (`PathsKnown`) is part of `LineInv`.
* `ProfilesAlwaysApply` says that valid configurations stay valid under every command word,
  one for each combination of options that `Validate` refuses. `Applied` is what they have in
  common: a mode, values taken back to their defaults, settings explicit no longer.
  `AllIsValid`, `SelectIsValid`, `ListIsValid` and `TriageIsValid` go through the twelve parts
  of `Validate` for it; `UnattendedIsValid` and `DeepIsValid` are the command words with
  values of their own. What is switched on the screen of the options is not a profile, but a
  chain of edits, each of which is refused when its outcome is not valid; `OptionsApply` says
  that none is. That is false of an arbitrary valid configuration: without debug `Validate` does
  not look at the image, so one that is malformed, not explicit and not the default would be
  refused only once debug is switched on. `Settled` is what excludes it, a setting that is not
  explicit has its default, and `FormInv` carries it through the guide for the settings that
  no mode has for tuning (`EditsSettle`, `ProfileSettles`).
* `SavedIsWhatRuns` rests on the same: only explicit settings are saved, so what is not must
  be what the next start makes of its absence (`SavesAgree`). The exception, the tuning that
  a mode drops, is just what `Settled` cannot say of it. A save that failed after its rename is
  one more case: the file agrees with the configuration it was made from, which is kept in
  `unconfirmed` until a later save is confirmed.
* `TypeOK` needs that the Pod of the highlighted line exists. `Chosen` picks the Pod with as
  many others before it as there are lines above; `PlacesAreTaken` counts the Pods below a
  number that grows, which goes up by one at a time and so leaves out no place. The
  configurations are the ones of the profiles again, now valid or not, since `Parsed` is
  formed before it is judged (`ParsedIsFormed`).
* The proof found that the cases of `Prompted` overlapped, where a value that the parser
  refuses was one of them: a `CASE` with two true guards may take either. TLC takes the first,
  and so did not show it. In the code no refused value changes anything, so the refusal now
  comes before the cases.

`RunnerProofs`, for any rules, codes, resources, configurations, window, retention, number of
rounds, kills and records of others:

| theorem | property |
|---|---|
| `TypeCorrect` | `TypeOK`, with the bound that retention puts on the database |
| `EvidenceComesFirstHolds` | `EvidenceComesFirst` |
| `ExitStatusHolds` | `ExitStatusTellsWhy` |
| `ResolvedHolds` | `ResolvedMeansEvaluated` |
| `MisfiledIsResolved` | the exception in it is real: what a rule misfiles is resolved once that rule cannot run |
| `NothingNewIsMissedHolds` | `NothingNewIsMissed` |
| `NotAnnouncedAgainHolds` | `NotAnnouncedAgain` |
| `EveryFindingIsCounted` | each finding of a round is in one list of its difference, once |
| `NothingIsForgotten` | each earlier finding is paired, unknown or resolved, and only one of these |

* `TypeOK` bounds how many newer records a kept one has; after the next append that bound holds
  only because the pruning works from the old end. `InOrder` says that records further back
  have more newer ones, so `Prune` drops the oldest and keeps a suffix (`PrunedRecords`).
* `EvidenceComesFirst` speaks of rounds that have sent something. `WrittenSoFar` says what
  `finish` has written when it arrives at each of its steps, `NothingIsSent` that nothing has
  been sent before; `NewestIsRecent`, that only runs of other targets age the newest record,
  gives the property its exception.
* `ExitStatusTellsWhy` speaks of the status only; `ReturnTellsWhy` is the same of the value
  that `Run` is about to return.
* `ResolvedHolds` needs no invariant but the types: a missing finding is resolved when no
  unavailable finding speaks for its section, so its rule, if it files there, was evaluated
  (`ResolvedWasEvaluated`).

This theorem and those that follow assume that rules have names and that none has one of the
three codes under which the program itself reports (`CodesAreTheRules`); the registry's keep to it.

`NothingNewIsMissed` compares a payload with all
that has been learned over any number of rounds, while the code compares two documents, or the
records that retention has left. What connects them is `Covered`: what a kept document found,
and no later kept document was able to look at and missed, is known. A new document
preserves it (`CoveredWithANewDocument`), and so does dropping old ones (`CoveredSuffix`).
`KeptIsKnown` states it of the database and of the documents of the watch, before and after
`Record` has taken the new one in. So whatever the comparison calls something other than new
is known (`NothingKnownIsCompared`), and `PayloadHasTheNews` carries the rest into the payload
and to the webhook.

`NotAnnouncedAgainHolds` is the converse, for arbitrary outages, retention, parts and rules,
misfiling ones included.

* A document may fail to show an issue that is known only if its rule could not look (`Gap`).
  `Traced` says that every known issue that some kept document has is in one with nothing but
  gaps after it: a document that misses it without a gap makes it unknown to `known` as well.
  `Told` is both, `Covered` and `Traced`, and a new document, the same document again and
  dropping old ones preserve it.
* So the walk back over the gaps finds the issue among the documents compared with
  (`TheWalkFindsIt`), and its pair is not new (`KnownIsNotAnnounced`). That the walk looks at
  the finding itself, and not at one that shares its code and resource, is the condition in
  `Shown`; what a finding of a misfiling rule would be taken for is the other one.
* `PayloadIsNew` carries the conclusion from the comparison to the webhook.

`EveryFindingIsCounted` is about the document as a whole: whatever a round is compared with, no
finding is lost between the lists of the difference or counted in two of them, after history has
taken findings out of the new ones as well. The exception is an unavailable finding, which may
only explain why an earlier one is unknown. It needs that findings of a kept document have
different fingerprints (`DistinctDocuments`) and a lemma for each way to be compared
(`CompareCounts`, `CompareHistoryCounts`). `NothingIsForgotten` says the same of the earlier
document, for the comparison of any two: nothing that was reported disappears without being
resolved or unknown.

`PortForwardProofs`, for any Pod, Services, endpoints, options and ports, if what is active
among the targets has a port number and is asked over TCP or HTTP (`SituationsAssumption`,
which TLC evaluates on the situations of the run):

| theorem | property |
|---|---|
| `TypeCorrect` | `TypeOK`, with "stop is closed once" and "errors holds one" |
| `ResultsTellTheTruthHolds` | `ResultsTellTheTruth` |
| `WarningsAreObservationsHolds` | `WarningsAreObservations` |

A result is written down some steps after it was observed, and may be handed on to another
target later, so the invariant follows it from the tunnel to the report. `TunnelsAreSound`: what
was ready and no longer serves was lost or stopped, and until the caller leaves, only an
interrupt stops its tunnel; hence a refused dial means one of the two. `VerdictTells` is the
truth of a verdict from the moment it is reached, and stays (`TellsStays`) when the tunnel is
lost later. `CheckedTell`: what is kept for sharing answers the request it is kept under;
with the port in `CheckSignature`, the truth carries over to the Service's target.
`FindingsTell`: a tunnel has one warning at most, since no result has the tunnel of the
check that is under way. The goroutines of checks that are over do not disturb any of it
(`TunnelStep`).


`AcknowledgeProofs`, for any resources, dependency graphs, findings, degraded states, baselines
and days. The assumptions are what `model.Finding` and the loader of baselines guarantee:
findings that `RootBefore` cannot tell apart are the same, and the rules of a baseline have
different IDs.

| theorem | property |
|---|---|
| `ReachedIsLeast` | the search finds the smallest set that holds its start and is closed under the edges |
| `TypeCorrect` | `TypeOK` |
| `OnlyThroughAnApprovalHolds` | `OnlyThroughAnApproval` |
| `ApprovalStaysInItsWorkloadsHolds` | `ApprovalStaysInItsWorkloads` |
| `SymptomsFollowTheirCauseHolds` | `SymptomsFollowTheirCause` |
| `SecondPassKeepsTheFirstHolds` | `SecondPassKeepsTheFirst` |

* The search goes `Cardinality(Resources)` levels deep; that this is enough is a counting
  argument (`DescendantsAreReached`: a level that adds nothing is the last, and each other one
  adds a resource).
* The first two properties do not survive a copy by themselves, since a finding that was given
  an acknowledgement may be a cause and hand it on. `Justified` is what does: it speaks of
  approved findings upstream, and upstream is transitive (`ReasonsPassDown`).
* The second Apply may find the roots gone, the approvals expired meanwhile, or new trends. So
  `AcknowledgeInv` also says which approvals are known to have expired (`ExpiredKnown`), when
  the roots are those of the reported findings (`RootsIntact`) and that a rule gone through a
  second time finds nothing (`NothingLeft`). That root after root leaves every symptom
  of an acknowledged cause acknowledged (`CopiesReachSymptoms`) holds in whatever order the
  roots come, for a cause that is given an acknowledgement after its own turn gets it from a
  root whose symptoms include the cause's own (`RelatedFacts`). That needs an acyclic graph.

`DiagnosisProofs`, for any clusters, command lines, failed lists and first pages, if objects
have one name each, a Pod has a namespace, its references are to the kinds the API knows, and
the mark for what a Secret holds is no ConfigMap's data (`ClustersAssumption`):

| theorem | property |
|---|---|
| `AbsenceIsRealHolds` | `AbsenceIsReal` |
| `TypeCorrect` | `TypeOK`: in select mode the rules see the chosen Pod and no other |
| `NothingIsLostHolds` | `NothingIsLostSilently` |
| `HalfAListHolds` | `HalfAListInventsNothing` |
| `DiagnosisInvHolds` | what the rules see was collected, and narrowed in select mode; the findings are what the rules that have run make of it |

* A rule concludes from a lookup that found nothing. `Sound` says of a snapshot that this is
  safe: a list that is available and that some rule looks up names in holds every object of
  such a name. Collecting gives it (`CollectedIsSound`), whether a failed list holds its first
  page or nothing, since it is not available then.
* Narrowing keeps it (`NarrowedIsSound`), list by list: `PodDependencies` names nothing that
  `ReferencedNames` did not keep (`ReferencesOfAPod`), two functions of the code that walk the
  same Pod separately; a host in its environment is kept by the same `MentionsService`;
  and `FollowAliases` keeps the target of every own alias wherever it stands in the list
  (`AliasesFollowed`, over the pass as a recursion).
* What the narrowed view lacks are the Services, Pods and Secrets of `BeyondTheNarrowedView`;
  `WholeView` is what the other modes have in addition, for policies, Ingresses and Gateways.
* `EvaluateAbsence` then goes through the thirteen rules, with `RequiredInputs` for what
  `Registry.Run` has checked before.
* The other two properties set one run against another, in which nothing failed. `Compared`
  says what the two snapshots have in common (`ViewCompared`): lists that are available are
  equal, those that the narrowing keeps for the sake of other lists when these are available
  too, and where neither is so, the names that some rule looks up are in both or in neither.
  Of collected snapshots it follows list by list. Of narrowed ones it needs that keeping is
  monotone: fewer endpoints lead to fewer Services, and the pass over the aliases, starting
  from fewer names, keeps no more (`AliasesOfFewer`), but keeps the same own targets.
* From `Compared` each rule has a lemma of its own: `SameDependencies`, `SamePolicies`,
  `SameWebhooks`, `SameGateways`, `SameStorage`, `SameVolumes`, `SameServices`,
  `SameIngresses`, `SameRuntime`, `SameBudgets` and `SameConfigMaps` say that it reports the
  same once its required and optional inputs were read; `ServicesInventNothing` and
  `IngressesInventNothing`, and the second halves of the others, what it may report when only
  the required ones were. `RuleLosesNothing` and `RuleInventsNothing` put them together, and
  `MissingInputsAreAdmitted` is what `Registry.Run` adds.
* `SameConfigMaps` needs that a source of the environment that overrides another is the same
  one on both snapshots: the last of the later sources that set the variable exists
  (`LastExists`) and is unique.

`Recursion` derives induction over the naturals from the well-foundedness of `<`, for a set
instead of an operator, and from it that a function defined by recursion exists and is unique.
The proofs about the search, the copies and the aliases rest on it.

Only model-checked are the liveness properties, since fairness and `ENABLED` are out of reach of
the provers: `CollectReturns`, `InterruptEndsTheRun`, `ChecksEnd`,
`NothingIsLeftBehind` and `ScreensEndWithTheInput`.

## 5. Not modelled, and why

* The rules over one object (Pod states, workload conditions, scheduling, nodes, jobs,
  probes): pure functions of one object's fields with no order, failure or memory in them.
  What the models need of them is which could be evaluated.
* JSON, SARIF, JUnit, Mermaid and DOT output, rendering, help: layout.
* Masking and the analysis of logs: regular expressions over text. The Pod score: a
  weighted sum that orders a list.
* The characters of INI files and flags, and the construction of the Kubernetes client: I/O.
  `Configuration` starts from what parsing yields.
* The shortest paths of the correlation, which only appear in texts: `Acknowledge` has the
  levels of the search and the set they reach.
* The RBAC generator: YAML from a table.
* Two processes of one target on one database. Each loads, diagnoses and appends; both may
  announce the same new issue, and no document says otherwise.
* Manual connection targets, restart growth, the comparison of root causes.

## 6. What could follow

1. Two processes between `history.Load` and `Append`, over an abstract log.
2. The keys on the edges of the dependency graph.
3. The scheduling rule (requests, taints, affinity) against a reference definition.
4. The comparison of root causes between two documents.
