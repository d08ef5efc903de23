----------------------------- MODULE AtomicWrite -----------------------------
(***************************************************************************)
(* report.WriteAtomic, the one way this program writes a file that others  *)
(* read: result snapshots, structured reports, cluster snapshots and RBAC  *)
(* manifests.  Several processes may write the same path (scheduled runs   *)
(* overlap); a process may be killed and the machine may lose power        *)
(* between any two system calls.  The file system is the environment: it   *)
(* keeps a cached view, which processes see, and what the disk may hold,   *)
(* from which the cached view is rebuilt after a power loss.               *)
(***************************************************************************)
EXTENDS Integers, FiniteSets

CONSTANTS
    Writers,        \* processes that write the path
    MaxWrites,      \* bound: calls of one process
    MaxCrashes,     \* bound: kills and power losses together
    Windows         \* runtime.GOOS = "windows": the directory is not synced

ASSUME WritersAssumption == "seed" \notin Writers
ASSUME BoundsAssumption ==
    MaxWrites \in Nat /\ MaxCrashes \in Nat /\ Windows \in BOOLEAN

VARIABLES
    pc,             \* next system call of each writer
    calls,          \* calls each writer has begun
    err,            \* the error that the running call will return
    path,           \* the file the path names
    onDisk,         \* the files the path may name after a power loss
    temps,          \* files that still have their temporary name
    data,           \* cached content of each file
    synced,         \* files whose content an fsync made durable
    renamed,        \* history: number of the rename that published a file
    renames,        \* history: renames so far
    confirmed,      \* history: files whose call returned nil
    crashes

vars == <<pc, calls, err, path, onDisk, temps, data, synced, renamed, renames,
          confirmed, crashes>>

process == <<pc, calls, err>>
directory == <<path, onDisk, temps>>
content == <<data, synced>>
history == <<renamed, renames, confirmed>>

\* A file is named after the call that created it; "seed" was there before.
Seed == <<"seed", 0>>

Files == (Writers \X (1..MaxWrites)) \union {Seed}

File(w) == <<w, calls[w]>>

Contents == {"empty", "part", "whole"}

Steps == {"idle", "write", "sync", "close", "rename", "openDir", "syncDir", "closeDir",
          "remove"}

-----------------------------------------------------------------------------
(* WriteAtomic, one action per system call *)

CreateTemp(w) ==
    /\ pc[w] = "idle"
    /\ calls[w] < MaxWrites
    /\ calls' = [calls EXCEPT ![w] = @ + 1]
    /\ err' = [err EXCEPT ![w] = FALSE]
    /\ \/ /\ pc' = [pc EXCEPT ![w] = "write"]
          /\ temps' = temps \union {<<w, calls[w] + 1>>}
       \/ UNCHANGED <<pc, temps>>                           \* returns the error
    /\ UNCHANGED <<path, onDisk, content, history, crashes>>

\* A system call succeeds and the next one follows, or the call returns its
\* error through the deferred os.Remove.
Continue(w, next) ==
    /\ pc' = [pc EXCEPT ![w] = next]
    /\ UNCHANGED <<calls, err>>

\* Mutant: an error ends the process on the spot.
FailForGood(w) ==
    /\ pc' = [pc EXCEPT ![w] = "exited"]
    /\ err' = [err EXCEPT ![w] = TRUE]
    /\ UNCHANGED calls

Fail(w) ==
    /\ pc' = [pc EXCEPT ![w] = "remove"]
    /\ err' = [err EXCEPT ![w] = TRUE]
    /\ UNCHANGED calls

WritePart(w) ==
    /\ pc[w] = "write"
    /\ data[File(w)] = "empty"
    /\ data' = [data EXCEPT ![File(w)] = "part"]
    /\ UNCHANGED <<process, directory, synced, history, crashes>>

Write(w) ==
    /\ pc[w] = "write"
    /\ \/ /\ data' = [data EXCEPT ![File(w)] = "whole"]
          /\ Continue(w, "sync")
       \/ Fail(w) /\ UNCHANGED data
    /\ UNCHANGED <<directory, synced, history, crashes>>

\* Mutant: the temporary file is not synced before it is renamed.
NoSync(w) ==
    /\ pc[w] = "sync"
    /\ Continue(w, "close")
    /\ UNCHANGED <<directory, data, synced, history, crashes>>

Sync(w) ==
    /\ pc[w] = "sync"
    /\ \/ /\ synced' = synced \union {File(w)}
          /\ Continue(w, "close")
       \/ Fail(w) /\ UNCHANGED synced
    /\ UNCHANGED <<directory, data, history, crashes>>

Close(w) ==
    /\ pc[w] = "close"
    /\ Continue(w, "rename") \/ Fail(w)
    /\ UNCHANGED <<directory, content, history, crashes>>

Rename(w) ==
    /\ pc[w] = "rename"
    /\ \/ /\ path' = File(w)
          /\ onDisk' = onDisk \union {File(w)}
          /\ temps' = temps \ {File(w)}
          /\ renames' = renames + 1
          /\ renamed' = [renamed EXCEPT ![File(w)] = renames + 1]
          /\ Continue(w, IF Windows THEN "remove" ELSE "openDir")
       \/ Fail(w) /\ UNCHANGED <<directory, renamed, renames>>
    /\ UNCHANGED <<content, confirmed, crashes>>

OpenDir(w) ==
    /\ pc[w] = "openDir"
    /\ Continue(w, "syncDir") \/ Fail(w)
    /\ UNCHANGED <<directory, content, history, crashes>>

\* Mutant: the parent directory is opened and closed but not synced.
NoSyncDir(w) ==
    /\ pc[w] = "syncDir"
    /\ Continue(w, "closeDir")
    /\ UNCHANGED <<directory, content, history, crashes>>

\* The directory is closed whatever Sync returned; its error is kept.
SyncDir(w) ==
    /\ pc[w] = "syncDir"
    /\ pc' = [pc EXCEPT ![w] = "closeDir"]
    /\ \/ onDisk' = {path} /\ UNCHANGED err
       \/ err' = [err EXCEPT ![w] = TRUE] /\ UNCHANGED onDisk
    /\ UNCHANGED <<calls, path, temps, content, history, crashes>>

CloseDir(w) ==
    /\ pc[w] = "closeDir"
    /\ Continue(w, "remove") \/ Fail(w)
    /\ UNCHANGED <<directory, content, history, crashes>>

\* The deferred os.Remove: a no-op once the rename took the name away.
RemoveTemp(w) ==
    /\ pc[w] = "remove"
    /\ temps' = temps \ {File(w)}
    /\ confirmed' = IF err[w] THEN confirmed ELSE confirmed \union {File(w)}
    /\ Continue(w, "idle")
    /\ UNCHANGED <<path, onDisk, content, renamed, renames, crashes>>

Call(w) ==
    \/ CreateTemp(w) \/ WritePart(w) \/ Write(w) \/ Sync(w) \/ Close(w)
    \/ Rename(w) \/ OpenDir(w) \/ SyncDir(w) \/ CloseDir(w) \/ RemoveTemp(w)

-----------------------------------------------------------------------------
(* The environment *)

\* A killed process runs no deferred call; the next run starts afresh.
Kill(w) ==
    /\ pc[w] # "idle"
    /\ crashes < MaxCrashes
    /\ crashes' = crashes + 1
    /\ pc' = [pc EXCEPT ![w] = "idle"]
    /\ UNCHANGED <<calls, err, directory, content, history>>

\* The page cache is gone: what no fsync covered may be missing or cut short,
\* and the path names any of the files the disk may still hold for it.
PowerLoss ==
    /\ crashes < MaxCrashes
    /\ crashes' = crashes + 1
    /\ pc' = [w \in Writers |-> "idle"]
    /\ path' \in onDisk
    /\ onDisk' = {path'}
    /\ data' \in [Files -> Contents]
    /\ \A f \in Files :
         /\ f \in synced => data'[f] = data[f]
         /\ data'[f] = "whole" => data[f] = "whole"
         /\ data[f] = "empty" => data'[f] = "empty"
    /\ UNCHANGED <<calls, err, temps, synced, history>>

Init ==
    /\ pc = [w \in Writers |-> "idle"]
    /\ calls = [w \in Writers |-> 0]
    /\ err = [w \in Writers |-> FALSE]
    /\ path = Seed
    /\ onDisk = {Seed}
    /\ temps = {}
    /\ data = [f \in Files |-> IF f = Seed THEN "whole" ELSE "empty"]
    /\ synced = {Seed}
    /\ renamed = [f \in Files |-> 0]
    /\ renames = 0
    /\ confirmed = {}
    /\ crashes = 0

Next ==
    \/ \E w \in Writers : Call(w) \/ Kill(w)
    \/ PowerLoss

Spec == Init /\ [][Next]_vars

-----------------------------------------------------------------------------
(* Properties *)

TypeOK ==
    /\ pc \in [Writers -> Steps]
    /\ calls \in [Writers -> 0..MaxWrites]
    /\ err \in [Writers -> BOOLEAN]
    /\ path \in Files
    /\ onDisk \subseteq Files
    /\ temps \subseteq Files
    /\ data \in [Files -> Contents]
    /\ synced \subseteq Files
    /\ renamed \in [Files -> Nat]
    /\ renames \in Nat
    /\ confirmed \subseteq Files
    /\ crashes \in 0..MaxCrashes

\* Whoever opens the path, at any moment, after any kill or power loss and
\* under any number of concurrent writers, reads one whole document.
NeverTorn == data[path] = "whole"

\* A file that the path has named is never written again: a reader that
\* opened it before it was replaced goes on reading the document it opened.
\* (A power loss leaves no reader.)
OpenedFilesAreFrozen ==
    [][\A f \in Files : (f = path \/ renamed[f] > 0) => data'[f] = data[f]]_vars

\* Once WriteAtomic returned nil no power loss takes the path back to an
\* older document.
ConfirmedWritesSurvive ==
    ~Windows => \A f \in confirmed, g \in onDisk : renamed[g] >= renamed[f]

-----------------------------------------------------------------------------
(* The inductive invariant behind the safety properties *)

\* The files that someone may have open or may find after a power loss.
Published == onDisk \union {f \in Files : renamed[f] > 0}

\* They are complete and durable, and the path names one of them.
PublishedFilesAreWhole ==
    /\ path \in onDisk
    /\ \A f \in Published : f \in synced /\ data[f] = "whole"

\* What a running call has established about its own file.
CallsInOrder ==
    \A w \in Writers :
        /\ pc[w] # "idle" => calls[w] >= 1
        /\ pc[w] \in {"write", "sync", "close", "rename"} =>
                File(w) \notin Published \union confirmed
        /\ pc[w] \in {"sync", "close", "rename"} => data[File(w)] = "whole"
        /\ pc[w] \in {"close", "rename"} => File(w) \in synced
        /\ \A n \in 1..MaxWrites : n > calls[w] => <<w, n>> \notin Published \union confirmed

\* A file that outlives a power loss is no older than a confirmed one, than
\* one whose directory entry is synced and, under the path, than one whose
\* entry is about to be.
RenamesInOrder ==
    /\ \A f \in Files : renamed[f] <= renames
    /\ \A w \in Writers :
         /\ pc[w] \in {"openDir", "syncDir"} => renamed[File(w)] <= renamed[path]
         /\ (~Windows /\ pc[w] \in {"closeDir", "remove"} /\ ~err[w]) =>
                \A g \in onDisk : renamed[File(w)] <= renamed[g]

WriteInv ==
    /\ TypeOK
    /\ PublishedFilesAreWhole
    /\ CallsInOrder
    /\ RenamesInOrder
    /\ ConfirmedWritesSurvive
=============================================================================
