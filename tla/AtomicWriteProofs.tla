-------------------------- MODULE AtomicWriteProofs --------------------------
(***************************************************************************)
(* Proofs about AtomicWrite for any number of writers, calls and crashes.  *)
(***************************************************************************)
EXTENDS AtomicWrite, TLAPS

USE WritersAssumption, BoundsAssumption DEF WritersAssumption, BoundsAssumption

-----------------------------------------------------------------------------
(* Types *)

\* A running call has a file, no two writers share one, and it is not the seed.
LEMMA FileOfACall ==
    ASSUME TypeOK, CallsInOrder, NEW w \in Writers
    PROVE  /\ pc[w] # "idle" => File(w) \in Files
           /\ pc[w] # "idle" => calls[w] \in 1..MaxWrites
           /\ \A v \in Writers : v # w => File(v) # File(w)
           /\ \A v \in Writers, n \in 1..MaxWrites : v # w => <<v, n>> # File(w)
           /\ \A n \in 1..MaxWrites : n # calls[w] => <<w, n>> # File(w)
BY DEF TypeOK, CallsInOrder, File, Files

\* Every system call keeps the types.
LEMMA CallTypes ==
    ASSUME TypeOK, CallsInOrder, NEW w \in Writers, Call(w)
    PROVE  TypeOK'
<1>1. pc[w] # "idle" => File(w) \in Files
  BY FileOfACall
<1>2. CASE CreateTemp(w)
  <2>1. <<w, calls[w] + 1>> \in Files /\ calls' \in [Writers -> 0..MaxWrites]
    BY <1>2 DEF CreateTemp, TypeOK, Files
  <2> QED
    BY <1>2, <2>1 DEF CreateTemp, TypeOK, Steps, content, history
<1>3. CASE WritePart(w)
  BY <1>3 DEF WritePart, TypeOK, Contents, process, directory, history
<1>4. CASE Write(w)
  BY <1>4 DEF Write, Continue, Fail, TypeOK, Contents, Steps, directory, history
<1>5. CASE Sync(w)
  BY <1>1, <1>5 DEF Sync, Continue, Fail, TypeOK, Steps, directory, history
<1>6. CASE Close(w)
  BY <1>6 DEF Close, Continue, Fail, TypeOK, Steps, directory, content, history
<1>7. CASE Rename(w)
  <2>1. (IF Windows THEN "remove" ELSE "openDir") \in Steps
    BY DEF Steps
  <2>2. pc' \in [Writers -> Steps] /\ err' \in [Writers -> BOOLEAN] /\ calls' = calls
    BY <1>7, <2>1 DEF Rename, Continue, Fail, TypeOK, Steps
  <2>3. /\ path' \in Files /\ onDisk' \subseteq Files /\ temps' \subseteq Files
        /\ renamed' \in [Files -> Nat] /\ renames' \in Nat
    BY <1>1, <1>7 DEF Rename, TypeOK, directory
  <2> QED
    BY <1>7, <2>2, <2>3 DEF Rename, TypeOK, content
<1>8. CASE OpenDir(w)
  BY <1>8 DEF OpenDir, Continue, Fail, TypeOK, Steps, directory, content, history
<1>9. CASE SyncDir(w)
  BY <1>9 DEF SyncDir, TypeOK, Steps, content, history
<1>10. CASE CloseDir(w)
  BY <1>10 DEF CloseDir, Continue, Fail, TypeOK, Steps, directory, content, history
<1>11. CASE RemoveTemp(w)
  BY <1>1, <1>11 DEF RemoveTemp, Continue, TypeOK, Steps, content
<1> QED
  BY <1>2, <1>3, <1>4, <1>5, <1>6, <1>7, <1>8, <1>9, <1>10, <1>11 DEF Call

LEMMA EnvironmentTypes ==
    ASSUME TypeOK, PowerLoss \/ \E w \in Writers : Kill(w)
    PROVE  TypeOK'
<1>1. ASSUME NEW w \in Writers, Kill(w)
      PROVE  TypeOK'
  BY <1>1 DEF Kill, TypeOK, Steps, directory, content, history
<1>2. CASE PowerLoss
  BY <1>2 DEF PowerLoss, TypeOK, Steps, history
<1> QED
  BY <1>1, <1>2

LEMMA TypeStep ==
    ASSUME TypeOK, CallsInOrder, [Next]_vars
    PROVE  TypeOK'
<1>1. CASE UNCHANGED vars
  BY <1>1 DEF vars, TypeOK
<1> QED
  BY <1>1, CallTypes, EnvironmentTypes DEF Next

-----------------------------------------------------------------------------
(* The published files *)

\* No call writes a file that somebody may have open, and every one of them
\* has its file written and synced before it publishes it.
LEMMA CallKeepsPublished ==
    ASSUME WriteInv, NEW w \in Writers, Call(w)
    PROVE  PublishedFilesAreWhole'
<1> USE DEF WriteInv
<1>0. /\ pc[w] # "idle" => File(w) \in Files
      /\ pc[w] \in {"write", "sync", "close", "rename"} => File(w) \notin Published
  BY FileOfACall DEF CallsInOrder
<1>1. CASE UNCHANGED <<path, onDisk, data, synced, renamed>>
  BY <1>1 DEF PublishedFilesAreWhole, Published
<1>2. CASE WritePart(w) \/ Write(w)
  BY <1>0, <1>2 DEF WritePart, Write, directory, history, PublishedFilesAreWhole, Published, TypeOK
<1>3. CASE Sync(w)
  BY <1>3 DEF Sync, directory, history, PublishedFilesAreWhole, Published
<1>4. CASE Rename(w)
  <2>1. data[File(w)] = "whole" /\ File(w) \in synced
    BY <1>4 DEF Rename, CallsInOrder
  <2>2. Published' \subseteq Published \union {File(w)}
    BY <1>4 DEF Rename, directory, Published, TypeOK
  <2> QED
    BY <1>4, <2>1, <2>2 DEF Rename, directory, content, PublishedFilesAreWhole
<1>5. CASE SyncDir(w)
  BY <1>5 DEF SyncDir, content, history, PublishedFilesAreWhole, Published
<1> QED
  BY <1>1, <1>2, <1>3, <1>4, <1>5
     DEF Call, CreateTemp, Close, OpenDir, CloseDir, RemoveTemp, directory, content, history

LEMMA EnvironmentKeepsPublished ==
    ASSUME WriteInv, PowerLoss \/ \E w \in Writers : Kill(w)
    PROVE  PublishedFilesAreWhole'
<1> USE DEF WriteInv
<1>1. ASSUME NEW w \in Writers, Kill(w)
      PROVE  PublishedFilesAreWhole'
  BY <1>1 DEF Kill, directory, content, history, PublishedFilesAreWhole, Published
<1>2. CASE PowerLoss
  <2>1. Published' \subseteq Published
    BY <1>2 DEF PowerLoss, history, Published
  <2>2. Published \subseteq Files
    BY DEF Published, TypeOK
  <2> QED
    BY <1>2, <2>1, <2>2 DEF PowerLoss, history, PublishedFilesAreWhole
<1> QED
  BY <1>1, <1>2

-----------------------------------------------------------------------------
(* The calls *)

\* A call moves one step, and the others' files are not its own.
LEMMA CallKeepsOrder ==
    ASSUME WriteInv, NEW w \in Writers, Call(w)
    PROVE  CallsInOrder'
<1> USE DEF WriteInv
<1>0. /\ pc[w] # "idle" => File(w) \in Files
      /\ \A v \in Writers : v # w => File(v) # File(w)
      /\ \A v \in Writers, n \in 1..MaxWrites : v # w => <<v, n>> # File(w)
      /\ \A n \in 1..MaxWrites : n # calls[w] => <<w, n>> # File(w)
  BY FileOfACall
<1>1. TypeOK'
  BY CallTypes
<1> DEFINE Out == Published \union confirmed
<1> DEFINE Good(v) ==
        /\ pc[v] # "idle" => calls[v] >= 1
        /\ pc[v] \in {"write", "sync", "close", "rename"} =>
               File(v) \notin Out
        /\ pc[v] \in {"sync", "close", "rename"} => data[File(v)] = "whole"
        /\ pc[v] \in {"close", "rename"} => File(v) \in synced
        /\ \A n \in 1..MaxWrites : n > calls[v] => <<v, n>> \notin Out
<1>2. \A v \in Writers : Good(v)
  BY DEF CallsInOrder
<1>3. /\ Out' \subseteq Out \union {File(w)}
      /\ pc[w] \notin {"rename", "remove"} => Out' \subseteq Out
  <2>1. CASE UNCHANGED <<onDisk, renamed, confirmed>>
    BY <2>1 DEF Published
  <2>2. CASE Rename(w)
    BY <1>0, <2>2 DEF Rename, directory, Published, TypeOK
  <2>3. CASE SyncDir(w)
    BY <2>3 DEF SyncDir, history, Published, PublishedFilesAreWhole
  <2>4. CASE RemoveTemp(w)
    BY <2>4 DEF RemoveTemp, Published
  <2> QED
    BY <2>1, <2>2, <2>3, <2>4 DEF Call, CreateTemp, WritePart, Write, Sync, Close, OpenDir,
       CloseDir, directory, content, history
<1>7. synced \subseteq synced'
  BY DEF Call, CreateTemp, WritePart, Write, Sync, Close, Rename, OpenDir, SyncDir,
          CloseDir, RemoveTemp, content
<1>8. \A f \in Files : f # File(w) => data'[f] = data[f]
  BY DEF Call, CreateTemp, WritePart, Write, Sync, Close, Rename, OpenDir, SyncDir,
          CloseDir, RemoveTemp, content, TypeOK
<1>4. ASSUME NEW v \in Writers, v # w
      PROVE  Good(v)'
  <2>1. pc'[v] = pc[v] /\ calls'[v] = calls[v]
    BY <1>4 DEF Call, CreateTemp, WritePart, Write, Sync, Close, Rename, OpenDir, SyncDir,
          CloseDir, RemoveTemp, Continue, Fail, process, TypeOK
  <2>2. pc[v] # "idle" => File(v) \in Files
    BY FileOfACall
  <2>3. File(v)' = File(v) /\ File(v) # File(w)
    BY <1>0, <1>4, <2>1 DEF File
  <2>4. \A f : f # File(w) /\ f \notin Out => f \notin Out'
    BY <1>3
  <2>5. \A n \in 1..MaxWrites : n > calls'[v] => <<v, n>> \notin Out'
    BY <1>0, <1>2, <1>4, <2>1, <2>4
  <2>6. pc'[v] \in {"write", "sync", "close", "rename"} => File(v)' \notin Out'
    BY <1>2, <2>1, <2>3, <2>4
  <2>7. /\ pc'[v] \in {"sync", "close", "rename"} => data'[File(v)'] = "whole"
        /\ pc'[v] \in {"close", "rename"} => File(v)' \in synced'
    BY <1>2, <1>7, <1>8, <2>1, <2>2, <2>3
  <2> QED
    BY <1>2, <2>1, <2>5, <2>6, <2>7
<1>5. Good(w)'
  <2>1. CASE CreateTemp(w)
    <3>1. /\ pc[w] = "idle" /\ calls'[w] = calls[w] + 1 /\ calls[w] \in Nat
          /\ calls'[w] \in 1..MaxWrites
          /\ pc'[w] \in {"idle", "write"}
      BY <2>1 DEF CreateTemp, TypeOK
    <3>2. \A n \in 1..MaxWrites : n > calls[w] => <<w, n>> \notin Out'
      BY <1>2, <1>3, <3>1
    <3>3. File(w)' \notin Out'
      BY <3>1, <3>2 DEF File
    <3> QED
      BY <3>1, <3>2, <3>3
  <2>2. CASE WritePart(w)
    BY <1>2, <1>3, <2>2 DEF WritePart, process, File
  <2>3. CASE Write(w)
    BY <1>0, <1>2, <1>3, <2>3 DEF Write, Continue, Fail, TypeOK, File
  <2>4. CASE Sync(w)
    BY <1>0, <1>2, <1>3, <2>4 DEF Sync, Continue, Fail, TypeOK, File
  <2>5. CASE Close(w)
    BY <1>2, <1>3, <2>5 DEF Close, Continue, Fail, content, TypeOK, File
  <2>6. CASE Rename(w)
    BY <1>0, <1>2, <1>3, <2>6 DEF Rename, Continue, Fail, TypeOK, File
  <2>7. CASE OpenDir(w)
    BY <1>2, <1>3, <2>7 DEF OpenDir, Continue, Fail, TypeOK, File
  <2>8. CASE SyncDir(w)
    <3>1. pc[w] = "syncDir" /\ pc'[w] = "closeDir" /\ calls'[w] = calls[w]
      BY <2>8 DEF SyncDir, TypeOK
    <3> QED
      BY <1>2, <1>3, <3>1
  <2>9. CASE CloseDir(w)
    BY <1>2, <1>3, <2>9 DEF CloseDir, Continue, Fail, TypeOK, File
  <2>10. CASE RemoveTemp(w)
    BY <1>0, <1>2, <1>3, <2>10 DEF RemoveTemp, Continue, TypeOK, File
  <2> QED
    BY <2>1, <2>2, <2>3, <2>4, <2>5, <2>6, <2>7, <2>8, <2>9, <2>10 DEF Call
<1>6. \A v \in Writers : Good(v)'
  BY <1>4, <1>5
<1> QED
  BY <1>6 DEF CallsInOrder

LEMMA EnvironmentKeepsOrder ==
    ASSUME WriteInv, PowerLoss \/ \E w \in Writers : Kill(w)
    PROVE  CallsInOrder'
<1> USE DEF WriteInv
<1>1. ASSUME NEW w \in Writers, Kill(w)
      PROVE  CallsInOrder'
  BY <1>1 DEF Kill, directory, content, history, CallsInOrder, Published, File, TypeOK
<1>2. CASE PowerLoss
  <2>1. Published' \subseteq Published /\ confirmed' = confirmed
    BY <1>2 DEF PowerLoss, history, Published
  <2> QED
    BY <1>2, <2>1 DEF PowerLoss, CallsInOrder, File, TypeOK
<1> QED
  BY <1>1, <1>2

-----------------------------------------------------------------------------
(* The renames *)

\* A call publishes only the newest file, and a directory is synced with the
\* newest name: the order of the renames is the order of what is on disk.
LEMMA CallKeepsRenames ==
    ASSUME WriteInv, NEW w \in Writers, Call(w)
    PROVE  RenamesInOrder' /\ ConfirmedWritesSurvive'
<1> USE DEF WriteInv
<1> DEFINE Named(v) == pc[v] \in {"openDir", "syncDir"} => renamed[File(v)] <= renamed[path]
           Kept(v) == (~Windows /\ pc[v] \in {"closeDir", "remove"} /\ ~err[v]) =>
                          \A g \in onDisk : renamed[File(v)] <= renamed[g]
<1>0. /\ \A v \in Writers : pc[v] # "idle" => File(v) \in Files
      /\ \A v \in Writers : v # w => File(v) # File(w)
      /\ \A v \in Writers : Named(v) /\ Kept(v)
      /\ \A f \in Files : renamed[f] \in Nat /\ renamed[f] <= renames
      /\ onDisk \subseteq Files /\ path \in onDisk /\ renames \in Nat
      /\ confirmed \subseteq Files
  BY FileOfACall DEF RenamesInOrder, TypeOK, PublishedFilesAreWhole
<1>1. ASSUME NEW v \in Writers, v # w
      PROVE  pc'[v] = pc[v] /\ err'[v] = err[v] /\ File(v)' = File(v)
  BY <1>1 DEF Call, CreateTemp, WritePart, Write, Sync, Close, Rename, OpenDir, SyncDir,
          CloseDir, RemoveTemp, Continue, Fail, process, TypeOK, File
<1>2. CASE UNCHANGED <<path, onDisk, renamed, renames, confirmed>>
  <2>1. Named(w)' /\ Kept(w)'
    BY <1>0, <1>2 DEF Call, CreateTemp, WritePart, Write, Sync, Close, Rename, OpenDir, SyncDir,
          CloseDir, RemoveTemp, Continue, Fail, process, TypeOK, File
  <2>2. \A v \in Writers : Named(v)' /\ Kept(v)'
    BY <1>0, <1>1, <1>2, <2>1
  <2> QED
    BY <1>0, <1>2, <2>2 DEF RenamesInOrder, ConfirmedWritesSurvive
<1>3. CASE Rename(w) /\ renames' # renames
  <2>1. /\ File(w) \in Files /\ File(w) \notin confirmed /\ File(w)' = File(w)
        /\ path' = File(w) /\ onDisk' = onDisk \union {File(w)}
        /\ renamed' = [renamed EXCEPT ![File(w)] = renames + 1]
        /\ renames' = renames + 1 /\ confirmed' = confirmed
    BY <1>0, <1>3 DEF Rename, Continue, CallsInOrder, File
  <2>2. renamed'[File(w)] = renames + 1 /\ \A f \in Files \ {File(w)} : renamed'[f] = renamed[f]
    BY <2>1 DEF TypeOK
  <2>3. \A f \in Files : renamed'[f] <= renames'
    BY <1>0, <2>1, <2>2
  <2>4. ASSUME NEW v \in Writers, v # w
        PROVE  Named(v)' /\ Kept(v)'
    <3>1. pc[v] # "idle" => File(v) \in Files \ {File(w)}
      BY <1>0, <2>4
    <3> QED
      BY <1>0, <1>1, <2>1, <2>2, <2>4, <3>1
  <2>5. Named(w)' /\ Kept(w)'
    BY <1>0, <1>3, <2>1, <2>2 DEF Rename, Continue, TypeOK
  <2>6. ConfirmedWritesSurvive'
    BY <1>0, <2>1, <2>2 DEF ConfirmedWritesSurvive
  <2> QED
    BY <2>3, <2>4, <2>5, <2>6 DEF RenamesInOrder
<1>4. CASE SyncDir(w)
  <2>1. /\ File(w)' = File(w) /\ onDisk' \subseteq onDisk /\ path' = path
        /\ UNCHANGED <<renamed, renames, confirmed>>
    BY <1>0, <1>4 DEF SyncDir, history, File
  <2>2. \A v \in Writers \ {w} : Named(v)' /\ Kept(v)'
    BY <1>0, <1>1, <2>1
  <2>3. Named(w)' /\ Kept(w)'
    BY <1>0, <1>4, <2>1 DEF SyncDir, TypeOK
  <2>4. ConfirmedWritesSurvive'
    BY <2>1 DEF ConfirmedWritesSurvive
  <2> QED
    BY <1>0, <2>1, <2>2, <2>3, <2>4 DEF RenamesInOrder
<1>5. CASE RemoveTemp(w)
  <2>1. /\ pc[w] = "remove" /\ pc'[w] = "idle" /\ File(w)' = File(w)
        /\ UNCHANGED <<path, onDisk, renamed, renames>>
        /\ confirmed' = IF err[w] THEN confirmed ELSE confirmed \union {File(w)}
    BY <1>5 DEF RemoveTemp, Continue, File, TypeOK
  <2>2. \A v \in Writers : Named(v)' /\ Kept(v)'
    BY <1>0, <1>1, <2>1
  <2>3. ConfirmedWritesSurvive'
    BY <1>0, <2>1 DEF ConfirmedWritesSurvive
  <2> QED
    BY <1>0, <2>1, <2>2, <2>3 DEF RenamesInOrder
<1>6. CASE Rename(w)
  <2>1. renames' # renames \/ UNCHANGED <<path, onDisk, renamed, renames, confirmed>>
    BY <1>0, <1>6 DEF Rename, directory
  <2> QED
    BY <1>2, <1>3, <1>6, <2>1
<1> QED
  BY <1>2, <1>4, <1>5, <1>6
     DEF Call, CreateTemp, WritePart, Write, Sync, Close, OpenDir, CloseDir, directory, history

LEMMA EnvironmentKeepsRenames ==
    ASSUME WriteInv, PowerLoss \/ \E w \in Writers : Kill(w)
    PROVE  RenamesInOrder' /\ ConfirmedWritesSurvive'
<1> USE DEF WriteInv
<1>1. ASSUME NEW w \in Writers, Kill(w)
      PROVE  RenamesInOrder' /\ ConfirmedWritesSurvive'
  BY <1>1 DEF Kill, directory, history, RenamesInOrder, ConfirmedWritesSurvive, File, TypeOK
<1>2. CASE PowerLoss
  BY <1>2 DEF PowerLoss, history, RenamesInOrder, ConfirmedWritesSurvive, File, TypeOK
<1> QED
  BY <1>1, <1>2

-----------------------------------------------------------------------------
(* Theorems *)

LEMMA InitEstablishes == Init => WriteInv
<1> SUFFICES ASSUME Init
             PROVE  WriteInv
  OBVIOUS
<1>1. Seed \in Files /\ \A w \in Writers, n \in 1..MaxWrites : <<w, n>> # Seed
  BY DEF Seed, Files
<1>2. TypeOK
  BY <1>1 DEF Init, TypeOK, Steps, Contents
<1>3. PublishedFilesAreWhole
  BY <1>1 DEF Init, PublishedFilesAreWhole, Published
<1>4. CallsInOrder
  BY <1>1 DEF Init, CallsInOrder, Published
<1>5. RenamesInOrder /\ ConfirmedWritesSurvive
  BY DEF Init, RenamesInOrder, ConfirmedWritesSurvive
<1> QED
  BY <1>2, <1>3, <1>4, <1>5 DEF WriteInv

LEMMA StepPreserves == WriteInv /\ [Next]_vars => WriteInv'
<1> SUFFICES ASSUME WriteInv, [Next]_vars
             PROVE  WriteInv'
  OBVIOUS
<1>1. TypeOK'
  BY TypeStep DEF WriteInv
<1>2. CASE UNCHANGED vars
  BY <1>1, <1>2 DEF vars, WriteInv, PublishedFilesAreWhole, Published, CallsInOrder, File,
     RenamesInOrder, ConfirmedWritesSurvive
<1>3. ASSUME NEW w \in Writers, Call(w)
      PROVE  WriteInv'
  BY <1>1, <1>3, CallKeepsPublished, CallKeepsOrder, CallKeepsRenames DEF WriteInv
<1>4. CASE PowerLoss \/ \E w \in Writers : Kill(w)
  BY <1>1, <1>4, EnvironmentKeepsPublished, EnvironmentKeepsOrder, EnvironmentKeepsRenames
     DEF WriteInv
<1> QED
  BY <1>2, <1>3, <1>4 DEF Next

\* Every reachable state satisfies the inductive invariant: what is published
\* is whole and durable, calls run in order, and so do their renames.
THEOREM InvariantHolds == Spec => []WriteInv
BY InitEstablishes, StepPreserves, PTL DEF Spec

\* The state of the writers and of the file system is always well typed.
THEOREM TypeCorrect == Spec => []TypeOK
<1>1. WriteInv => TypeOK
  BY DEF WriteInv
<1> QED
  BY <1>1, InvariantHolds, PTL

\* WriteAtomic keeps its name: whatever fails, dies or overlaps, the path
\* names one whole document.
THEOREM NeverTornHolds == Spec => []NeverTorn
<1>1. WriteInv => NeverTorn
  BY DEF WriteInv, PublishedFilesAreWhole, Published, NeverTorn
<1> QED
  BY <1>1, InvariantHolds, PTL

\* A document whose writer was told nil survives every power loss, except for
\* a newer one in its place; on Windows the code does not promise it.
THEOREM ConfirmedWritesSurviveHolds == Spec => []ConfirmedWritesSurvive
<1>1. WriteInv => ConfirmedWritesSurvive
  BY DEF WriteInv
<1> QED
  BY <1>1, InvariantHolds, PTL

\* No step changes the content of a file that a reader may have open.
THEOREM OpenedFilesAreFrozenHolds == Spec => OpenedFilesAreFrozen
<1> DEFINE Frozen == \A f \in Files : (f = path \/ renamed[f] > 0) => data'[f] = data[f]
<1>1. WriteInv /\ [Next]_vars => [Frozen]_vars
  <2> SUFFICES ASSUME WriteInv, Next, NEW f \in Files, f = path \/ renamed[f] > 0
               PROVE  data'[f] = data[f]
    OBVIOUS
  <2>1. f \in Published /\ f \in synced
    BY DEF WriteInv, PublishedFilesAreWhole, Published
  <2>2. ASSUME NEW w \in Writers, Call(w)
        PROVE  data'[f] = data[f]
    <3>1. CASE WritePart(w) \/ Write(w)
      <4>1. f # File(w)
        BY <2>1, <3>1 DEF WriteInv, CallsInOrder, WritePart, Write
      <4> QED
        BY <3>1, <4>1 DEF WritePart, Write, WriteInv, TypeOK
    <3> QED
      BY <2>2, <3>1 DEF Call, CreateTemp, Sync, Close, Rename, OpenDir, SyncDir, CloseDir,
         RemoveTemp, content
  <2>3. ASSUME NEW w \in Writers, Kill(w)
        PROVE  data'[f] = data[f]
    BY <2>3 DEF Kill, content
  <2>4. CASE PowerLoss
    BY <2>1, <2>4 DEF PowerLoss
  <2> QED
    BY <2>2, <2>3, <2>4 DEF Next
<1> QED
  BY <1>1, InvariantHolds, PTL DEF Spec, OpenedFilesAreFrozen
=============================================================================
