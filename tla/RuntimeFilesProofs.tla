-------------------------- MODULE RuntimeFilesProofs --------------------------
(***************************************************************************)
(* What holds of the files a serve process follows, for any number of      *)
(* kubeconfig files and of writes.  The argument: nothing has moved while  *)
(* the files are loaded; the watcher advances a snapshot only to content   *)
(* it has read twice, on its way to report it; and what the state snapshot *)
(* holds was on disk before the state was read.                            *)
(***************************************************************************)
EXTENDS RuntimeFiles, TLAPS

Loading == {"snapState", "loadState", "loadKube", "snapKube"}

NothingMovesInLoad == phase \in Loading => moved = {} /\ watcher = "off"

(* next points at a file where one is settled.                             *)
SettlesAFile == watcher = "settleKube" => next <= Len(Kubeconfigs)

(* What is on disk was written by now.                                     *)
DiskIsPast == \A f \in Files : disk[f] # Absent => disk[f].write <= writes

(* Until the state is read, its snapshot is no newer than the disk.        *)
SnapshotBeforeLoad ==
    phase = "loadState" =>
        /\ snapshot[State] # Absent /\ snapshot[State].write <= writes
        /\ disk[State] # Absent => snapshot[State].write <= disk[State].write

(* A state that was read without an error was there.                       *)
StateWasThere ==
    phase \in {"loadKube", "snapKube", "watch"} /\ State \notin moved =>
        snapshot[State] # Absent /\ loaded[State] # Absent

FInv ==
    /\ TypeOK
    /\ NothingMovesInLoad /\ MovedIsReported /\ ReportedIsWhole
    /\ SettlesAFile
    /\ DiskIsPast /\ SnapshotBeforeLoad /\ StateWasThere /\ StateSnapshotIsNotNewer

LEMMA StateApart == State \in Files /\ State \notin KubeFiles /\ Absent \notin Content
  BY FilesAssumption DEF Files

LEMMA NextFile ==
    ASSUME NEW i \in 1..(Len(Kubeconfigs) + 1), i <= Len(Kubeconfigs)
    PROVE  Kubeconfigs[i] \in KubeFiles /\ Kubeconfigs[i] \in Files /\ Kubeconfigs[i] # State
             /\ i + 1 \in 1..(Len(Kubeconfigs) + 1)
<1>1. Len(Kubeconfigs) \in Nat
  BY FilesAssumption
<1>2. i \in 1..Len(Kubeconfigs) /\ i + 1 \in 1..(Len(Kubeconfigs) + 1)
  BY <1>1
<1>3. Kubeconfigs[i] \in KubeFiles
  BY <1>2 DEF KubeFiles
<1> QED
  BY <1>2, <1>3, StateApart DEF Files

LEMMA FirstFile == Len(Kubeconfigs) \in Nat /\ 1 \in 1..(Len(Kubeconfigs) + 1)
  BY FilesAssumption

LEMMA InitType == Init => TypeOK
<1> SUFFICES ASSUME Init PROVE TypeOK
  OBVIOUS
<1>1. disk \in [Files -> Content \cup {Absent}]
  <2>1. [write |-> 0, whole |-> TRUE] \in Content
    BY FilesAssumption DEF Content
  <2>2. {[write |-> 0, whole |-> TRUE], Absent} \subseteq Content \cup {Absent}
    BY <2>1
  <2> QED
    BY <2>2 DEF Init
<1>2. writes \in 0..MaxWrites
  BY FilesAssumption DEF Init
<1>3. next \in 1..(Len(Kubeconfigs) + 1)
  BY FirstFile DEF Init
<1>4. /\ loaded \in [Files -> Content \cup {Absent}]
      /\ snapshot \in [Files -> Content \cup {Absent}]
      /\ seen \in Content \cup {Absent} /\ seenState \in Content \cup {Absent}
      /\ moved \subseteq Files
  BY DEF Init
<1> QED
  BY <1>1, <1>2, <1>3, <1>4 DEF Init, TypeOK

LEMMA StepType == TypeOK /\ SettlesAFile /\ [Next]_vars => TypeOK'
<1> SUFFICES ASSUME TypeOK, SettlesAFile, [Next]_vars PROVE TypeOK'
  OBVIOUS
<1> USE FirstFile, StateApart DEF TypeOK, writerVars, loadVars, watchVars
<1>1. ASSUME NEW f \in Files, NEW content \in Content \cup {Absent}, Write(f, content) PROVE TypeOK'
  <2>1. writes' \in 0..MaxWrites
    BY <1>1, FilesAssumption DEF Write
  <2>2. disk' \in [Files -> Content \cup {Absent}]
    BY <1>1 DEF Write
  <2> QED
    BY <1>1, <2>1, <2>2 DEF Write
<1>2. ASSUME NEW f \in Files, Writer(f) PROVE TypeOK'
  <2>1. Absent \in Content \cup {Absent}
    OBVIOUS
  <2>2. CASE Remove(f)
    BY <1>1, <2>1, <2>2 DEF Remove
  <2>3. ASSUME NEW b \in BOOLEAN, Write(f, [write |-> writes + 1, whole |-> b]) PROVE TypeOK'
    <3>1. writes + 1 \in 0..MaxWrites
      BY <2>3, FilesAssumption DEF Write
    <3>2. [write |-> writes + 1, whole |-> b] \in Content \cup {Absent}
      BY <3>1 DEF Content
    <3> QED
      BY <1>1, <2>3, <3>2
  <2> QED
    BY <1>2, <2>2, <2>3 DEF Writer, BeginWrite, Rename
<1>3. ASSUME NEW f \in Files, FinishWrite(f) PROVE TypeOK'
  <2>1. [disk[f] EXCEPT !.whole = TRUE] \in Content
    BY <1>3 DEF FinishWrite, Content
  <2> QED
    BY <1>3, <2>1 DEF FinishWrite
<1>4. CASE SnapState
  BY <1>4 DEF SnapState
<1>5. CASE LoadState
  BY <1>5 DEF LoadState
<1>6. CASE LoadKube
  BY <1>6, NextFile DEF LoadKube
<1>7. CASE LoadedAll
  BY <1>7 DEF LoadedAll
<1>8. CASE SnapKube
  BY <1>8, NextFile DEF SnapKube
<1>9. CASE StartWatching \/ SetupFails
  BY <1>9 DEF StartWatching, SetupFails
<1>10. CASE Poll
  BY <1>10 DEF Poll
<1>11. CASE CompareKube
  BY <1>11, NextFile DEF CompareKube
<1>12. CASE CompareState
  BY <1>12 DEF CompareState
<1>13. CASE SettleKube
  <2> DEFINE k == Kubeconfigs[next]
  <2>1. next <= Len(Kubeconfigs) /\ k \in Files /\ next + 1 \in 1..(Len(Kubeconfigs) + 1)
    BY <1>13, NextFile DEF SettleKube, SettlesAFile
  <2> HIDE DEF k
  <2>2. CASE StillChanging(k) /\ UNCHANGED next
    BY <1>13, <2>1, <2>2 DEF SettleKube, StillChanging
  <2>3. CASE TakeSnapshot(k) /\ UNCHANGED <<seen, next>>
    BY <1>13, <2>1, <2>3 DEF SettleKube, TakeSnapshot
  <2>4. CASE watcher' = "compare" /\ next' = next + 1 /\ UNCHANGED <<snapshot, moved, seen>>
    BY <1>13, <2>1, <2>4 DEF SettleKube
  <2> QED
    BY <1>13, <2>2, <2>3, <2>4 DEF SettleKube, k
<1>14. CASE SettleState
  BY <1>14 DEF SettleState, StillChanging, TakeSnapshot
<1>15. CASE ReadFails \/ Send
  BY <1>15 DEF ReadFails, Send
<1>16. CASE ReceiveChange \/ ReceiveError
  BY <1>16 DEF ReceiveChange, ReceiveError
<1>17. CASE Replace
  BY <1>17 DEF Replace
<1>18. CASE UNCHANGED vars
  BY <1>18 DEF vars
<1> QED
  BY <1>2, <1>3, <1>4, <1>5, <1>6, <1>7, <1>8, <1>9, <1>10, <1>11, <1>12, <1>13, <1>14,
     <1>15, <1>16, <1>17, <1>18 DEF Next, Load, Watch, Receive
------------------------------------------------------------------------------
(* The snapshots.  Steps of writers, of the channel and of the load leave  *)
(* most of it alone, so each part has its own lemma.                       *)

ReportInv == NothingMovesInLoad /\ MovedIsReported /\ ReportedIsWhole /\ SettlesAFile

(* A writer changes none of what the process knows.                        *)
Known == <<loadVars, next, snapshot, watchVars, changed, pending>>

LEMMA WriterKeeps ==
    ASSUME NEW f \in Files, Writer(f) \/ FinishWrite(f)
    PROVE  UNCHANGED Known
  BY DEF Writer, FinishWrite, BeginWrite, Rename, Remove, Write, Known

LEMMA StepReport == FInv /\ [Next]_vars => ReportInv'
<1> SUFFICES ASSUME FInv, [Next]_vars PROVE ReportInv'
  OBVIOUS
<1> USE FirstFile, StateApart DEF FInv, ReportInv, TypeOK, NothingMovesInLoad, MovedIsReported,
        ReportedIsWhole, SettlesAFile, Loading, writerVars, loadVars, watchVars, Known
<1>1. ASSUME UNCHANGED Known PROVE ReportInv'
  BY <1>1
<1>2. CASE SnapState \/ LoadState \/ LoadKube \/ LoadedAll \/ SnapKube
  BY <1>2 DEF SnapState, LoadState, LoadKube, LoadedAll, SnapKube
<1>3. CASE StartWatching \/ SetupFails
  BY <1>3 DEF StartWatching, SetupFails
<1>4. CASE Poll \/ CompareKube \/ CompareState
  BY <1>4 DEF Poll, CompareKube, CompareState
<1>5. ASSUME NEW f \in Files, phase = "watch", TakeSnapshot(f), Stable(f),
             UNCHANGED <<phase, changed, pending>>
      PROVE  ReportInv'
  <2>1. ~Partial(seen)
    BY <1>5 DEF Stable, WriterKeptUp
  <2> QED
    BY <1>5, <2>1 DEF TakeSnapshot, Partial, Whole
<1>6. ASSUME UNCHANGED <<snapshot, moved, phase, changed, pending>>, phase = "watch",
             watcher \notin {"send", "sendError"},
             watcher' = "settleKube" => next' <= Len(Kubeconfigs)
      PROVE  ReportInv'
  BY <1>6 DEF Partial, Whole
<1>7. CASE SettleKube
  <2> DEFINE k == Kubeconfigs[next]
  <2>1. next <= Len(Kubeconfigs) /\ k \in Files
    BY <1>7, NextFile DEF SettleKube
  <2> HIDE DEF k
  <2>2. CASE StillChanging(k) /\ UNCHANGED next
    <3>1. UNCHANGED <<snapshot, moved, phase, changed, pending>> /\ phase = "watch"
            /\ watcher = "settleKube"
      BY <1>7, <2>2 DEF SettleKube, StillChanging
    <3> QED
      BY <1>6, <2>1, <2>2, <3>1
  <2>3. CASE Stable(k) /\ TakeSnapshot(k)
    BY <1>5, <1>7, <2>1, <2>3 DEF SettleKube
  <2>4. CASE watcher' = "compare" /\ UNCHANGED <<snapshot, moved, seen>>
    BY <1>6, <1>7, <2>4 DEF SettleKube
  <2> QED
    BY <1>7, <2>2, <2>3, <2>4 DEF SettleKube, k
<1>8. CASE SettleState
  <2>1. CASE Stable(State) /\ TakeSnapshot(State)
    BY <1>5, <1>8, <2>1 DEF SettleState
  <2>2. CASE UNCHANGED <<snapshot, moved>> /\ watcher' \in {"sendError", "settleState", "idle"}
    BY <1>6, <1>8, <2>2 DEF SettleState
  <2> QED
    BY <1>8, <2>1, <2>2 DEF SettleState, StillChanging
<1>9. CASE ReadFails
  BY <1>6, <1>9 DEF ReadFails
<1>10. CASE Send
  BY <1>10 DEF Send, Partial, Whole
<1>11. CASE ReceiveChange \/ ReceiveError
  BY <1>11 DEF ReceiveChange, ReceiveError, Partial, Whole
<1>12. CASE Replace
  BY <1>12 DEF Replace
<1>13. CASE UNCHANGED vars
  BY <1>1, <1>13 DEF vars
<1> QED
  BY <1>1, <1>2, <1>3, <1>4, <1>7, <1>8, <1>9, <1>10, <1>11, <1>12, <1>13, WriterKeeps
     DEF Next, Load, Watch, Receive

PastInv == DiskIsPast /\ SnapshotBeforeLoad

LEMMA StepPast == FInv /\ [Next]_vars => PastInv'
<1> SUFFICES ASSUME FInv, [Next]_vars PROVE PastInv'
  OBVIOUS
<1> USE StateApart DEF FInv, TypeOK, PastInv, DiskIsPast, SnapshotBeforeLoad, writerVars, loadVars
<1>1. writes \in Nat /\ \A f \in Files : disk[f] # Absent => disk[f].write \in Nat
  BY FilesAssumption DEF Content
<1>2. snapshot[State] # Absent => snapshot[State].write \in Nat
  BY FilesAssumption DEF Content
<1>3. ASSUME NEW f \in Files, NEW content \in Content \cup {Absent}, Write(f, content),
             content # Absent => content.write = writes + 1
      PROVE  PastInv'
  <2>1. writes' = writes + 1 /\ disk' = [disk EXCEPT ![f] = content] /\ UNCHANGED <<phase, snapshot>>
    BY <1>3 DEF Write
  <2>2. DiskIsPast'
    BY <1>1, <1>3, <2>1
  <2>3. SnapshotBeforeLoad'
    BY <1>1, <1>2, <1>3, <2>1
  <2> QED
    BY <2>2, <2>3
<1>4. ASSUME NEW f \in Files, Writer(f) PROVE PastInv'
  <2>1. CASE Remove(f)
    BY <1>3, <2>1 DEF Remove
  <2>2. ASSUME NEW b \in BOOLEAN, Write(f, [write |-> writes + 1, whole |-> b]) PROVE PastInv'
    <3>1. [write |-> writes + 1, whole |-> b] \in Content
      BY <2>2, FilesAssumption DEF Write, Content
    <3> QED
      BY <1>3, <2>2, <3>1
  <2> QED
    BY <1>4, <2>1, <2>2 DEF Writer, BeginWrite, Rename
<1>5. ASSUME NEW f \in Files, FinishWrite(f) PROVE PastInv'
  <2>1. UNCHANGED <<writes, phase, snapshot>>
    BY <1>5 DEF FinishWrite
  <2>2. \A g \in Files : (disk'[g] = Absent <=> disk[g] = Absent)
          /\ (disk[g] # Absent => disk'[g].write = disk[g].write)
    <3>1. disk[f] \in Content /\ [disk[f] EXCEPT !.whole = TRUE] \in Content
            /\ [disk[f] EXCEPT !.whole = TRUE].write = disk[f].write
      BY <1>5 DEF FinishWrite, Content
    <3> QED
      BY <1>5, <3>1 DEF FinishWrite
  <2> QED
    BY <2>1, <2>2
<1>6. CASE SnapState
  BY <1>1, <1>6 DEF SnapState
<1>7. CASE LoadState \/ LoadKube \/ LoadedAll \/ SnapKube \/ StartWatching \/ SetupFails
  BY <1>7 DEF LoadState, LoadKube, LoadedAll, SnapKube, StartWatching, SetupFails
<1>8. CASE Watch \/ ReadFails \/ Receive \/ Replace
  <2>1. UNCHANGED writerVars /\ phase' # "loadState"
    BY <1>8 DEF Watch, Poll, CompareKube, CompareState, SettleKube, SettleState, Send, ReadFails,
                Receive, ReceiveChange, ReceiveError, Replace
  <2> QED
    BY <2>1
<1>9. CASE UNCHANGED vars
  BY <1>9 DEF vars
<1> QED
  BY <1>4, <1>5, <1>6, <1>7, <1>8, <1>9 DEF Next, Load

StateInv == StateWasThere /\ StateSnapshotIsNotNewer

(* A step after the state was read, that leaves it and its snapshot alone. *)
LEMMA StateKept ==
    ASSUME FInv, phase' \in {"loadKube", "snapKube", "watch"} =>
                   /\ phase \in {"loadKube", "snapKube", "watch"}
                   /\ State \notin moved' => /\ State \notin moved
                                            /\ snapshot'[State] = snapshot[State]
                                            /\ loaded'[State] = loaded[State]
    PROVE  StateInv'
  BY DEF FInv, StateInv, StateWasThere, StateSnapshotIsNotNewer

LEMMA StepState == FInv /\ [Next]_vars => StateInv'
<1> SUFFICES ASSUME FInv, [Next]_vars PROVE StateInv'
  OBVIOUS
<1> USE StateApart, FirstFile DEF FInv, TypeOK, writerVars, loadVars, watchVars
<1>1. ASSUME UNCHANGED Known PROVE StateInv'
  BY <1>1, StateKept DEF Known
<1>2. CASE LoadState
  <2>1. CASE phase' = "stopped"
    BY <2>1, StateKept
  <2>2. CASE disk[State] # Absent /\ phase' = "loadKube"
    <3>1. loaded'[State] = disk[State] /\ snapshot' = snapshot
      BY <1>2 DEF LoadState
    <3>2. snapshot[State] # Absent /\ snapshot[State].write <= disk[State].write
      BY <1>2, <2>2 DEF LoadState, SnapshotBeforeLoad
    <3> QED
      BY <2>2, <3>1, <3>2 DEF StateInv, StateWasThere, StateSnapshotIsNotNewer
  <2> QED
    BY <1>2, <2>1, <2>2 DEF LoadState
<1>3. CASE LoadKube
  BY <1>3, NextFile, StateKept DEF LoadKube
<1>4. CASE SnapKube
  BY <1>4, NextFile, StateKept DEF SnapKube
<1>5. CASE SnapState \/ LoadedAll \/ StartWatching \/ SetupFails
  BY <1>5, StateKept DEF SnapState, LoadedAll, StartWatching, SetupFails
<1>6. CASE Poll \/ CompareKube \/ CompareState \/ ReadFails \/ Send
  BY <1>6, StateKept DEF Poll, CompareKube, CompareState, ReadFails, Send
<1>7. CASE SettleKube
  <2>1. Kubeconfigs[next] \in Files /\ Kubeconfigs[next] # State
    BY <1>7, NextFile DEF SettleKube, SettlesAFile
  <2> QED
    BY <1>7, <2>1, StateKept DEF SettleKube, StillChanging, TakeSnapshot
<1>8. CASE SettleState
  BY <1>8, StateKept DEF SettleState, StillChanging, TakeSnapshot
<1>9. CASE Receive \/ Replace
  BY <1>9, StateKept DEF Receive, ReceiveChange, ReceiveError, Replace
<1>10. CASE UNCHANGED vars
  BY <1>1, <1>10 DEF vars, Known
<1> QED
  BY <1>1, <1>2, <1>3, <1>4, <1>5, <1>6, <1>7, <1>8, <1>9, <1>10, WriterKeeps DEF Next, Load, Watch

LEMMA InitFInv == Init => FInv
<1> SUFFICES ASSUME Init PROVE FInv
  OBVIOUS
<1>1. TypeOK
  BY InitType
<1>2. DiskIsPast
  BY DEF Init, DiskIsPast
<1> QED
  BY <1>1, <1>2 DEF Init, FInv, NothingMovesInLoad, MovedIsReported, ReportedIsWhole, SettlesAFile,
                    SnapshotBeforeLoad, StateWasThere, StateSnapshotIsNotNewer, Loading

LEMMA StepFInv == FInv /\ [Next]_vars => FInv'
  BY StepType, StepReport, StepPast, StepState DEF FInv, ReportInv, PastInv, StateInv
------------------------------------------------------------------------------
(* Every variable keeps its type; the watcher never looks past the files.  *)
THEOREM TypeCorrect == Spec => []TypeOK
  BY InitFInv, StepFInv, PTL DEF Spec, FInv

(* state_file.go:125-147 -- a snapshot never advances silently: it is      *)
(* about to be reported, reported or pending until the process is replaced.*)
THEOREM MovesAreReported == Spec => []MovedIsReported
  BY InitFInv, StepFInv, PTL DEF Spec, FInv

(* constants.go:14-15 -- the watcher never reports a file in the middle of *)
(* a write, given writers that finish within the settle interval.          *)
THEOREM ReportsAreWhole == Spec => []ReportedIsWhole
  BY InitFInv, StepFInv, PTL DEF Spec, FInv

(* serve.go:79-83 -- the order of the two reads of the state file: what    *)
(* the watcher compares with is never newer than what was loaded.          *)
THEOREM SnapshotNotNewer == Spec => []StateSnapshotIsNotNewer
  BY InitFInv, StepFInv, PTL DEF Spec, FInv
=============================================================================
