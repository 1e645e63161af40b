---------------------------- MODULE RuntimeFiles ----------------------------
(***************************************************************************)
(* The files a serve process follows: the state file and the kubeconfig    *)
(* files of the active loading rules.  loadServeRuntime (serve.go) reads   *)
(* them once and takes the snapshots watchRuntimeFiles (state_file.go)     *)
(* compares against afterwards; every read of a file is a step, and other  *)
(* programs write the files in between.  A noticed change is reported on   *)
(* the channel runtimeChanged, and the process is replaced, which loads    *)
(* everything again.                                                       *)
(*                                                                         *)
(* A checksum is modelled by the content it identifies.  Each write makes  *)
(* a content never seen before: of the files that return to the bytes of a *)
(* snapshot before the next poll, only removed ones are modelled.  Drains  *)
(* and timers are in ServeLoop; here a replacement may follow any report.  *)
(***************************************************************************)
EXTENDS Integers, Sequences

CONSTANTS
    State,         \* the state file
    Kubeconfigs,   \* the kubeconfig files, in loading order
    Absent,        \* what a file that does not exist holds
    MaxWrites      \* bound on the writes, removals included

KubeFiles == {Kubeconfigs[i] : i \in 1..Len(Kubeconfigs)}
Files == {State} \cup KubeFiles

(* A content is told apart by the write that made it; it is not whole      *)
(* while an in-place writer is part way through.                           *)
Content == [write : 0..MaxWrites, whole : BOOLEAN]

ASSUME FilesAssumption ==
    /\ Kubeconfigs \in Seq(KubeFiles)
    /\ \A i, j \in 1..Len(Kubeconfigs) : Kubeconfigs[i] = Kubeconfigs[j] => i = j
    /\ State \notin KubeFiles
    /\ MaxWrites \in Nat
    /\ Absent \notin Content

VARIABLES
    disk,       \* what each file holds
    writes,     \* writes so far
    phase,      \* where loadServeRuntime stands, then "watch", or "stopped"
    next,       \* index of the kubeconfig file read next (load or watch)
    loaded,     \* the content the running configuration was built from
    snapshot,   \* the watcher's snapshot of each file
    moved,      \* files whose snapshot advanced since the load
    watcher,    \* where the watcher goroutine stands
    seen,       \* the content it read last of the file it looks at
    seenState,  \* nextState: the state file as read at the start of a poll
    changed,    \* the event in the channel runtimeChanged, or "none"
    pending     \* pendingRuntimeChange # nil

writerVars == <<disk, writes>>
loadVars == <<phase, loaded>>
watchVars == <<moved, watcher, seen, seenState>>
vars == <<writerVars, loadVars, next, snapshot, watchVars, changed, pending>>

TypeOK ==
    /\ disk \in [Files -> Content \cup {Absent}]
    /\ writes \in 0..MaxWrites
    /\ phase \in {"snapState", "loadState", "loadKube", "snapKube", "watch", "stopped"}
    /\ next \in 1..(Len(Kubeconfigs) + 1)
    /\ loaded \in [Files -> Content \cup {Absent}]
    /\ snapshot \in [Files -> Content \cup {Absent}]
    /\ moved \subseteq Files
    /\ watcher \in {"off", "idle", "compare", "settleKube", "settleState",
                    "send", "sendError", "closed"}
    /\ seen \in Content \cup {Absent}
    /\ seenState \in Content \cup {Absent}
    /\ changed \in {"none", "change", "error"}
    /\ pending \in BOOLEAN

Init ==
    /\ disk \in [Files -> {[write |-> 0, whole |-> TRUE], Absent}]
    /\ disk[State] # Absent
    /\ writes = 0
    /\ phase = "snapState" /\ next = 1
    /\ loaded = [f \in Files |-> Absent]
    /\ snapshot = [f \in Files |-> Absent]
    /\ moved = {}
    /\ watcher = "off" /\ seen = Absent /\ seenState = Absent
    /\ changed = "none" /\ pending = FALSE
------------------------------------------------------------------------------
(* Other programs: kubectl and client-go rewrite kubeconfigs in place, the *)
(* proxy's own commands replace files by rename, users edit and remove.    *)

Write(f, content) ==
    /\ writes < MaxWrites
    /\ writes' = writes + 1
    /\ disk' = [disk EXCEPT ![f] = content]
    /\ UNCHANGED <<loadVars, next, snapshot, watchVars, changed, pending>>

BeginWrite(f) == Write(f, [write |-> writes + 1, whole |-> FALSE])
Rename(f) == Write(f, [write |-> writes + 1, whole |-> TRUE])
Remove(f) == disk[f] # Absent /\ Write(f, Absent)

FinishWrite(f) ==
    /\ disk[f] # Absent /\ ~disk[f].whole
    /\ disk' = [disk EXCEPT ![f].whole = TRUE]
    /\ UNCHANGED <<writes, loadVars, next, snapshot, watchVars, changed, pending>>
------------------------------------------------------------------------------
(* loadServeRuntime.                                                       *)

Whole(content) == IF content = Absent THEN FALSE ELSE content.whole
Partial(content) == content # Absent /\ ~Whole(content)

SnapState ==
    /\ phase = "snapState"
    /\ snapshot' = [snapshot EXCEPT ![State] = disk[State]]
    /\ phase' = IF disk[State] = Absent THEN "stopped" ELSE "loadState"
    /\ UNCHANGED <<writerVars, loaded, next, watchVars, changed, pending>>

(* Parsing or validating a partial file may fail or succeed.               *)
LoadState ==
    /\ phase = "loadState"
    /\ loaded' = [loaded EXCEPT ![State] = disk[State]]
    /\ \/ disk[State] # Absent /\ phase' = "loadKube"
       \/ ~Whole(disk[State]) /\ phase' = "stopped"
    /\ next' = 1
    /\ UNCHANGED <<writerVars, snapshot, watchVars, changed, pending>>

(* client-go skips missing files of the default rules and fails on a       *)
(* missing explicit one; a configuration without contexts is an error.     *)
LoadKube ==
    /\ phase = "loadKube" /\ next <= Len(Kubeconfigs)
    /\ LET k == Kubeconfigs[next] IN
         /\ loaded' = [loaded EXCEPT ![k] = disk[k]]
         /\ \/ next' = next + 1 /\ UNCHANGED phase
            \/ ~Whole(disk[k]) /\ phase' = "stopped" /\ UNCHANGED next
    /\ UNCHANGED <<writerVars, snapshot, watchVars, changed, pending>>

LoadedAll ==
    /\ phase = "loadKube" /\ next > Len(Kubeconfigs)
    /\ phase' = "snapKube" /\ next' = 1
    /\ UNCHANGED <<writerVars, loaded, snapshot, watchVars, changed, pending>>

(* snapshotKubeconfigFiles reads the files again, after the load.          *)
SnapKube ==
    /\ phase = "snapKube" /\ next <= Len(Kubeconfigs)
    /\ snapshot' = [snapshot EXCEPT ![Kubeconfigs[next]] = disk[Kubeconfigs[next]]]
    /\ next' = next + 1
    /\ UNCHANGED <<writerVars, loadVars, watchVars, changed, pending>>

(* Mutant: the watcher reads the state file anew to compare with.          *)
StartWatchingFresh ==
    /\ phase = "snapKube" /\ next > Len(Kubeconfigs)
    /\ phase' = "watch" /\ watcher' = "idle"
    /\ snapshot' = [snapshot EXCEPT ![State] = disk[State]]
    /\ UNCHANGED <<writerVars, loaded, next, moved, seen, seenState, changed, pending>>

StartWatching ==
    /\ phase = "snapKube" /\ next > Len(Kubeconfigs)
    /\ phase' = "watch" /\ watcher' = "idle"
    /\ UNCHANGED <<writerVars, loaded, next, snapshot, moved, seen, seenState, changed, pending>>

(* A snapshot read, the selection of contexts, the clients, the            *)
(* certificate or the listener fails, and the process exits.               *)
SetupFails ==
    /\ phase = "snapKube"
    /\ phase' = "stopped"
    /\ UNCHANGED <<writerVars, loaded, next, snapshot, watchVars, changed, pending>>
------------------------------------------------------------------------------
(* The goroutine of watchRuntimeFiles, one read per step.                  *)

(* Mutant: a missing state file is waited for, as a kubeconfig file is.    *)
PollOptional ==
    /\ phase = "watch" /\ watcher = "idle"
    /\ seenState' = disk[State]
    /\ watcher' = IF disk[State] = Absent THEN "idle" ELSE "compare"
    /\ next' = 1
    /\ UNCHANGED <<writerVars, loadVars, snapshot, moved, seen, changed, pending>>

Poll ==
    /\ phase = "watch" /\ watcher = "idle"
    /\ seenState' = disk[State]
    /\ watcher' = IF disk[State] = Absent THEN "sendError" ELSE "compare"
    /\ next' = 1
    /\ UNCHANGED <<writerVars, loadVars, snapshot, moved, seen, changed, pending>>

(* Mutant: a kubeconfig file that is missing is skipped.                   *)
CompareKubeSkipsMissing ==
    /\ phase = "watch" /\ watcher = "compare" /\ next <= Len(Kubeconfigs)
    /\ LET k == Kubeconfigs[next] IN
         /\ seen' = disk[k]
         /\ IF snapshot[k] = disk[k] \/ disk[k] = Absent
              THEN next' = next + 1 /\ UNCHANGED watcher
              ELSE watcher' = "settleKube" /\ UNCHANGED next
    /\ UNCHANGED <<writerVars, loadVars, snapshot, moved, seenState, changed, pending>>

(* Mutant: a change is reported as soon as it is seen.                     *)
CompareKubeUnsettled ==
    /\ phase = "watch" /\ watcher = "compare" /\ next <= Len(Kubeconfigs)
    /\ LET k == Kubeconfigs[next] IN
         /\ seen' = disk[k]
         /\ IF snapshot[k] = disk[k]
              THEN next' = next + 1 /\ UNCHANGED <<watcher, snapshot, moved>>
              ELSE /\ snapshot' = [snapshot EXCEPT ![k] = disk[k]]
                   /\ moved' = moved \cup {k}
                   /\ watcher' = "send" /\ UNCHANGED next
    /\ UNCHANGED <<writerVars, loadVars, seenState, changed, pending>>

CompareKube ==
    /\ phase = "watch" /\ watcher = "compare" /\ next <= Len(Kubeconfigs)
    /\ LET k == Kubeconfigs[next] IN
         /\ seen' = disk[k]
         /\ IF snapshot[k] = disk[k]
              THEN next' = next + 1 /\ UNCHANGED watcher
              ELSE watcher' = "settleKube" /\ UNCHANGED next
    /\ UNCHANGED <<writerVars, loadVars, snapshot, moved, seenState, changed, pending>>

CompareState ==
    /\ phase = "watch" /\ watcher = "compare" /\ next > Len(Kubeconfigs)
    /\ seen' = seenState
    /\ watcher' = IF snapshot[State] = seenState THEN "idle" ELSE "settleState"
    /\ UNCHANGED <<writerVars, loadVars, next, snapshot, moved, seenState, changed, pending>>

(* A writer is done within runtimeFileSettleInterval: content read part    *)
(* way through a write is not read again unchanged after the interval.     *)
WriterKeptUp(f) == ~(disk[f] = seen /\ Partial(seen))

(* The timer fired and the file reads as before: it is stable.             *)
Stable(f) == WriterKeptUp(f) /\ disk[f] = seen

StillChanging(f) ==
    /\ WriterKeptUp(f) /\ disk[f] # seen
    /\ seen' = disk[f]
    /\ UNCHANGED <<snapshot, moved, watcher>>

TakeSnapshot(f) ==
    /\ snapshot' = [snapshot EXCEPT ![f] = seen]
    /\ moved' = moved \cup {f}
    /\ watcher' = "send"

SettleKube ==
    /\ phase = "watch" /\ watcher = "settleKube"
    /\ LET k == Kubeconfigs[next] IN
         \/ StillChanging(k) /\ UNCHANGED next
         \/ Stable(k) /\ snapshot[k] # seen /\ TakeSnapshot(k) /\ UNCHANGED <<seen, next>>
         \/ /\ Stable(k) /\ snapshot[k] = seen
            /\ watcher' = "compare" /\ next' = next + 1
            /\ UNCHANGED <<snapshot, moved, seen>>
    /\ UNCHANGED <<writerVars, loadVars, seenState, changed, pending>>

(* A state file removed while it settles is an error, as at a poll.        *)
SettleState ==
    /\ phase = "watch" /\ watcher = "settleState"
    /\ \/ disk[State] = Absent /\ watcher' = "sendError" /\ UNCHANGED <<snapshot, moved, seen>>
       \/ disk[State] # Absent /\ StillChanging(State)
       \/ /\ disk[State] # Absent /\ Stable(State) /\ snapshot[State] # seen
          /\ TakeSnapshot(State) /\ UNCHANGED seen
       \/ /\ disk[State] # Absent /\ Stable(State) /\ snapshot[State] = seen
          /\ watcher' = "idle" /\ UNCHANGED <<snapshot, moved, seen>>
    /\ UNCHANGED <<writerVars, loadVars, next, seenState, changed, pending>>

(* Any read may fail for another reason than a missing file.               *)
ReadFails ==
    /\ phase = "watch" /\ watcher \in {"idle", "compare", "settleKube", "settleState"}
    /\ watcher' = "sendError"
    /\ UNCHANGED <<writerVars, loadVars, next, snapshot, moved, seen, seenState, changed, pending>>

(* sendRuntimeFileEvent blocks while the channel is full.                  *)
Send ==
    /\ phase = "watch" /\ changed = "none"
    /\ \/ watcher = "send" /\ changed' = "change" /\ watcher' = "idle"
       \/ watcher = "sendError" /\ changed' = "error" /\ watcher' = "closed"
    /\ UNCHANGED <<writerVars, loadVars, next, snapshot, moved, seen, seenState, pending>>
------------------------------------------------------------------------------
(* serveHTTP's side of the channel.                                        *)

ReceiveChange ==
    /\ phase = "watch" /\ changed = "change"
    /\ changed' = "none" /\ pending' = TRUE
    /\ UNCHANGED <<writerVars, loadVars, next, snapshot, watchVars>>

ReceiveError ==
    /\ phase = "watch" /\ changed = "error"
    /\ changed' = "none" /\ phase' = "stopped"
    /\ UNCHANGED <<writerVars, loaded, next, snapshot, watchVars, pending>>

(* exec replaces the process: the watcher ends and everything is reloaded. *)
Replace ==
    /\ phase = "watch" /\ pending
    /\ phase' = "snapState" /\ next' = 1
    /\ pending' = FALSE /\ changed' = "none"
    /\ watcher' = "off" /\ moved' = {}
    /\ loaded' = [f \in Files |-> Absent] /\ snapshot' = [f \in Files |-> Absent]
    /\ seen' = Absent /\ seenState' = Absent
    /\ UNCHANGED writerVars

Load ==
    \/ SnapState \/ LoadState \/ LoadKube \/ LoadedAll
    \/ SnapKube \/ StartWatching \/ SetupFails
Watch == Poll \/ CompareKube \/ CompareState \/ SettleKube \/ SettleState \/ Send
Receive == ReceiveChange \/ ReceiveError
Writer(f) == BeginWrite(f) \/ Rename(f) \/ Remove(f)

Next ==
    \/ \E f \in Files : Writer(f) \/ FinishWrite(f)
    \/ Load \/ Watch \/ ReadFails \/ Receive \/ Replace

Spec == Init /\ [][Next]_vars

(* The process runs, in-place writers finish, and requests leave the idle  *)
(* window a pending replacement needs.                                     *)
Fairness ==
    /\ WF_vars(Load) /\ WF_vars(Watch) /\ WF_vars(Receive) /\ WF_vars(Replace)
    /\ \A f \in Files : WF_vars(FinishWrite(f))

FairSpec == Spec /\ Fairness
------------------------------------------------------------------------------
(* Correctness.                                                            *)

(* state_file.go:125-147 -- a snapshot never advances silently: until the  *)
(* process is replaced, a moved snapshot is about to be reported, is       *)
(* reported, or is pending.                                                *)
MovedIsReported ==
    phase = "watch" /\ moved # {} => watcher = "send" \/ changed = "change" \/ pending

(* constants.go:14-15 -- what is reported as a change is a file its writer *)
(* has finished, given writers that finish within the settle interval.     *)
ReportedIsWhole ==
    phase = "watch" => \A f \in moved : ~Partial(snapshot[f])

(* serve.go:79-83 -- the state snapshot is taken before the state is read: *)
(* the configuration never comes from an older state file than the one the *)
(* watcher compares with.                                                  *)
StateSnapshotIsNotNewer ==
    phase \in {"loadKube", "snapKube", "watch"} /\ State \notin moved =>
        snapshot[State].write <= loaded[State].write

(* state_file.go:108-148 -- a file that differs from the watcher's         *)
(* snapshot leads to a replacement or a stop, whatever else changes        *)
(* meanwhile, unless it is removed again before the watcher reads it.      *)
WatchedChangeActsOn ==
    \A f \in Files :
        (phase = "watch" /\ disk[f] # snapshot[f])
            ~> (phase # "watch" \/ pending \/ (f \notin moved /\ disk[f] = snapshot[f]))

(* README.md:175-178 -- once the files are left alone, a process that goes *)
(* on serving serves the state file as it is.                              *)
StateFileIsFollowed ==
    <>[](phase = "watch" => loaded[State] = disk[State])

(* ARCHITECTURE.md:212 -- a state file removed for good stops the server.  *)
RemovedStateStops == <>[](disk[State] = Absent) => <>(phase = "stopped")

(* README.md:175-178 -- the same of every source kubeconfig file.          *)
KubeconfigsAreFollowed ==
    <>[](phase = "watch" => \A k \in KubeFiles : loaded[k] = disk[k])
=============================================================================
