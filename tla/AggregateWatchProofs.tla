------------------------- MODULE AggregateWatchProofs -------------------------
(***************************************************************************)
(* Theorems about AggregateWatch, for any number of targets and events.    *)
(* The argument: writeMu is held exactly while a copier has marked a line  *)
(* and not written it, so between critical sections the shared vector is   *)
(* the position the client has reached, and inside one it is ahead by the  *)
(* holder's line only.  A client that left receives nothing more, so what  *)
(* it has received stays as it was.                                        *)
(***************************************************************************)
EXTENDS AggregateWatch, TLAPS

Streams == {"initial", "streaming", "closing"}

(* The copiers run only while the handler streams.                         *)
CopiersStand ==
    /\ handler \in {"asking", "opening", "initial"} =>
         holder = None /\ \A t \in Targets : copier[t] = "off"
    /\ handler = "done" =>
         holder = None /\ \A t \in Targets : copier[t] \in {"off", "signalled"}
    /\ \A t \in Targets : t \notin members => copier[t] = "off"
    /\ \A t \in Targets : copier[t] = "reading" => line[t] # None
    /\ handler \in Streams => status = "ok"
    /\ handler \in {"asking", "opening"} => status = "none" /\ out = None

Mutex == \A t \in Targets : copier[t] = "marked" <=> holder = t

(* What a copier holds is the next event of its stream.                    *)
LinesFollow ==
    ~clientGone /\ handler \in Streams =>
        \A t \in Targets :
            /\ copier[t] = "reading" => line[t] = delivered[t]
            /\ copier[t] \in {"line", "marked"} /\ line[t] # None => line[t] = delivered[t] + 1

(* The vector and the client's position.                                   *)
VectorFollows ==
    ~clientGone /\ handler \in {"opening"} \cup Streams =>
        /\ holder = None => vector = delivered
        /\ \A t \in Targets : holder = t =>
             /\ marked[t] = IF line[t] = None THEN None ELSE vector
             /\ vector = IF line[t] = None THEN delivered ELSE [delivered EXCEPT ![t] = line[t]]

WInv == TypeOK /\ CopiersStand /\ Mutex /\ LinesFollow /\ VectorFollows /\ StampIsPosition

LEMMA NoneApart == None \notin Targets /\ None \notin 0..MaxVersion /\ None \notin VersionVector
  BY WatchAssumption

LEMMA SetCoordinate ==
    ASSUME NEW f \in VersionVector, NEW t \in Targets, NEW v \in 0..MaxVersion
    PROVE  [f EXCEPT ![t] = v] \in VersionVector
  BY DEF VersionVector

LEMMA Coordinate ==
    ASSUME NEW f \in VersionVector, NEW t \in Targets
    PROVE  f[t] \in 0..MaxVersion
  BY DEF VersionVector

LEMMA InitWInv == Init => WInv
<1> SUFFICES ASSUME Init PROVE WInv
  OBVIOUS
<1>1. Zero \in VersionVector
  BY WatchAssumption DEF Zero, VersionVector
<1>2. [t \in Targets |-> FirstVersion] \in VersionVector /\ 0 \in 0..MaxVersion
  BY WatchAssumption DEF VersionVector
<1>3. TypeOK
  <2>1. head \in VersionVector /\ vector \in VersionVector /\ delivered \in VersionVector
    BY <1>1, <1>2 DEF Init
  <2>2. /\ line \in [Targets -> 0..MaxVersion \cup {None}]
        /\ marked \in [Targets -> VersionVector \cup {None}]
    BY <1>2 DEF Init
  <2>3. completed \in Seq(Targets)
    BY DEF Init
  <2> QED
    BY <2>1, <2>2, <2>3 DEF Init, TypeOK
<1>4. CopiersStand
  BY DEF Init, CopiersStand, Streams
<1>5. Mutex
  BY NoneApart DEF Init, Mutex
<1>6. LinesFollow /\ VectorFollows /\ StampIsPosition
  BY DEF Init, LinesFollow, VectorFollows, StampIsPosition, Streams
<1> QED
  BY <1>3, <1>4, <1>5, <1>6 DEF WInv

LEMMA TypePreserved == WInv /\ [Next]_vars => TypeOK'
<1> SUFFICES ASSUME WInv, [Next]_vars PROVE TypeOK'
  OBVIOUS
<1>0. TypeOK
  BY DEF WInv
<1> USE <1>0 DEF TypeOK
<1>1. CASE UNCHANGED vars
  BY <1>1 DEF vars, askVars, openVars, copyVars, clientVars
<1>2. ASSUME NEW t \in Targets, ClusterEvent(t) PROVE TypeOK'
  <2>1. head[t] \in 0..MaxVersion
    BY Coordinate
  <2>2. head[t] + 1 \in 0..MaxVersion
    BY <1>2, <2>1, WatchAssumption DEF ClusterEvent
  <2>3. head' \in VersionVector
    BY <1>2, <2>2, SetCoordinate DEF ClusterEvent
  <2> QED
    BY <1>2, <2>3 DEF ClusterEvent, askVars, openVars, copyVars, clientVars
<1>3. CASE ClientLeaves
  BY <1>3 DEF ClientLeaves, askVars, openVars, copyVars, clientVars
<1>4. ASSUME NEW t \in Targets, Answer(t) PROVE TypeOK'
  <2>1. vector' \in VersionVector
    <3>1. ASSUME NEW v \in 1..head[t] PROVE v \in 0..MaxVersion
      BY <3>1, Coordinate, WatchAssumption
    <3> QED
      BY <1>4, <3>1, SetCoordinate DEF Answer
  <2>2. answer' \in [Targets -> {"waiting", "found", "missing", "error"}]
    BY <1>4 DEF Answer
  <2> QED
    BY <1>4, <2>1, <2>2 DEF Answer, openVars, copyVars, clientVars
<1>5. ASSUME NEW targets \in SUBSET Targets, NEW versions \in VersionVector,
             OpenAll(targets, versions), UNCHANGED DecideKept, initialLeft' \subseteq Targets
      PROVE TypeOK'
  BY <1>5 DEF OpenAll, DecideKept, copyVars
<1>6. ASSUME NEW how \in {"failed", "badRequest"}, GiveUp(how), UNCHANGED DecideKept
      PROVE TypeOK'
  BY <1>6 DEF GiveUp, DecideKept, copyVars
<1>7. CASE DecideNamed
  BY <1>5, <1>6, <1>7 DEF DecideNamed, Found
<1>8. CASE DecideListed
  BY <1>5, <1>6, <1>8 DEF DecideListed
<1>9. CASE DecideRequested
  <2>1. CASE request.version.form = "plain"
    <3>1. request.version.of \in 0..MaxVersion
      BY <2>1, WatchAssumption DEF RequestType
    <3>2. [t \in Targets |-> request.version.of] \in VersionVector
      BY <3>1 DEF VersionVector
    <3> QED
      BY <1>5, <1>9, <2>1, <3>2 DEF DecideRequested
  <2>2. CASE request.version.form = "aggregate" /\ (\A t \in Targets : request.version.of[t] # 0)
    <3>1. request.version.of \in VersionVector
      BY <2>2, WatchAssumption DEF RequestType
    <3> QED
      BY <1>5, <1>9, <2>2, <3>1 DEF DecideRequested
  <2>3. CASE GiveUp("badRequest")
    BY <1>6, <1>9, <2>3 DEF DecideRequested
  <2> QED
    BY <1>9, <2>1, <2>2, <2>3 DEF DecideRequested
<1>10. ASSUME NEW t \in Targets, OpenStep(t) PROVE TypeOK'
  <2>0. Append(completed, t) \in Seq(Targets)
    OBVIOUS
  <2>1. completed' \in Seq(Targets)
    BY <1>10, <2>0 DEF OpenStep, OpenAnswered, OpenCancelled
  <2> QED
    BY <1>10, <2>1
    DEF OpenStep, OpenAnswered, OpenCancelled, OpenKept, askVars, copyVars, clientVars
<1>11. CASE CollectOpen
  <2>1. Head(completed) \in Targets /\ Tail(completed) \in Seq(Targets)
    BY <1>11 DEF CollectOpen
  <2> QED
    BY <1>11, <2>1 DEF CollectOpen, askVars, copyVars, clientVars
<1>12. CASE OpensFailed
  <2>1. CloseAll \in [Targets -> {"none", "dialing", "open", "ended", "closed"}]
    BY DEF CloseAll
  <2> QED
    BY <1>12, <2>1 DEF OpensFailed, askVars, copyVars
<1>13. CASE OpensDone
  BY <1>13 DEF OpensDone, askVars, openVars, copyVars
<1>14. ASSUME NEW t \in Targets, WriteInitial(t) PROVE TypeOK'
  BY <1>14 DEF WriteInitial, openVars, copyVars
<1>15. CASE StartCopiers
  <2>1. line' \in [Targets -> 0..MaxVersion \cup {None}]
    BY <1>15 DEF StartCopiers, VersionVector
  <2> QED
    BY <1>15, <2>1 DEF StartCopiers, askVars, openVars, clientVars
<1>16. CASE SeeEnd \/ Return
  <2>1. CloseAll \in [Targets -> {"none", "dialing", "open", "ended", "closed"}]
    BY DEF CloseAll
  <2> QED
    BY <1>16, <2>1 DEF SeeEnd, Return, askVars, openVars, copyVars, clientVars
<1>17. ASSUME NEW t \in Targets, ReadLine(t) PROVE TypeOK'
  <2>1. line[t] \in 0..MaxVersion /\ head[t] \in 0..MaxVersion
    BY <1>17, Coordinate DEF ReadLine, WInv, CopiersStand
  <2>2. line[t] + 1 \in 0..MaxVersion
    BY <1>17, <2>1, WatchAssumption DEF ReadLine
  <2> QED
    BY <1>17, <2>2 DEF ReadLine, CopyKept, askVars
<1>18. ASSUME NEW t \in Targets, ReadError(t) \/ ReadEnd(t) \/ Signal(t) PROVE TypeOK'
  <2>1. CASE ReadError(t)
    BY <2>1 DEF ReadError, CopyKept, askVars
  <2>2. CASE ReadEnd(t)
    BY <2>2 DEF ReadEnd, CopyKept, askVars
  <2>3. CASE Signal(t)
    BY <2>3 DEF Signal, CopyKept, askVars
  <2> QED
    BY <1>18, <2>1, <2>2, <2>3
<1>19. ASSUME NEW t \in Targets, MarkEvent(t) PROVE TypeOK'
  <2>1. CASE line[t] = None
    BY <1>19, <2>1 DEF MarkEvent, CopyKept, askVars
  <2>2. CASE line[t] # None
    <3>1. vector' \in VersionVector
      BY <1>19, <2>2, SetCoordinate DEF MarkEvent
    <3> QED
      BY <1>19, <2>2, <3>1 DEF MarkEvent, CopyKept, askVars
  <2> QED
    BY <2>1, <2>2
<1>20. ASSUME NEW t \in Targets, WriteEvent(t) PROVE TypeOK'
  <2>1. delivered' \in VersionVector /\ out' \in VersionVector \cup {None}
    BY <1>20, SetCoordinate DEF WriteEvent
  <2> QED
    BY <1>20, <2>1 DEF WriteEvent, CopyKept, askVars
<1> QED
  BY <1>1, <1>2, <1>3, <1>4, <1>7, <1>8, <1>9, <1>10, <1>11, <1>12, <1>13, <1>14, <1>15,
     <1>16, <1>17, <1>18, <1>19, <1>20
  DEF Next, HandlerStep, CopyStep

LEMMA CopiersPreserved == WInv /\ [Next]_vars => CopiersStand' /\ Mutex'
<1> SUFFICES ASSUME WInv, [Next]_vars PROVE CopiersStand' /\ Mutex'
  OBVIOUS
<1>0. /\ copier \in [Targets -> {"off", "reading", "line", "marked", "ended", "signalled"}]
      /\ line \in [Targets -> 0..MaxVersion \cup {None}]
      /\ holder \in Targets \cup {None} /\ members \subseteq Targets
      /\ None \notin Targets /\ None \notin 0..MaxVersion
      /\ vector \in VersionVector
  BY NoneApart DEF WInv, TypeOK
<1> USE DEF WInv, CopiersStand, Mutex, Streams
<1>1. CASE UNCHANGED vars
  BY <1>1 DEF vars, askVars, openVars, copyVars, clientVars
<1>2. ASSUME NEW t \in Targets, ClusterEvent(t) \/ Answer(t) \/ OpenStep(t)
      PROVE CopiersStand' /\ Mutex'
  BY <1>2 DEF ClusterEvent, Answer, OpenStep, OpenAnswered, OpenCancelled, OpenKept,
              askVars, openVars, copyVars, clientVars
<1>3. CASE ClientLeaves \/ CollectOpen
  BY <1>3 DEF ClientLeaves, CollectOpen, askVars, copyVars, clientVars
<1>4. CASE DecideNamed \/ DecideListed \/ DecideRequested
  BY <1>4 DEF DecideNamed, DecideListed, DecideRequested, OpenAll, GiveUp, DecideKept, copyVars
<1>5. CASE OpensFailed \/ OpensDone
  BY <1>5 DEF OpensFailed, OpensDone, askVars, openVars, copyVars
<1>6. ASSUME NEW t \in Targets, WriteInitial(t) PROVE CopiersStand' /\ Mutex'
  BY <1>6 DEF WriteInitial, openVars, copyVars
<1>7. CASE StartCopiers
  <2>1. \A t \in Targets : vector[t] # None
    BY <1>0, Coordinate
  <2> QED
    BY <1>0, <1>7, <2>1 DEF StartCopiers, askVars, openVars, clientVars
<1>8. CASE SeeEnd \/ Return
  BY <1>0, <1>8 DEF SeeEnd, Return, askVars, openVars, copyVars, clientVars
<1>9. ASSUME NEW t \in Targets, ReadLine(t) \/ ReadError(t) \/ ReadEnd(t) \/ Signal(t)
      PROVE CopiersStand' /\ Mutex'
  BY <1>0, <1>9 DEF ReadLine, ReadError, ReadEnd, Signal, CopyKept, askVars
<1>10. ASSUME NEW t \in Targets, MarkEvent(t) PROVE CopiersStand' /\ Mutex'
  BY <1>0, <1>10 DEF MarkEvent, CopyKept, askVars
<1>11. ASSUME NEW t \in Targets, WriteEvent(t) PROVE CopiersStand' /\ Mutex'
  BY <1>0, <1>11 DEF WriteEvent, CopyKept, askVars
<1> QED
  BY <1>1, <1>2, <1>3, <1>4, <1>5, <1>6, <1>7, <1>8, <1>9, <1>10, <1>11
  DEF Next, HandlerStep, CopyStep

LEMMA VectorPreserved == WInv /\ [Next]_vars => (LinesFollow /\ VectorFollows /\ StampIsPosition)'
<1> SUFFICES ASSUME WInv, [Next]_vars PROVE (LinesFollow /\ VectorFollows /\ StampIsPosition)'
  OBVIOUS
<1>0. /\ copier \in [Targets -> {"off", "reading", "line", "marked", "ended", "signalled"}]
      /\ line \in [Targets -> 0..MaxVersion \cup {None}]
      /\ marked \in [Targets -> VersionVector \cup {None}]
      /\ holder \in Targets \cup {None} /\ members \subseteq Targets
      /\ None \notin Targets /\ None \notin 0..MaxVersion /\ None \notin VersionVector
      /\ vector \in VersionVector /\ delivered \in VersionVector
      /\ handler \in {"asking", "opening", "initial", "streaming", "closing", "done"}
  BY NoneApart DEF WInv, TypeOK
<1> USE DEF WInv, LinesFollow, VectorFollows, StampIsPosition, Streams
<1>1. CASE UNCHANGED vars
  BY <1>1 DEF vars, askVars, openVars, copyVars, clientVars
<1>2. ASSUME NEW t \in Targets, ClusterEvent(t) \/ Answer(t) \/ OpenStep(t)
      PROVE (LinesFollow /\ VectorFollows /\ StampIsPosition)'
  BY <1>2 DEF ClusterEvent, Answer, OpenStep, OpenAnswered, OpenCancelled, OpenKept,
              askVars, openVars, copyVars, clientVars
<1>3. CASE ClientLeaves \/ CollectOpen
  BY <1>3 DEF ClientLeaves, CollectOpen, askVars, copyVars, clientVars
<1>4. CASE DecideNamed \/ DecideListed \/ DecideRequested
  <2>1. out = None /\ out' = None /\ UNCHANGED copyVars /\ holder = None
    BY <1>4 DEF DecideNamed, DecideListed, DecideRequested, OpenAll, GiveUp, DecideKept, CopiersStand
  <2>2. handler' = "done" \/ (handler' = "opening" /\ vector' = delivered')
    BY <1>4 DEF DecideNamed, DecideListed, DecideRequested, OpenAll, GiveUp
  <2> QED
    BY <1>0, <2>1, <2>2 DEF copyVars
<1>5. CASE OpensFailed \/ OpensDone
  BY <1>0, <1>5 DEF OpensFailed, OpensDone, CopiersStand, askVars, openVars, copyVars
<1>6. ASSUME NEW t \in Targets, WriteInitial(t)
      PROVE (LinesFollow /\ VectorFollows /\ StampIsPosition)'
  BY <1>0, <1>6 DEF WriteInitial, CopiersStand, openVars, copyVars
<1>7. CASE StartCopiers
  BY <1>0, <1>7 DEF StartCopiers, CopiersStand, askVars, openVars, clientVars
<1>8. CASE SeeEnd \/ Return
  BY <1>0, <1>8 DEF SeeEnd, Return, CopiersStand, askVars, openVars, copyVars, clientVars
<1>9. ASSUME NEW t \in Targets, ReadLine(t) \/ ReadError(t) \/ ReadEnd(t) \/ Signal(t)
      PROVE (LinesFollow /\ VectorFollows /\ StampIsPosition)'
  BY <1>0, <1>9 DEF ReadLine, ReadError, ReadEnd, Signal, CopyKept, askVars, Mutex
<1>10. ASSUME NEW t \in Targets, MarkEvent(t)
       PROVE (LinesFollow /\ VectorFollows /\ StampIsPosition)'
  <2>1. LinesFollow' /\ StampIsPosition'
    BY <1>0, <1>10 DEF MarkEvent, CopyKept, askVars
  <2>2. CASE line[t] = None
    BY <1>0, <1>10, <2>2 DEF MarkEvent, CopyKept, askVars
  <2>3. CASE line[t] # None
    <3>1. /\ vector' = [vector EXCEPT ![t] = line[t]]
          /\ marked'[t] = vector' /\ holder' = t /\ holder = None
          /\ line' = line /\ delivered' = delivered
          /\ handler' = handler /\ clientGone' = clientGone
      BY <1>0, <1>10, <2>3 DEF MarkEvent, CopyKept, askVars
    <3>2. VectorFollows'
      BY <1>0, <2>3, <3>1
    <3> QED
      BY <2>1, <3>2
  <2> QED
    BY <2>2, <2>3
<1>11. ASSUME NEW t \in Targets, WriteEvent(t)
       PROVE (LinesFollow /\ VectorFollows /\ StampIsPosition)'
  <2>1. holder = t /\ handler \in {"streaming", "closing"}
    BY <1>0, <1>11 DEF WriteEvent, Mutex, CopiersStand
  <2>2. CASE clientGone
    BY <1>11, <2>2 DEF WriteEvent, CopyKept
  <2>3. CASE ~clientGone /\ line[t] = None
    <3>1. marked[t] = None /\ vector = delivered
      BY <2>1, <2>3
    <3>2. out' = None /\ delivered' = delivered /\ vector' = vector /\ holder' = None
          /\ line' = line /\ clientGone' = clientGone /\ handler' = handler
      BY <1>11, <2>3, <3>1 DEF WriteEvent, CopyKept
    <3>3. \A u \in Targets : copier'[u] = IF u = t THEN "ended" ELSE copier[u]
      BY <1>0, <1>11, <2>3 DEF WriteEvent
    <3> QED
      BY <1>0, <2>1, <2>3, <3>1, <3>2, <3>3
  <2>4. CASE ~clientGone /\ line[t] # None
    <3>1. marked[t] = vector /\ vector = [delivered EXCEPT ![t] = line[t]]
      BY <2>1, <2>4
    <3>2. out' = vector /\ delivered' = vector /\ vector' = vector /\ holder' = None
          /\ line' = line /\ clientGone' = clientGone /\ handler' = handler
      BY <1>11, <2>4, <3>1 DEF WriteEvent, CopyKept
    <3>3. \A u \in Targets : IF u = t THEN copier'[u] \in {"ended", "reading"}
                                      ELSE copier'[u] = copier[u] /\ delivered'[u] = delivered[u]
      BY <1>0, <1>11, <2>4, <3>1, <3>2 DEF WriteEvent
    <3>4. delivered'[t] = line[t]
      BY <1>0, <3>1, <3>2 DEF VersionVector
    <3>5. LinesFollow'
      BY <1>0, <2>1, <2>4, <3>2, <3>3, <3>4
    <3> QED
      BY <1>0, <3>2, <3>5
  <2> QED
    BY <2>2, <2>3, <2>4
<1> QED
  BY <1>1, <1>2, <1>3, <1>4, <1>5, <1>6, <1>7, <1>8, <1>9, <1>10, <1>11
  DEF Next, HandlerStep, CopyStep

LEMMA WInvInvariant == Spec => []WInv
<1>1. WInv /\ [Next]_vars => WInv'
  BY TypePreserved, CopiersPreserved, VectorPreserved DEF WInv
<1> QED
  BY InitWInv, <1>1, PTL DEF Spec

(* Every state of a watch has the types the code declares.                 *)
THEOREM TypeCorrect == Spec => []TypeOK
  BY WInvInvariant, PTL DEF WInv

(* watch.go: whatever the interleaving of the copiers, the vector on the   *)
(* last event the client received is the position it has reached.          *)
THEOREM StampCorrect == Spec => []StampIsPosition
  BY WInvInvariant, PTL DEF WInv
------------------------------------------------------------------------------
(* The opens and their end.  A stream whose open was reported, and one that *)
(* the watch does not have, is not dialing any more, so that what the       *)
(* handler closes is all there is; and until the client leaves or a failed  *)
(* open has been received nothing is cancelled, so that the first failure   *)
(* received is one an upstream caused.                                      *)

OpensStand ==
    /\ handler = "asking" =>
         completed = <<>> /\ collected = {} /\ failed = None /\ \A t \in Targets : upstream[t] = "none"
    /\ handler = "opening" =>
         /\ \A t \in collected : upstream[t] # "dialing"
         /\ \A i \in 1..Len(completed) : upstream[completed[i]] # "dialing"
         /\ \A t \in Targets \ members : upstream[t] = "none"
    /\ handler \in {"initial", "streaming"} => \A t \in Targets : upstream[t] # "dialing"
    /\ handler \in {"closing", "done"} => \A t \in Targets : upstream[t] \in {"none", "closed"}
    /\ failed # None => failed \in collected

CauseStands ==
    ~clientGone =>
        /\ failed # None => failure[failed] = "refused"
        /\ failed = None /\ handler \in {"asking", "opening"} =>
             ~cancelled /\ \A t \in Targets : failure[t] # "cancelled"

EInv == WInv /\ OpensStand /\ CauseStands

LEMMA InitEInv == Init => EInv
  BY InitWInv DEF Init, EInv, OpensStand, CauseStands

LEMMA OpensPreserved == EInv /\ [Next]_vars => OpensStand'
<1> SUFFICES ASSUME EInv, [Next]_vars PROVE OpensStand'
  OBVIOUS
<1>0. /\ upstream \in [Targets -> {"none", "dialing", "open", "ended", "closed"}]
      /\ completed \in Seq(Targets) /\ collected \subseteq Targets /\ failed \in Targets \cup {None}
      /\ handler \in {"asking", "opening", "initial", "streaming", "closing", "done"}
      /\ None \notin Targets
  BY NoneApart DEF EInv, WInv, TypeOK
<1> USE DEF EInv, OpensStand
<1>1. CASE UNCHANGED vars
  BY <1>1 DEF vars, askVars, openVars, copyVars, clientVars
<1>2. ASSUME NEW t \in Targets, ClusterEvent(t) \/ Answer(t) PROVE OpensStand'
  BY <1>2 DEF ClusterEvent, Answer, askVars, openVars, copyVars, clientVars
<1>3. CASE ClientLeaves
  BY <1>3 DEF ClientLeaves, askVars, openVars, copyVars, clientVars
<1>4. CASE DecideNamed \/ DecideListed \/ DecideRequested
  <2>1. handler = "asking" /\ UNCHANGED <<completed, collected, failed>>
    BY <1>4 DEF DecideNamed, DecideListed, DecideRequested, DecideKept
  <2>2. \/ handler' = "done" /\ upstream' = upstream
        \/ /\ handler' = "opening"
           /\ upstream' = [t \in Targets |-> IF t \in members' THEN "dialing" ELSE "none"]
    BY <1>4 DEF DecideNamed, DecideListed, DecideRequested, OpenAll, GiveUp
  <2> QED
    BY <1>0, <2>1, <2>2
<1>5. ASSUME NEW t \in Targets, OpenStep(t) PROVE OpensStand'
  <2>1. /\ handler = "opening" /\ upstream[t] = "dialing" /\ completed' = Append(completed, t)
        /\ UNCHANGED <<handler, members, collected, failed>>
        /\ upstream' = [upstream EXCEPT ![t] = "open"] \/ upstream' = [upstream EXCEPT ![t] = "closed"]
    BY <1>5 DEF OpenStep, OpenAnswered, OpenCancelled, OpenKept, askVars
  <2>2. \A u \in Targets : upstream'[u] = upstream[u] \/ (u = t /\ upstream'[u] \in {"open", "closed"})
    BY <1>0, <2>1
  <2>3. ASSUME NEW i \in 1..Len(completed') PROVE upstream'[completed'[i]] # "dialing"
    <3>1. completed'[i] = t \/ (i \in 1..Len(completed) /\ completed'[i] = completed[i])
      BY <1>0, <2>1
    <3>2. completed'[i] \in Targets
      BY <1>0, <3>1
    <3> QED
      BY <1>0, <2>1, <2>2, <3>1, <3>2
  <2> QED
    BY <1>0, <2>1, <2>2, <2>3
<1>6. CASE CollectOpen
  <2>1. /\ handler = "opening" /\ completed # <<>> /\ completed' = Tail(completed)
        /\ collected' = collected \cup {Head(completed)}
        /\ failed' = failed \/ failed' = Head(completed)
        /\ UNCHANGED <<handler, members, upstream>>
    BY <1>6 DEF CollectOpen, askVars
  <2>2. Head(completed) = completed[1] /\ 1 \in 1..Len(completed)
    BY <1>0, <2>1
  <2>3. \A i \in 1..Len(completed') : i + 1 \in 1..Len(completed) /\ completed'[i] = completed[i + 1]
    BY <1>0, <2>1
  <2> QED
    BY <1>0, <2>1, <2>2, <2>3
<1>7. CASE OpensFailed \/ OpensDone
  <2>1. \A t \in Targets : upstream[t] # "dialing"
    BY <1>0, <1>7 DEF OpensFailed, OpensDone
  <2> QED
    BY <1>0, <1>7, <2>1 DEF OpensFailed, OpensDone, CloseAll, openVars
<1>8. ASSUME NEW t \in Targets, WriteInitial(t) PROVE OpensStand'
  BY <1>8 DEF WriteInitial, openVars
<1>9. CASE StartCopiers
  BY <1>9 DEF StartCopiers, openVars
<1>10. CASE SeeEnd \/ Return
  BY <1>0, <1>10 DEF SeeEnd, Return, CloseAll, openVars
<1>11. ASSUME NEW t \in Targets, ReadError(t) PROVE OpensStand'
  <2>1. /\ upstream[t] = "open" /\ upstream' = [upstream EXCEPT ![t] = "ended"]
        /\ UNCHANGED <<handler, members, completed, collected, failed>>
    BY <1>11 DEF ReadError, CopyKept, askVars
  <2>2. \A u \in Targets : upstream'[u] = upstream[u] \/ (u = t /\ upstream'[u] = "ended")
    BY <1>0, <2>1
  <2>3. handler \in {"streaming"}
    BY <1>0, <1>11, <2>1 DEF ReadError, WInv, CopiersStand
  <2> QED
    BY <1>0, <2>1, <2>2, <2>3
<1>12. ASSUME NEW t \in Targets, ReadLine(t) \/ ReadEnd(t) \/ Signal(t) \/ MarkEvent(t) \/ WriteEvent(t)
       PROVE OpensStand'
  BY <1>12 DEF ReadLine, ReadEnd, Signal, MarkEvent, WriteEvent, CopyKept, askVars
<1> QED
  BY <1>1, <1>2, <1>3, <1>4, <1>5, <1>6, <1>7, <1>8, <1>9, <1>10, <1>11, <1>12
  DEF Next, HandlerStep, CopyStep

LEMMA CausePreserved == EInv /\ [Next]_vars => CauseStands'
<1> SUFFICES ASSUME EInv, [Next]_vars PROVE CauseStands'
  OBVIOUS
<1>0. /\ failure \in [Targets -> {"none", "refused", "cancelled"}]
      /\ completed \in Seq(Targets) /\ collected \subseteq Targets /\ failed \in Targets \cup {None}
      /\ handler \in {"asking", "opening", "initial", "streaming", "closing", "done"}
      /\ cancelled \in BOOLEAN /\ None \notin Targets
  BY NoneApart DEF EInv, WInv, TypeOK
<1> USE DEF EInv, CauseStands
<1>1. CASE UNCHANGED vars
  BY <1>1 DEF vars, askVars, openVars, copyVars, clientVars
<1>2. ASSUME NEW t \in Targets, ClusterEvent(t) \/ Answer(t) PROVE CauseStands'
  BY <1>2 DEF ClusterEvent, Answer, askVars, openVars, copyVars, clientVars
<1>3. CASE ClientLeaves
  BY <1>3 DEF ClientLeaves
<1>4. CASE DecideNamed \/ DecideListed \/ DecideRequested
  <2>1. handler = "asking" /\ UNCHANGED <<clientGone, failed, failure, cancelled>>
    BY <1>4 DEF DecideNamed, DecideListed, DecideRequested, DecideKept
  <2> QED
    BY <2>1
<1>5. ASSUME NEW t \in Targets, OpenAnswered(t) PROVE CauseStands'
  <2>1. /\ handler = "opening" /\ upstream[t] = "dialing"
        /\ failure' = failure \/ failure' = [failure EXCEPT ![t] = "refused"]
        /\ UNCHANGED <<handler, clientGone, failed, cancelled>>
    BY <1>5 DEF OpenAnswered, OpenKept
  <2>2. failed # t
    BY <1>0, <2>1 DEF OpensStand
  <2> QED
    BY <1>0, <2>1, <2>2
<1>6. ASSUME NEW t \in Targets, OpenCancelled(t) PROVE CauseStands'
  <2>1. /\ handler = "opening" /\ upstream[t] = "dialing" /\ cancelled
        /\ failure' = [failure EXCEPT ![t] = "cancelled"]
        /\ UNCHANGED <<handler, clientGone, failed, cancelled>>
    BY <1>6 DEF OpenCancelled, OpenKept
  <2>2. failed # t
    BY <1>0, <2>1 DEF OpensStand
  <2> QED
    BY <1>0, <2>1, <2>2
<1>7. CASE CollectOpen
  <2>1. handler = "opening" /\ Head(completed) \in Targets /\ UNCHANGED <<handler, clientGone, failure>>
    BY <1>0, <1>7 DEF CollectOpen
  <2>2. CASE failed = None /\ failure[Head(completed)] # "none"
    <3>1. failed' = Head(completed) /\ (~clientGone => failure[Head(completed)] = "refused")
      BY <1>0, <1>7, <2>1, <2>2 DEF CollectOpen
    <3> QED
      BY <1>0, <2>1, <3>1
  <2>3. CASE UNCHANGED <<failed, cancelled>>
    BY <2>1, <2>3
  <2> QED
    BY <1>7, <2>2, <2>3 DEF CollectOpen
<1>8. CASE OpensFailed \/ OpensDone \/ StartCopiers
  BY <1>8 DEF OpensFailed, OpensDone, StartCopiers, openVars
<1>9. ASSUME NEW t \in Targets, WriteInitial(t) PROVE CauseStands'
  BY <1>9 DEF WriteInitial, openVars
<1>10. CASE SeeEnd \/ Return
  BY <1>10 DEF SeeEnd, Return, openVars
<1>11. ASSUME NEW t \in Targets, CopyStep(t) PROVE CauseStands'
  <2>1. UNCHANGED CopyKept
    BY <1>11 DEF CopyStep, ReadLine, ReadError, ReadEnd, Signal, MarkEvent, WriteEvent
  <2> QED
    BY <2>1 DEF CopyKept
<1> QED
  BY <1>1, <1>2, <1>3, <1>4, <1>5, <1>6, <1>7, <1>8, <1>9, <1>10, <1>11
  DEF Next, HandlerStep, OpenStep

LEMMA EInvInvariant == Spec => []EInv
<1>1. WInv /\ [Next]_vars => WInv'
  BY TypePreserved, CopiersPreserved, VectorPreserved DEF WInv
<1>2. EInv /\ [Next]_vars => EInv'
  BY <1>1, OpensPreserved, CausePreserved DEF EInv
<1> QED
  BY InitEInv, <1>2, PTL DEF Spec

(* watch.go:113-149 -- however many opens fail, and whoever ends the watch, *)
(* the handler returns with every stream closed and every copier gone.      *)
THEOREM NothingLeft == Spec => []NothingOutlivesTheHandler
<1>1. EInv => NothingOutlivesTheHandler
  BY DEF EInv, WInv, CopiersStand, OpensStand, NothingOutlivesTheHandler
<1> QED
  BY <1>1, EInvInvariant, PTL

(* watch.go:244-304 -- the failure reported for an open is one an upstream *)
(* caused, in whatever order the cancellations of the others arrive.       *)
THEOREM CauseReported == Spec => []ReportedFailureIsACause
<1>1. EInv => ReportedFailureIsACause
  BY DEF EInv, CauseStands, ReportedFailureIsACause
<1> QED
  BY <1>1, EInvInvariant, PTL

------------------------------------------------------------------------------
(* The copiers implement the abstract stream: every step either is one of  *)
(* its steps or is invisible to the client.                                *)
Visible == <<Asked, StreamState, Position, out>>

(* Until the response header is written, the position of the client is the *)
(* one that it asked for.                                                  *)
ResumeStands ==
    handler \in {"opening", "initial"} /\ Asked # None =>
        delivered = Asked /\ \A t \in Targets : Asked[t] # 0

RInv == WInv /\ ResumeStands

LEMMA AskedFixed == [Next]_vars => UNCHANGED Asked
<1> SUFFICES ASSUME [Next]_vars PROVE request' = request
  BY DEF Asked
<1>1. CASE HandlerStep
  BY <1>1 DEF HandlerStep, DecideNamed, DecideListed, DecideRequested, DecideKept, CollectOpen,
              OpensFailed, OpensDone, StartCopiers, SeeEnd, Return
<1>2. ASSUME NEW t \in Targets, Answer(t) \/ OpenStep(t) \/ WriteInitial(t) \/ ClusterEvent(t)
      PROVE request' = request
  BY <1>2 DEF Answer, OpenStep, OpenAnswered, OpenCancelled, OpenKept, WriteInitial, ClusterEvent
<1>3. ASSUME NEW t \in Targets, CopyStep(t) PROVE request' = request
  BY <1>3 DEF CopyStep, ReadLine, ReadError, ReadEnd, Signal, MarkEvent, WriteEvent, CopyKept
<1> QED
  BY <1>1, <1>2, <1>3 DEF Next, ClientLeaves, vars

LEMMA ResumePreserved == RInv /\ [Next]_vars => ResumeStands'
<1> SUFFICES ASSUME RInv, [Next]_vars PROVE ResumeStands'
  OBVIOUS
<1>0. UNCHANGED Asked
  BY AskedFixed
<1> USE <1>0 DEF RInv, ResumeStands
<1>1. CASE UNCHANGED vars
  BY <1>1 DEF vars, clientVars
<1>2. ASSUME NEW t \in Targets, ClusterEvent(t) \/ Answer(t) \/ OpenStep(t) PROVE ResumeStands'
  BY <1>2 DEF ClusterEvent, Answer, OpenStep, OpenAnswered, OpenCancelled, OpenKept, clientVars
<1>3. CASE ClientLeaves \/ CollectOpen
  BY <1>3 DEF ClientLeaves, CollectOpen, clientVars
<1>4. CASE DecideNamed
  BY <1>4 DEF DecideNamed, Asked
<1>5. CASE DecideListed
  BY <1>5 DEF DecideListed, Asks, Asked
<1>6. CASE DecideRequested
  <2>1. CASE Asked = None
    BY <2>1
  <2>2. CASE Asked # None
    <3>1. request.version.form = "aggregate" /\ Asked = request.version.of
      BY <2>2 DEF Asked
    <3>2. \/ handler' = "done"
          \/ delivered' = request.version.of /\ \A t \in Targets : request.version.of[t] # 0
      BY <1>6, <3>1 DEF DecideRequested, OpenAll, GiveUp
    <3> QED
      BY <3>1, <3>2
  <2> QED
    BY <2>1, <2>2
<1>7. CASE OpensFailed \/ OpensDone \/ StartCopiers \/ SeeEnd \/ Return
  BY <1>7 DEF OpensFailed, OpensDone, StartCopiers, SeeEnd, Return, clientVars
<1>8. ASSUME NEW t \in Targets, WriteInitial(t) PROVE ResumeStands'
  BY <1>8 DEF WriteInitial
<1>9. ASSUME NEW t \in Targets, CopyStep(t) PROVE ResumeStands'
  <2>1. copier[t] # "off" /\ handler' = handler
    BY <1>9 DEF CopyStep, ReadLine, ReadError, ReadEnd, Signal, MarkEvent, WriteEvent, CopyKept
  <2> QED
    BY <2>1 DEF WInv, CopiersStand
<1> QED
  BY <1>1, <1>2, <1>3, <1>4, <1>5, <1>6, <1>7, <1>8, <1>9 DEF Next, HandlerStep

LEMMA Unseen ==
    ASSUME UNCHANGED <<Asked, status, out, delivered>>, (handler = "done") <=> (handler' = "done")
    PROVE  UNCHANGED Visible
  BY DEF Visible, StreamState, Position

LEMMA InitMerged == Init => Merged!MergedInit
<1> SUFFICES ASSUME Init PROVE Merged!MergedInit
  OBVIOUS
<1>1. Asked \in {None} \cup [Targets -> Nat]
  <2>1. CASE ~request.named /\ request.version.form = "aggregate"
    <3>1. Asked \in VersionVector
      BY <2>1, WatchAssumption DEF Init, Asked, RequestType
    <3> QED
      BY <3>1, WatchAssumption DEF VersionVector
  <2> QED
    BY <2>1 DEF Asked
<1> QED
  BY <1>1 DEF Init, Merged!MergedInit, StreamState, Position, Zero

LEMMA OpeningMerged ==
    ASSUME RInv, WInv', UNCHANGED Asked,
           DecideNamed \/ DecideListed \/ DecideRequested \/ OpensFailed \/ OpensDone
    PROVE  [Merged!MergedNext]_Visible
<1>1. handler \in {"asking", "opening"} /\ status = "none" /\ UNCHANGED out
  BY DEF DecideNamed, DecideListed, DecideRequested, OpensFailed, OpensDone, OpenAll, GiveUp, DecideKept,
         RInv, WInv, CopiersStand
<1>2. StreamState = "waiting" /\ Position = Zero
  BY <1>1 DEF StreamState, Position
<1>3. CASE handler' = "opening" /\ status' = status
  BY <1>1, <1>2, <1>3 DEF Visible, StreamState, Position, Zero
<1>4. CASE handler' = "done" /\ status' \in {"failed", "badRequest"}
  <2>1. StreamState' = "closed" /\ Position' = Zero
    BY <1>4 DEF StreamState, Position, Zero
  <2> QED
    BY <1>1, <1>2, <2>1 DEF Merged!MergedNext, Merged!Refuse
<1>5. CASE handler' = "initial" /\ status' = "ok"
  <2>1. StreamState' = "open" /\ Position' = delivered'
    BY <1>5 DEF StreamState, Position
  <2>2. delivered' \in [Targets -> Nat]
    <3>1. TypeOK'
      BY DEF WInv
    <3>2. delivered' \in [Targets -> 0..MaxVersion]
      BY <3>1 DEF TypeOK, VersionVector
    <3>3. MaxVersion \in Nat
      BY WatchAssumption
    <3> QED
      BY <3>2, <3>3
  <2>3. Asked # None => delivered' = Asked /\ \A t \in Targets : Asked[t] # 0
    <3>1. OpensDone
      BY <1>5 DEF DecideNamed, DecideListed, DecideRequested, OpensFailed, OpenAll, GiveUp
    <3> QED
      BY <3>1 DEF OpensDone, RInv, ResumeStands
  <2> QED
    BY <1>1, <1>2, <2>1, <2>2, <2>3 DEF Merged!MergedNext, Merged!Open
<1> QED
  BY <1>3, <1>4, <1>5
  DEF DecideNamed, DecideListed, DecideRequested, OpensFailed, OpensDone, OpenAll, GiveUp

LEMMA InitialMerged ==
    ASSUME WInv, UNCHANGED Asked, NEW t \in Targets, WriteInitial(t)
    PROVE  [Merged!MergedNext]_Visible
<1>1. /\ handler = "initial" /\ out' = IF clientGone THEN out ELSE vector
      /\ UNCHANGED <<handler, status, delivered, clientGone>>
  BY DEF WriteInitial
<1>2. status = "ok" /\ holder = None
  BY <1>1 DEF WInv, CopiersStand, Streams
<1>3. StreamState = "open" /\ Position = delivered /\ UNCHANGED <<StreamState, Position>>
  BY <1>1, <1>2 DEF StreamState, Position
<1>4. CASE clientGone
  BY <1>1, <1>3, <1>4 DEF Visible
<1>5. CASE ~clientGone
  <2>1. vector = delivered
    BY <1>1, <1>2, <1>5 DEF WInv, VectorFollows, Streams
  <2> QED
    BY <1>1, <1>3, <1>5, <2>1 DEF Merged!MergedNext, Merged!InitialEvent
<1> QED
  BY <1>4, <1>5

LEMMA CopyMerged ==
    ASSUME WInv, UNCHANGED Asked, NEW t \in Targets, WriteEvent(t)
    PROVE  [Merged!MergedNext]_Visible
<1>1. holder = t /\ handler \in {"streaming", "closing"} /\ status = "ok" /\ copier[t] = "marked"
  BY NoneApart DEF WriteEvent, WInv, TypeOK, CopiersStand, Mutex, Streams
<1>2. UNCHANGED <<handler, status, clientGone>>
  BY DEF WriteEvent, CopyKept
<1>3. /\ StreamState = "open" /\ Position = delivered
      /\ StreamState' = "open" /\ Position' = delivered'
  BY <1>1, <1>2 DEF StreamState, Position
<1>4. CASE clientGone
  BY <1>3, <1>4 DEF WriteEvent, Visible
<1>5. CASE ~clientGone /\ line[t] = None
  <2>1. out' = None /\ delivered' = delivered
    BY <1>1, <1>5 DEF WriteEvent, WInv, VectorFollows, Streams
  <2> QED
    BY <1>3, <2>1 DEF Merged!MergedNext, Merged!UnversionedEvent
<1>6. CASE ~clientGone /\ line[t] # None
  <2>1. out' = vector /\ delivered' = [delivered EXCEPT ![t] = line[t]] /\ vector = delivered'
    BY <1>1, <1>6 DEF WriteEvent, WInv, VectorFollows, Streams
  <2>2. line[t] = delivered[t] + 1
    BY <1>1, <1>6 DEF WInv, LinesFollow, Streams
  <2>3. delivered' = [delivered EXCEPT ![t] = @ + 1]
    BY <2>1, <2>2
  <2>4. Merged!Event(t)
    BY <1>3, <2>1, <2>3 DEF Merged!Event
  <2> QED
    BY <2>4 DEF Merged!MergedNext
<1> QED
  BY <1>4, <1>5, <1>6

LEMMA StepMerged == RInv /\ WInv' /\ [Next]_vars => [Merged!MergedNext]_Visible
<1> SUFFICES ASSUME RInv, WInv', [Next]_vars PROVE [Merged!MergedNext]_Visible
  OBVIOUS
<1>0. WInv /\ UNCHANGED Asked
  BY AskedFixed DEF RInv
<1> USE <1>0
<1>1. CASE DecideNamed \/ DecideListed \/ DecideRequested \/ OpensFailed \/ OpensDone
  BY <1>1, OpeningMerged
<1>2. ASSUME NEW t \in Targets, WriteInitial(t) PROVE [Merged!MergedNext]_Visible
  BY <1>2, InitialMerged
<1>3. ASSUME NEW t \in Targets, WriteEvent(t) PROVE [Merged!MergedNext]_Visible
  BY <1>3, CopyMerged
<1>4. CASE Return
  <2>1. status = "ok" /\ handler = "closing" /\ handler' = "done" /\ UNCHANGED <<status, out, delivered>>
    BY <1>4 DEF Return, clientVars, WInv, CopiersStand, Streams
  <2>2. StreamState = "open" /\ StreamState' = "closed" /\ UNCHANGED <<Position, out>>
    BY <2>1 DEF StreamState, Position
  <2> QED
    BY <2>2 DEF Merged!MergedNext, Merged!Close
<1>5. CASE UNCHANGED vars \/ ClientLeaves
  BY <1>5, Unseen DEF vars, ClientLeaves, clientVars
<1>6. CASE CollectOpen \/ StartCopiers \/ SeeEnd
  <2>1. UNCHANGED <<status, out, delivered>> /\ handler # "done" /\ handler' # "done"
    BY <1>6 DEF CollectOpen, StartCopiers, SeeEnd, clientVars
  <2> QED
    BY <2>1, Unseen
<1>7. ASSUME NEW t \in Targets, Answer(t) \/ OpenStep(t) \/ ClusterEvent(t) PROVE [Merged!MergedNext]_Visible
  <2>1. UNCHANGED <<status, out, delivered, handler>>
    BY <1>7 DEF Answer, OpenStep, OpenAnswered, OpenCancelled, OpenKept, ClusterEvent, clientVars
  <2> QED
    BY <2>1, Unseen
<1>8. ASSUME NEW t \in Targets, ReadLine(t) \/ ReadError(t) \/ ReadEnd(t) \/ MarkEvent(t) \/ Signal(t)
      PROVE [Merged!MergedNext]_Visible
  <2>1. UNCHANGED <<status, out, delivered, handler>>
    BY <1>8 DEF ReadLine, ReadError, ReadEnd, MarkEvent, Signal, CopyKept
  <2> QED
    BY <2>1, Unseen
<1> QED
  BY <1>1, <1>2, <1>3, <1>4, <1>5, <1>6, <1>7, <1>8 DEF Next, HandlerStep, CopyStep

(* watch.go:113-149, 152-171, 188-198, 306-342 -- whatever the             *)
(* interleaving of the copiers and the failures, the client sees one       *)
(* stream, from the position it asked for, in which each target's events   *)
(* arrive in order and without a gap, and every versioned event carries    *)
(* the position then reached in all targets.                               *)
THEOREM WatchIsMerged == Spec => ImplementsMergedWatch
<1>1. RInv /\ WInv' /\ [Next]_vars => [Merged!MergedNext]_<<Asked, StreamState, Position, out>>
  BY StepMerged DEF Visible
<1>2. Init => ResumeStands
  BY DEF Init, ResumeStands
<1>3. WInv /\ ResumeStands /\ [Next]_vars => ResumeStands'
  BY ResumePreserved DEF RInv
<1>4. RInv <=> WInv /\ ResumeStands
  BY DEF RInv
<1> QED
  BY <1>1, <1>2, <1>3, <1>4, InitMerged, WInvInvariant, PTL
  DEF Spec, ImplementsMergedWatch, Merged!MergedSpec, Merged!mvars
==============================================================================
