---------------------------- MODULE AggregateWatch ----------------------------
(***************************************************************************)
(* One aggregate watch request (internal/proxy/watch.go): the handler      *)
(* finds a start version for every target, opens one upstream watch per    *)
(* target concurrently, and then copies the events of all streams to the   *)
(* client, one goroutine per stream, under a mutex that covers the shared  *)
(* version vector and the response writer.                                 *)
(*                                                                         *)
(* Each target numbers the events that concern this watch 1, 2, ...; its   *)
(* resource version is the number of the last one.  A vector is a function *)
(* on Targets that is 0 where a target takes no part.                      *)
(***************************************************************************)
EXTENDS Integers, Sequences

CONSTANTS
    Targets,       \* configured contexts
    MaxVersion,    \* bound on the events of a target
    FirstVersion,  \* version every target has when the request arrives
    Requests,      \* the requests a client may send, see RequestType
    None

VersionVector == [Targets -> 0..MaxVersion]

(* named: the path or field selector names one object.  version: the       *)
(* resourceVersion parameter: absent, one upstream version, an aggregate   *)
(* vector (0 where it names no version), or an undecodable aggregate.      *)
RequestType ==
    [named : BOOLEAN,
     version : [form : {"absent", "malformed"}]
               \cup [form : {"plain"}, of : 0..MaxVersion]
               \cup [form : {"aggregate"}, of : VersionVector]]

ASSUME WatchAssumption ==
    /\ MaxVersion \in Nat \ {0} /\ FirstVersion \in 1..MaxVersion
    /\ Requests \subseteq RequestType
    /\ None \notin Targets \cup Nat \cup VersionVector

VARIABLES
    request,      \* the client's request
    clientGone,   \* its context is done
    head,         \* the version of each target
    handler,      \* where aggregateWatch stands
    answer,       \* each target's answer to the probe or the version list
    vector,       \* resourceVersions, shared by the copiers
    members,      \* the targets watched
    upstream,     \* each target's stream
    failure,      \* why a stream did not open
    completed,    \* the channel of openWatches: targets whose open is over
    collected,    \* those the collecting loop has received
    failed,       \* failureIndex, or None
    cancelled,    \* the streams' context is cancelled
    initialLeft,  \* initial events to write
    copier,       \* where each copyWatch goroutine stands
    line,         \* the line each copier has read: a version, or None for an ERROR event
    marked,       \* the vector each copier's line is stamped with, or None
    holder,       \* who holds writeMu, or None
    status,       \* the response header: "none", "ok", "failed" or "badRequest"
    out,          \* the stamp of the last event written to the client, or None
    delivered     \* the version of each target the client has reached

askVars == <<answer, members, initialLeft>>
openVars == <<upstream, failure, completed, collected, failed>>
copyVars == <<copier, line, marked, holder>>
clientVars == <<status, out, delivered>>
vars == <<request, clientGone, head, handler, askVars, vector, openVars, cancelled,
          copyVars, clientVars>>

TypeOK ==
    /\ request \in Requests
    /\ clientGone \in BOOLEAN
    /\ head \in VersionVector
    /\ handler \in {"asking", "opening", "initial", "streaming", "closing", "done"}
    /\ answer \in [Targets -> {"waiting", "found", "missing", "error"}]
    /\ vector \in VersionVector
    /\ members \subseteq Targets
    /\ upstream \in [Targets -> {"none", "dialing", "open", "ended", "closed"}]
    /\ failure \in [Targets -> {"none", "refused", "cancelled"}]
    /\ completed \in Seq(Targets)
    /\ collected \subseteq Targets
    /\ failed \in Targets \cup {None}
    /\ cancelled \in BOOLEAN
    /\ initialLeft \subseteq Targets
    /\ copier \in [Targets -> {"off", "reading", "line", "marked", "ended", "signalled"}]
    /\ line \in [Targets -> 0..MaxVersion \cup {None}]
    /\ marked \in [Targets -> VersionVector \cup {None}]
    /\ holder \in Targets \cup {None}
    /\ status \in {"none", "ok", "failed", "badRequest"}
    /\ out \in VersionVector \cup {None}
    /\ delivered \in VersionVector

Zero == [t \in Targets |-> 0]

Init ==
    /\ request \in Requests
    /\ clientGone = FALSE
    /\ head = [t \in Targets |-> FirstVersion]
    /\ handler = "asking"
    /\ answer = [t \in Targets |-> "waiting"]
    /\ vector = Zero
    /\ members = {}
    /\ upstream = [t \in Targets |-> "none"]
    /\ failure = [t \in Targets |-> "none"]
    /\ completed = <<>> /\ collected = {} /\ failed = None
    /\ cancelled = FALSE
    /\ initialLeft = {}
    /\ copier = [t \in Targets |-> "off"]
    /\ line = [t \in Targets |-> 0]
    /\ marked = [t \in Targets |-> None]
    /\ holder = None
    /\ status = "none" /\ out = None /\ delivered = Zero
------------------------------------------------------------------------------
(* The clusters and the client.                                            *)

ClusterEvent(t) ==
    /\ head[t] < MaxVersion
    /\ head' = [head EXCEPT ![t] = @ + 1]
    /\ UNCHANGED <<request, clientGone, handler, askVars, vector, openVars, cancelled,
                   copyVars, clientVars>>

(* The request context is the parent of every upstream context.            *)
ClientLeaves ==
    /\ ~clientGone /\ handler # "done"
    /\ clientGone' = TRUE /\ cancelled' = TRUE
    /\ UNCHANGED <<request, head, handler, askVars, vector, openVars, copyVars, clientVars>>
------------------------------------------------------------------------------
(* Finding a start version: the probe of a named watch, or the fan-out of  *)
(* watchResourceVersions when no version was requested.                    *)

Asks == request.named \/ request.version.form = "absent"

(* A GET of the object returns its present version; a list at version 0    *)
(* may be served from a cache that is behind.  A list answers an error     *)
(* where a GET answers 404.                                                *)
Answer(t) ==
    /\ handler = "asking" /\ Asks /\ answer[t] = "waiting"
    /\ \/ /\ ~clientGone
          /\ answer' = [answer EXCEPT ![t] = "found"]
          /\ \E v \in 1..head[t] :
               /\ request.named => v = head[t]
               /\ vector' = [vector EXCEPT ![t] = v]
       \/ /\ ~clientGone /\ request.named
          /\ answer' = [answer EXCEPT ![t] = "missing"] /\ UNCHANGED vector
       \/ answer' = [answer EXCEPT ![t] = "error"] /\ UNCHANGED vector
    /\ UNCHANGED <<request, clientGone, head, handler, members, initialLeft, openVars,
                   cancelled, copyVars, clientVars>>

AllAnswered == \A t \in Targets : answer[t] # "waiting"
Found == {t \in Targets : answer[t] = "found"}

GiveUp(how) ==
    /\ status' = how /\ handler' = "done"
    /\ UNCHANGED <<members, vector, initialLeft, upstream, out, delivered>>

(* openWatches starts one goroutine per target, each with its own context  *)
(* and with its own coordinate of the vector.                              *)
OpenAll(targets, versions) ==
    /\ members' = targets
    /\ vector' = versions
    /\ delivered' = versions
    /\ upstream' = [t \in Targets |-> IF t \in targets THEN "dialing" ELSE "none"]
    /\ handler' = "opening"
    /\ UNCHANGED <<status, out>>

DecideKept == <<request, clientGone, head, answer, failure, completed, collected, failed,
                cancelled, copyVars>>

(* aggregateNamedWatch: all probes are back.  The versions found replace   *)
(* the requested one; it only decides whether the objects are announced.   *)
DecideNamed ==
    /\ handler = "asking" /\ request.named /\ AllAnswered
    /\ \/ /\ (\E t \in Targets : answer[t] = "error") \/ Found = {}
          /\ GiveUp("failed")
       \/ /\ \A t \in Targets : answer[t] # "error"
          /\ Found # {}
          /\ OpenAll(Found, vector)
          /\ initialLeft' = IF request.version.form = "absent" THEN Found ELSE {}
    /\ UNCHANGED DecideKept

(* watchResourceVersions of a collection watch without a version: any      *)
(* failed list fails the watch.                                            *)
DecideListed ==
    /\ handler = "asking" /\ ~request.named /\ Asks /\ AllAnswered
    /\ IF Found = Targets
         THEN OpenAll(Targets, vector) /\ UNCHANGED initialLeft
         ELSE GiveUp("failed")
    /\ UNCHANGED DecideKept

(* watchResourceVersions with a version: a plain one goes to all targets,  *)
(* an aggregate one must decode and name every target.                     *)
DecideRequested ==
    /\ handler = "asking" /\ ~Asks
    /\ CASE request.version.form = "plain" ->
              OpenAll(Targets, [t \in Targets |-> request.version.of]) /\ UNCHANGED initialLeft
         [] request.version.form = "aggregate" /\ (\A t \in Targets : request.version.of[t] # 0) ->
              OpenAll(Targets, request.version.of) /\ UNCHANGED initialLeft
         [] OTHER -> GiveUp("badRequest")
    /\ UNCHANGED DecideKept
------------------------------------------------------------------------------
(* openWatches.                                                            *)

OpenKept == <<request, clientGone, head, handler, askVars, vector, collected, failed,
              cancelled, copyVars, clientVars>>

(* The upstream answers: nothing bounds how long that takes.               *)
OpenAnswered(t) ==
    /\ handler = "opening" /\ upstream[t] = "dialing"
    /\ completed' = Append(completed, t)
    /\ \/ upstream' = [upstream EXCEPT ![t] = "open"] /\ UNCHANGED failure
       \/ /\ upstream' = [upstream EXCEPT ![t] = "closed"]
          /\ failure' = [failure EXCEPT ![t] = "refused"]
    /\ UNCHANGED OpenKept

OpenCancelled(t) ==
    /\ handler = "opening" /\ upstream[t] = "dialing" /\ cancelled
    /\ completed' = Append(completed, t)
    /\ upstream' = [upstream EXCEPT ![t] = "closed"]
    /\ failure' = [failure EXCEPT ![t] = "cancelled"]
    /\ UNCHANGED OpenKept

(* Mutant: a later failure takes the place of the first.                   *)
CollectOpenLast ==
    /\ handler = "opening" /\ completed # <<>>
    /\ completed' = Tail(completed)
    /\ collected' = collected \cup {Head(completed)}
    /\ IF failure[Head(completed)] # "none"
         THEN failed' = Head(completed) /\ cancelled' = TRUE
         ELSE UNCHANGED <<failed, cancelled>>
    /\ UNCHANGED <<request, clientGone, head, handler, askVars, vector, upstream, failure,
                   copyVars, clientVars>>

(* The first failed open received from the channel cancels all the others. *)
CollectOpen ==
    /\ handler = "opening" /\ completed # <<>>
    /\ completed' = Tail(completed)
    /\ collected' = collected \cup {Head(completed)}
    /\ IF failed = None /\ failure[Head(completed)] # "none"
         THEN failed' = Head(completed) /\ cancelled' = TRUE
         ELSE UNCHANGED <<failed, cancelled>>
    /\ UNCHANGED <<request, clientGone, head, handler, askVars, vector, upstream, failure,
                   copyVars, clientVars>>

CloseAll == [t \in Targets |-> IF upstream[t] \in {"open", "ended"} THEN "closed" ELSE upstream[t]]

(* Mutant: the streams that did open are left to their contexts.           *)
OpensFailedLeaky ==
    /\ handler = "opening" /\ collected = members /\ failed # None
    /\ status' = "failed" /\ handler' = "done"
    /\ UNCHANGED <<request, clientGone, head, askVars, vector, openVars, cancelled, copyVars,
                   out, delivered>>

OpensFailed ==
    /\ handler = "opening" /\ collected = members /\ failed # None
    /\ upstream' = CloseAll
    /\ status' = "failed" /\ handler' = "done"
    /\ UNCHANGED <<request, clientGone, head, askVars, vector, failure, completed, collected,
                   failed, cancelled, copyVars, out, delivered>>

OpensDone ==
    /\ handler = "opening" /\ collected = members /\ failed = None
    /\ status' = "ok" /\ handler' = "initial"
    /\ UNCHANGED <<request, clientGone, head, askVars, vector, openVars, cancelled, copyVars,
                   out, delivered>>
------------------------------------------------------------------------------
(* The initial events, then one copyWatch goroutine per stream.            *)

(* Every initial event is stamped with the whole start vector.  A write to *)
(* a client that left is lost and its error ignored.                       *)
WriteInitial(t) ==
    /\ handler = "initial" /\ t \in initialLeft
    /\ initialLeft' = initialLeft \ {t}
    /\ out' = IF clientGone THEN out ELSE vector
    /\ UNCHANGED <<request, clientGone, head, handler, answer, members, vector, openVars,
                   cancelled, copyVars, status, delivered>>

StartCopiers ==
    /\ handler = "initial" /\ initialLeft = {}
    /\ handler' = "streaming"
    /\ copier' = [t \in Targets |-> IF t \in members THEN "reading" ELSE "off"]
    /\ line' = vector
    /\ UNCHANGED <<request, clientGone, head, askVars, vector, openVars, cancelled,
                   marked, holder, clientVars>>

CopyKept == <<request, clientGone, head, handler, askVars, failure, completed, collected,
              failed, cancelled, status>>

(* ReadBytes returns the next line of the stream, from its buffer even     *)
(* when the stream was just cancelled.                                     *)
ReadLine(t) ==
    /\ copier[t] = "reading" /\ upstream[t] # "ended"
    /\ line[t] < head[t]
    /\ line' = [line EXCEPT ![t] = @ + 1]
    /\ copier' = [copier EXCEPT ![t] = "line"]
    /\ UNCHANGED <<CopyKept, vector, upstream, marked, holder, out, delivered>>

(* The upstream reports an ERROR event, whose Status has no version, and   *)
(* ends its stream: its history was compacted, or it shuts down.           *)
ReadError(t) ==
    /\ copier[t] = "reading" /\ upstream[t] = "open"
    /\ line' = [line EXCEPT ![t] = None]
    /\ upstream' = [upstream EXCEPT ![t] = "ended"]
    /\ copier' = [copier EXCEPT ![t] = "line"]
    /\ UNCHANGED <<CopyKept, vector, marked, holder, out, delivered>>

(* The stream ends: an upstream may end it at any time, and a cancelled or *)
(* closed one fails the read.                                              *)
ReadEnd(t) ==
    /\ copier[t] = "reading"
    /\ copier' = [copier EXCEPT ![t] = "ended"]
    /\ UNCHANGED <<CopyKept, vector, upstream, line, marked, holder, out, delivered>>

(* Mutant: the vector is updated outside the mutex.                        *)
MarkEventUnlocked(t) ==
    /\ copier[t] = "line"
    /\ holder' = t
    /\ copier' = [copier EXCEPT ![t] = "marked"]
    /\ IF line[t] = None
         THEN marked' = [marked EXCEPT ![t] = None] /\ UNCHANGED vector
         ELSE /\ vector' = [vector EXCEPT ![t] = line[t]]
              /\ marked' = [marked EXCEPT ![t] = vector']
    /\ UNCHANGED <<CopyKept, upstream, line, out, delivered>>

(* markEvent, under writeMu: the source's coordinate advances and the      *)
(* event is stamped with the whole vector.                                 *)
MarkEvent(t) ==
    /\ copier[t] = "line" /\ holder = None
    /\ holder' = t
    /\ copier' = [copier EXCEPT ![t] = "marked"]
    /\ IF line[t] = None
         THEN marked' = [marked EXCEPT ![t] = None] /\ UNCHANGED vector
         ELSE /\ vector' = [vector EXCEPT ![t] = line[t]]
              /\ marked' = [marked EXCEPT ![t] = vector']
    /\ UNCHANGED <<CopyKept, upstream, line, out, delivered>>

(* The write and the unlock, then the loop's test of the context.          *)
WriteEvent(t) ==
    /\ copier[t] = "marked"
    /\ holder' = None
    /\ IF clientGone
         THEN UNCHANGED <<out, delivered>>
         ELSE /\ out' = marked[t]
              /\ delivered' = IF line[t] = None THEN delivered
                                                ELSE [delivered EXCEPT ![t] = line[t]]
    /\ copier' = [copier EXCEPT ![t] =
                    IF cancelled \/ line[t] = None THEN "ended" ELSE "reading"]
    /\ UNCHANGED <<CopyKept, vector, upstream, line, marked>>

Signal(t) ==
    /\ copier[t] = "ended"
    /\ copier' = [copier EXCEPT ![t] = "signalled"]
    /\ UNCHANGED <<CopyKept, vector, upstream, line, marked, holder, out, delivered>>

(* Mutant: the handler waits for every stream to end by itself.            *)
SeeEndOfAll ==
    /\ handler = "streaming" /\ \A t \in members : copier[t] = "signalled"
    /\ cancelled' = TRUE
    /\ upstream' = CloseAll
    /\ handler' = "closing"
    /\ UNCHANGED <<request, clientGone, head, askVars, vector, failure, completed, collected,
                   failed, copyVars, clientVars>>

(* The handler receives the first end: it cancels and closes every stream. *)
SeeEnd ==
    /\ handler = "streaming" /\ \E t \in members : copier[t] = "signalled"
    /\ cancelled' = TRUE
    /\ upstream' = CloseAll
    /\ handler' = "closing"
    /\ UNCHANGED <<request, clientGone, head, askVars, vector, failure, completed, collected,
                   failed, copyVars, clientVars>>

(* Mutant: the handler does not wait for the copiers.                      *)
ReturnAtOnce ==
    /\ handler = "closing"
    /\ handler' = "done"
    /\ UNCHANGED <<request, clientGone, head, askVars, vector, openVars, cancelled, copyVars,
                   clientVars>>

(* wg.Wait: the handler returns when every copier has.                     *)
Return ==
    /\ handler = "closing" /\ \A t \in members : copier[t] = "signalled"
    /\ handler' = "done"
    /\ UNCHANGED <<request, clientGone, head, askVars, vector, openVars, cancelled, copyVars,
                   clientVars>>
------------------------------------------------------------------------------
HandlerStep ==
    \/ DecideNamed \/ DecideListed \/ DecideRequested
    \/ CollectOpen \/ OpensFailed \/ OpensDone
    \/ StartCopiers \/ SeeEnd \/ Return

OpenStep(t) == OpenAnswered(t) \/ OpenCancelled(t)

CopyStep(t) == ReadLine(t) \/ ReadError(t) \/ ReadEnd(t) \/ MarkEvent(t) \/ WriteEvent(t) \/ Signal(t)

Next ==
    \/ HandlerStep
    \/ \E t \in Targets :
         Answer(t) \/ OpenStep(t) \/ WriteInitial(t) \/ CopyStep(t) \/ ClusterEvent(t)
    \/ ClientLeaves

Spec == Init /\ [][Next]_vars

(* The goroutines run, a cancelled call returns, and a write to a client   *)
(* that left fails.  Nothing more is assumed of the client, for the server *)
(* sets no write timeout, and no upstream is assumed to answer a call      *)
(* (--request-timeout may be 0), to send an event or to end a stream.      *)
Fairness ==
    /\ WF_vars(HandlerStep)
    /\ \A t \in Targets :
         /\ WF_vars(clientGone /\ (Answer(t) \/ WriteInitial(t) \/ WriteEvent(t)))
         /\ WF_vars(OpenCancelled(t)) /\ WF_vars(cancelled /\ ReadEnd(t))
         /\ SF_vars(MarkEvent(t)) /\ WF_vars(Signal(t))

FairSpec == Spec /\ Fairness
------------------------------------------------------------------------------
(* Correctness.                                                            *)

(* watch.go:306-342, ROUTING.md "only the coordinate for the event's       *)
(* source context advances" -- the vector on the last event the client     *)
(* received is the position it has reached: nothing the vector covers is   *)
(* still on its way, nothing delivered is missing from it.                 *)
StampIsPosition == out # None => out = delivered

(* watch.go:244-304 -- the failure reported for an open is one an upstream *)
(* caused, never the cancellation that another target's failure caused.    *)
ReportedFailureIsACause ==
    handler = "done" /\ failed # None /\ ~clientGone => failure[failed] = "refused"

(* watch.go:113-149 -- when the handler returns, on success or failure, no *)
(* stream is open, no copier runs and nobody holds the mutex.              *)
NothingOutlivesTheHandler ==
    handler = "done" =>
        /\ \A t \in Targets : upstream[t] \in {"none", "closed"}
        /\ \A t \in Targets : copier[t] \in {"off", "signalled"}
        /\ holder = None

(* The watch implements the abstract stream.  A collection watch with an   *)
(* aggregate version asks for the position that version names.             *)
Asked ==
    IF ~request.named /\ request.version.form = "aggregate" THEN request.version.of ELSE None

StreamState ==
    CASE handler = "done" -> "closed"
      [] handler # "done" /\ status = "ok" -> "open"
      [] OTHER -> "waiting"

Position == IF status = "ok" THEN delivered ELSE Zero

(* watch.go:113-149, 152-171, 188-198, 306-342 -- whatever the             *)
(* interleaving of the copiers, the failures and the departures, the       *)
(* client sees one stream without a gap, from the position it asked for;   *)
(* a version that does not name every target opens nothing.                *)
Merged == INSTANCE MergedWatch WITH
              asked <- Asked, state <- StreamState, position <- Position, stamp <- out,
              NoStamp <- None
ImplementsMergedWatch == Merged!MergedSpec

(* watch.go:144-149, 289-298 -- a client that leaves ends the whole watch. *)
(* One stream that fails to open or ends does so if the client takes what  *)
(* is written to it: a client that stalls keeps a copier in its write, and *)
(* with it writeMu and the wait for the copiers, for as long as it stays.  *)
ClientReads == \A t \in Targets : WF_vars(WriteInitial(t)) /\ WF_vars(WriteEvent(t))

OneEndEndsAll ==
    /\ clientGone ~> handler = "done"
    /\ ClientReads =>
         ((\E t \in Targets : failure[t] # "none" \/ copier[t] = "ended") ~> handler = "done")

(* ARCHITECTURE.md:252-254 -- every later watch sends each of its targets  *)
(* that target's own coordinate of the requested aggregate version.        *)
EveryWatchResumes ==
    handler = "initial" /\ request.version.form = "aggregate" =>
        \A t \in members : delivered[t] = request.version.of[t]
==============================================================================
