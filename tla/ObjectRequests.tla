---------------------------- MODULE ObjectRequests ----------------------------
(***************************************************************************)
(* One request, from its arrival at the proxy (ServeHTTP in                *)
(* internal/proxy/proxy.go) to its answer by one of the handlers about one *)
(* Kubernetes object in several clusters (handlers.go over the retrying    *)
(* calls of transport.go): a named read, a Pod connection, a mutation, or  *)
(* a request for the primary context alone.  Lists and watches are handled *)
(* elsewhere.  The handler may first probe the object in every context,    *)
(* then chooses its targets and calls them concurrently, one goroutine     *)
(* each; every call retries temporary failures.                            *)
(*                                                                         *)
(* Other clients of the clusters write the object meanwhile.  A cluster    *)
(* numbers its writes with a revision; an object carries the revision of   *)
(* its creation (in its uid) and of its last write.                        *)
(***************************************************************************)
EXTENDS Integers, Sequences, SequencesExt, Routing

CONSTANTS
    Order,         \* p.targets: the contexts in configured order
    Primary,       \* the primary context
    Retries,       \* options.Retries
    MaxRevision,   \* bound on the revisions other clients cause
    Arrivals,      \* the requests that may arrive, see ArrivalType
    ObjectWishes,  \* the routing annotations objects carry, see WishType
    Names,         \* what a target-context annotation may list
    Absent         \* no object; no identity; no context

Contexts == Range(Order)

(* The routing annotations: the names target-context lists (none when it   *)
(* is not set, for even an empty value splits into one name), and whether  *)
(* single-context is "true".                                               *)
WishType == [list : Seq(Names), single : BOOLEAN]

(* A uid is unique to a cluster and a creation.  Version 0 stands for a    *)
(* body without a resourceVersion.                                         *)
Uid == Contexts \X Nat
Identity == [uid : Uid, version : Nat]
Object == [uid : Uid, version : Nat, wishes : WishType]

(* What arrives, at a proxy with these options.  authorized: it carries    *)
(* the proxy's token.  timeout: options.RequestTimeout is not 0.  path:    *)
(* without the slashes at its ends.  json: the body parses as a JSON       *)
(* object.  identity: the uid and version in the body of a PUT, that some  *)
(* context once gave the client.                                           *)
ArrivalType ==
    [authorized : BOOLEAN, readOnly : BOOLEAN, helmMode : BOOLEAN, timeout : BOOLEAN,
     method : Methods, path : {p \in Seq(STRING) : p # <<>> => p[Len(p)] # ""},
     watch : BOOLEAN, helmOwner : BOOLEAN,
     json : BOOLEAN, wishes : WishType, identity : Identity \cup {Absent}]

Calls == {"probe", "read", "write"}

(* What a handler works on.  object: the path names one object.  untimed:  *)
(* the calls that have no timeout.                                         *)
RequestType ==
    [class : Classes \cup {"unsent"}, method : Methods, object : BOOLEAN, untimed : SUBSET Calls,
     json : BOOLEAN, wishes : WishType, identity : Identity \cup {Absent}]

Unsent == [class |-> "unsent", method |-> "GET", object |-> FALSE, untimed |-> {}, json |-> FALSE,
           wishes |-> [list |-> <<>>, single |-> FALSE], identity |-> Absent]

ASSUME ObjectAssumption ==
    /\ Order \in Seq(Contexts) /\ Order # <<>> /\ IsInjective(Order)
    /\ Primary \in Contexts
    /\ Retries \in Nat /\ MaxRevision \in Nat \ {0}
    /\ \A r \in Arrivals : r \in ArrivalType
    /\ ObjectWishes \subseteq WishType
    /\ Absent \notin Contexts \cup Identity \cup Object

VARIABLES
    arriving,    \* the request before it is dispatched, then Absent
    request,     \* the request as its handler has it
    clientGone,  \* its context is done
    object,      \* each cluster's object, or Absent
    revision,    \* the last revision of each cluster
    phase,       \* where the handler stands
    stage,       \* where each context's goroutine stands
    attempt,     \* the retries its current call has made
    probed,      \* its answer to the probe
    current,     \* what a PUT read before it writes
    reply,       \* its response to the forwarded request
    late,        \* writes given up after a timeout that the cluster may still process
    selected,    \* the chosen targets, in the order of the responses
    answer,      \* the client's response
    applied,     \* history: how often the mutation took effect
    held         \* history: what the cluster held when last probed

clusterVars == <<object, revision, late, applied>>
callVars == <<stage, attempt, probed, current, reply, held>>
vars == <<arriving, request, clientGone, clusterVars, phase, callVars, selected, answer>>

Statuses == {"ok", "notFound", "conflict", "forbidden", "unavailable", "error", "rejected"}
Response(status, obj) == [status |-> status, object |-> obj]
NoResponse == Response("none", Absent)
ResponseType == [status : Statuses \cup {"none"}, object : Object \cup {Absent}]

TypeOK ==
    /\ arriving = Absent \/ arriving \in ArrivalType
    /\ request \in RequestType
    /\ clientGone \in BOOLEAN
    /\ object \in [Contexts -> Object \cup {Absent}]
    /\ revision \in [Contexts -> Nat]
    /\ phase \in {"arrived", "dispatched", "elsewhere", "probing", "sending", "streaming", "done"}
    /\ stage \in [Contexts -> {"idle", "probe", "read", "write", "done"}]
    /\ attempt \in [Contexts -> 0..Retries]
    /\ probed \in [Contexts -> ResponseType]
    /\ current \in [Contexts -> ResponseType]
    /\ reply \in [Contexts -> ResponseType]
    /\ late \in [Contexts -> 0..Retries + 1]
    /\ selected \in Seq(Contexts)
    /\ answer \in [status : Statuses \cup {"none"}, from : Contexts \cup {Absent}]
    /\ applied \in [Contexts -> 0..Retries + 1]
    /\ held \in [Contexts -> Object \cup {Absent}]

Fresh(t, r, w) == [uid |-> <<t, r>>, version |-> r, wishes |-> w]

Init ==
    /\ arriving \in Arrivals
    /\ request = Unsent
    /\ clientGone = FALSE
    /\ revision = [t \in Contexts |-> 1]
    /\ object \in {o \in [Contexts -> {Fresh(t, 1, w) : t \in Contexts, w \in ObjectWishes} \cup {Absent}] :
                     \A t \in Contexts : o[t] # Absent => o[t].uid = <<t, 1>>}
    /\ phase = "arrived"
    /\ stage = [t \in Contexts |-> "idle"]
    /\ attempt = [t \in Contexts |-> 0]
    /\ probed = [t \in Contexts |-> NoResponse]
    /\ current = [t \in Contexts |-> NoResponse]
    /\ reply = [t \in Contexts |-> NoResponse]
    /\ late = [t \in Contexts |-> 0]
    /\ selected = <<>>
    /\ answer = [status |-> "none", from |-> Absent]
    /\ applied = [t \in Contexts |-> 0]
    /\ held = [t \in Contexts |-> Absent]
------------------------------------------------------------------------------
(* The clusters.                                                           *)

Found(t) == probed[t].status = "ok"

(* Mutant: only the uid is taken over, so that no version is required.     *)
SentUidOnly(t) ==
    IF request.json /\ current[t].status = "ok"
      THEN [uid |-> current[t].object.uid, version |-> 0]
      ELSE request.identity

(* rewriteIdentity: the body of a PUT takes the uid and version just read; *)
(* what is not a JSON object, or was not read, is sent as it came.         *)
SentIdentity(t) ==
    IF request.json /\ current[t].status = "ok"
      THEN [uid |-> current[t].object.uid, version |-> current[t].object.version]
      ELSE request.identity

Matches(id, obj) ==
    id = Absent \/ (id.uid = obj.uid /\ id.version \in {0, obj.version})

(* How cluster t answers the forwarded request.  A POST below an object    *)
(* stands for an eviction, which removes it.                               *)
WriteStatus(t) ==
    CASE request.class # "mutation" \/ (request.method = "DELETE" /\ ~request.object) -> "ok"
      [] request.class = "mutation" /\ request.method = "POST" /\ ~request.object ->
           IF object[t] = Absent THEN "ok" ELSE "conflict"
      [] OTHER ->
           CASE object[t] = Absent -> "notFound"
             [] object[t] # Absent /\ request.method = "PUT"
                  /\ ~Matches(SentIdentity(t), object[t]) -> "conflict"
             [] OTHER -> "ok"

Written(t) ==
    LET r == revision[t] + 1
    IN CASE request.method = "POST" /\ ~request.object -> Fresh(t, r, request.wishes)
         [] request.method = "POST" /\ request.object -> Absent
         [] request.method = "DELETE" -> Absent
         [] request.method = "PUT" -> [object[t] EXCEPT !.version = r, !.wishes = request.wishes]
         [] OTHER -> [object[t] EXCEPT !.version = r]

(* The cluster processes the request: a mutation it accepts takes effect.  *)
Process(t) ==
    IF WriteStatus(t) = "ok" /\ request.class = "mutation"
      THEN /\ object' = [object EXCEPT ![t] = Written(t)]
           /\ revision' = [revision EXCEPT ![t] = @ + 1]
           /\ applied' = [applied EXCEPT ![t] = @ + 1]
      ELSE UNCHANGED <<object, revision, applied>>

(* A write whose caller timed out reaches the cluster after all.           *)
LateWrite(t) ==
    /\ late[t] > 0
    /\ late' = [late EXCEPT ![t] = @ - 1]
    /\ Process(t)
    /\ UNCHANGED <<arriving, request, clientGone, phase, callVars, selected, answer>>

(* A handler is at work.  What happens before the dispatch could as well   *)
(* have happened before the arrival or right after the dispatch.           *)
Handled == phase \notin {"arrived", "elsewhere", "done"}

(* Another client creates, updates or deletes the object.                  *)
OtherClient(t) ==
    /\ Handled /\ revision[t] < MaxRevision
    /\ revision' = [revision EXCEPT ![t] = @ + 1]
    /\ \/ /\ object[t] = Absent
          /\ \E w \in ObjectWishes : object' = [object EXCEPT ![t] = Fresh(t, revision[t] + 1, w)]
       \/ /\ object[t] # Absent
          /\ \/ object' = [object EXCEPT ![t].version = revision[t] + 1]
             \/ object' = [object EXCEPT ![t] = Absent]
    /\ UNCHANGED <<arriving, request, clientGone, late, applied, phase, callVars, selected, answer>>

ClientLeaves ==
    /\ Handled /\ ~clientGone
    /\ clientGone' = TRUE
    /\ UNCHANGED <<arriving, request, clusterVars, phase, callVars, selected, answer>>
------------------------------------------------------------------------------
(* requestTarget: one attempt, and what follows its outcome.               *)

Calling(t) == stage[t] \in Calls
Timed(t) == stage[t] \notin request.untimed
Retryable == {"unavailable", "error"}

(* Mutant: the early return of a failed read forgets to report the end.    *)
ReturnUnreported(t, response) ==
    /\ attempt' = [attempt EXCEPT ![t] = 0]
    /\ CASE stage[t] = "probe" ->
              /\ probed' = [probed EXCEPT ![t] = response]
              /\ stage' = [stage EXCEPT ![t] = "done"]
              /\ UNCHANGED <<current, reply>>
         [] stage[t] = "read" /\ response.status # "error" ->
              /\ current' = [current EXCEPT ![t] = response]
              /\ stage' = [stage EXCEPT ![t] = "write"]
              /\ UNCHANGED <<probed, reply>>
         [] OTHER ->
              /\ reply' = [reply EXCEPT ![t] = response]
              /\ stage' = [stage EXCEPT ![t] = IF @ = "read" THEN "idle" ELSE "done"]
              /\ UNCHANGED <<probed, current>>

(* The call of the stage is over.  A PUT whose read got any response goes  *)
(* on to write.                                                            *)
Return(t, response) ==
    /\ attempt' = [attempt EXCEPT ![t] = 0]
    /\ CASE stage[t] = "probe" ->
              /\ probed' = [probed EXCEPT ![t] = response]
              /\ stage' = [stage EXCEPT ![t] = "done"]
              /\ UNCHANGED <<current, reply>>
         [] stage[t] = "read" /\ response.status # "error" ->
              /\ current' = [current EXCEPT ![t] = response]
              /\ stage' = [stage EXCEPT ![t] = "write"]
              /\ UNCHANGED <<probed, reply>>
         [] OTHER ->
              /\ reply' = [reply EXCEPT ![t] = response]
              /\ stage' = [stage EXCEPT ![t] = "done"]
              /\ UNCHANGED <<probed, current>>

(* Mutant: one retry too many.                                             *)
SettleOneMore(t, response) ==
    IF response.status \in Retryable /\ attempt[t] <= Retries
      THEN /\ attempt' = [attempt EXCEPT ![t] = @ + 1]
           /\ UNCHANGED <<stage, probed, current, reply>>
      ELSE Return(t, response)

Settle(t, response) ==
    IF response.status \in Retryable /\ attempt[t] < Retries
      THEN /\ attempt' = [attempt EXCEPT ![t] = @ + 1]
           /\ UNCHANGED <<stage, probed, current, reply>>
      ELSE Return(t, response)

Probing(t) == held' = IF stage[t] = "probe" THEN [held EXCEPT ![t] = object[t]] ELSE held
CallKept == <<arriving, request, clientGone, phase, selected, answer>>

(* The cluster, or the way to it, fails the attempt without effect: with a *)
(* response that is final, with one that is retried, or with none.  Only   *)
(* after a read does it matter which of the last two it was.               *)
AttemptFails(t) ==
    /\ Calling(t)
    /\ \E status \in {"forbidden", "error"} \cup (IF stage[t] = "read" THEN {"unavailable"} ELSE {}) :
          Settle(t, Response(status, Absent))
    /\ Probing(t)
    /\ UNCHANGED <<CallKept, clusterVars>>

AttemptReads(t) ==
    /\ stage[t] \in {"probe", "read"} /\ ~clientGone
    /\ Settle(t, IF object[t] = Absent THEN Response("notFound", Absent) ELSE Response("ok", object[t]))
    /\ Probing(t)
    /\ UNCHANGED <<CallKept, clusterVars>>

(* The cluster processes the request; its answer may get lost.             *)
AttemptWrites(t) ==
    /\ stage[t] = "write" /\ ~clientGone
    /\ Process(t)
    /\ \E status \in {WriteStatus(t), "error"} : Settle(t, Response(status, Absent))
    /\ UNCHANGED <<CallKept, late, held>>

(* The attempt times out, or its connection breaks, while its write is     *)
(* under way.                                                              *)
AttemptTimesOut(t) ==
    /\ stage[t] = "write" /\ ~clientGone /\ request.class = "mutation"
    /\ late' = [late EXCEPT ![t] = @ + 1]
    /\ Settle(t, Response("error", Absent))
    /\ UNCHANGED <<CallKept, object, revision, applied, held>>

(* With the client gone no attempt is sent: Do fails, and the wait between *)
(* two attempts ends at once.                                              *)
AttemptAbandoned(t) ==
    /\ Calling(t) /\ clientGone
    /\ Return(t, Response("error", Absent))
    /\ UNCHANGED <<CallKept, clusterVars, held>>

Attempt(t) ==
    \/ AttemptFails(t) \/ AttemptReads(t) \/ AttemptWrites(t)
    \/ AttemptTimesOut(t) \/ AttemptAbandoned(t)
------------------------------------------------------------------------------
(* The handlers.                                                           *)

HandlerKept == <<arriving, request, clientGone, clusterVars, attempt, probed, current, reply, held>>

Answer(status, from) ==
    /\ answer' = [status |-> status, from |-> from]
    /\ phase' = "done"
    /\ UNCHANGED <<stage, selected>>

(* requestTarget sets no timeout without --request-timeout, for a watch    *)
(* and for a Pod connection.  A probe asks for the object itself and drops *)
(* the query; the read before a PUT keeps both.                            *)
Untimed(r) ==
    LET pod == IsPodConnection(ParseResourcePath(r.path).subresource)
    IN {call \in Calls : \/ ~r.timeout
                         \/ call = "read" /\ (pod \/ r.watch)
                         \/ call = "write" /\ (pod \/ IsWatch(r))}

(* ServeHTTP.                                                              *)
Dispatch ==
    /\ phase = "arrived"
    /\ arriving' = Absent
    /\ IF ~arriving.authorized \/ (arriving.readOnly /\ IsMutation(arriving.method))
         THEN Answer("rejected", Absent) /\ UNCHANGED request
         ELSE LET class == ClassifyRequest(arriving, arriving.helmMode)
              IN /\ request' = [class |-> class, method |-> arriving.method,
                                object |-> ParseResourcePath(arriving.path).isObject,
                                untimed |-> Untimed(arriving),
                                json |-> arriving.json, wishes |-> arriving.wishes,
                                identity |-> arriving.identity]
                 /\ phase' = IF class \in {"list", "watch"} THEN "elsewhere" ELSE "dispatched"
                 /\ UNCHANGED <<stage, selected, answer>>
    /\ UNCHANGED <<clientGone, clusterVars, attempt, probed, current, reply, held>>

Probe ==
    /\ phase' = "probing"
    /\ stage' = [t \in Contexts |-> "probe"]
    /\ UNCHANGED <<selected, answer>>

(* requestMutationTargets: a PUT reads every target before it writes.      *)
Send(targets) ==
    /\ selected' = targets
    /\ phase' = "sending"
    /\ stage' = [t \in Contexts |->
                   CASE t \notin Range(targets) -> "idle"
                     [] t \in Range(targets) /\ request.class = "mutation" /\ request.method = "PUT" -> "read"
                     [] OTHER -> "write"]
    /\ UNCHANGED answer

Routes(w) == w.list # <<>> \/ w.single
Misrouted(w) == ~(Range(w.list) \subseteq Contexts)
Route(w) == IF w.list # <<>> THEN w.list ELSE <<Primary>>

(* annotationTargets, contextTargets: a name listed twice is one target,   *)
(* which the order of first occurrences shows as well.                     *)
SendAsWished(w) == IF Misrouted(w) THEN Answer("rejected", Absent) ELSE Send(Route(w))

ReceiveSingle ==
    /\ phase = "dispatched" /\ request.class = "primary"
    /\ Send(<<Primary>>)
    /\ UNCHANGED HandlerKept

ReceiveLookup ==
    /\ phase = "dispatched" /\ request.class \in {"namedGet", "podStream"}
    /\ Probe
    /\ UNCHANGED HandlerKept

NeedsExistingObject == request.object /\ request.method \in {"PUT", "PATCH", "DELETE"}

(* forwardMutation, mutationTargets, when the body has been read.          *)
ReceiveMutation ==
    /\ phase = "dispatched" /\ request.class = "mutation"
    /\ IF Routes(request.wishes)
         THEN SendAsWished(request.wishes)
         ELSE IF NeedsExistingObject THEN Probe ELSE Send(Order)
    /\ UNCHANGED HandlerKept

(* The client's body is too long or cannot be read.                        *)
RejectBody ==
    /\ phase = "dispatched" /\ request.class = "mutation"
    /\ Answer("rejected", Absent)
    /\ UNCHANGED HandlerKept

Probed == phase = "probing" /\ \A t \in Contexts : stage[t] = "done"

(* A loop over the responses sees those of S in the order of the list.     *)
InOrder(list, S) == FlattenSeq([i \in DOMAIN list |-> IF list[i] \in S THEN <<list[i]>> ELSE <<>>])

Finders == InOrder(Order, {t \in Contexts : Found(t)})
Failures == InOrder(Order, {t \in Contexts : probed[t].status \notin {"ok", "notFound"}})

(* firstSuccess, and the choice among the responses of a mutation.         *)
Preferred(targets) == IF Primary \in Range(targets) THEN Primary ELSE Head(targets)

(* Mutant: when nothing is found the first response is the answer.         *)
NamedGetAnsweredByFirst ==
    /\ Probed /\ request.class = "namedGet"
    /\ IF Finders # <<>> THEN Answer("ok", Preferred(Finders))
                         ELSE Answer(probed[Head(Order)].status, Head(Order))
    /\ UNCHANGED HandlerKept

NamedGetAnswered ==
    /\ Probed /\ request.class = "namedGet"
    /\ CASE Finders # <<>> -> Answer("ok", Preferred(Finders))
         [] Finders = <<>> /\ Failures # <<>> -> Answer(probed[Head(Failures)].status, Head(Failures))
         [] OTHER -> Answer("notFound", Head(Order))
    /\ UNCHANGED HandlerKept

Stream(target) ==
    /\ selected' = <<target>>
    /\ phase' = "streaming"
    /\ UNCHANGED <<stage, answer>>

(* Mutant: any failure to find the Pod falls back to the primary.          *)
PodStreamFallsBack ==
    /\ Probed /\ request.class = "podStream"
    /\ Stream(IF Finders # <<>> THEN Preferred(Finders) ELSE Primary)
    /\ UNCHANGED HandlerKept

PodStreamChosen ==
    /\ Probed /\ request.class = "podStream"
    /\ CASE Finders # <<>> -> Stream(Preferred(Finders))
         [] Finders = <<>> /\ Failures # <<>> -> Answer(probed[Head(Failures)].status, Head(Failures))
         [] OTHER -> Stream(Primary)
    /\ UNCHANGED HandlerKept

(* The connection ends, or was refused: nothing bounds how long it lasts.  *)
StreamEnds ==
    /\ phase = "streaming"
    /\ \E status \in {"ok", "notFound", "error"} : Answer(status, Head(selected))
    /\ UNCHANGED HandlerKept

AnnotatedFinders == InOrder(Order, {t \in Contexts : Found(t) /\ Routes(probed[t].object.wishes)})

(* Mutant: a context whose probe failed counts as one without the object.  *)
MutationChosenSkippingFailures ==
    /\ Probed /\ request.class = "mutation"
    /\ IF AnnotatedFinders # <<>>
         THEN SendAsWished(probed[Head(AnnotatedFinders)].object.wishes)
         ELSE Send(IF Finders # <<>> THEN Finders ELSE Order)
    /\ UNCHANGED HandlerKept

(* mutationTargets after the probe: the first annotated object decides,    *)
(* then the contexts that hold one, then all; a failed probe in a context  *)
(* that might hold one ends the request.                                   *)
MutationChosen ==
    /\ Probed /\ request.class = "mutation"
    /\ CASE AnnotatedFinders # <<>> -> SendAsWished(probed[Head(AnnotatedFinders)].object.wishes)
         [] AnnotatedFinders = <<>> /\ Failures # <<>> -> Answer("rejected", Absent)
         [] OTHER -> Send(IF Finders # <<>> THEN Finders ELSE Order)
    /\ UNCHANGED HandlerKept

(* Mutant: the representative response is chosen before failures are seen. *)
RespondRepresentative ==
    /\ phase = "sending" /\ \A t \in Range(selected) : stage[t] = "done"
    /\ Answer(reply[Preferred(selected)].status, Preferred(selected))
    /\ UNCHANGED HandlerKept

(* forwardMutation and forwardSingle when every target is back.            *)
Respond ==
    /\ phase = "sending" /\ \A t \in Range(selected) : stage[t] = "done"
    /\ LET failed == InOrder(selected, {t \in Contexts : reply[t].status # "ok"})
       IN IF failed # <<>> THEN Answer(reply[Head(failed)].status, Head(failed))
                           ELSE Answer("ok", Preferred(selected))
    /\ UNCHANGED HandlerKept
------------------------------------------------------------------------------
ReadBody == ReceiveMutation \/ RejectBody

Proceed ==
    \/ Dispatch \/ ReceiveSingle \/ ReceiveLookup
    \/ NamedGetAnswered \/ PodStreamChosen \/ MutationChosen \/ Respond

HandlerStep == Proceed \/ ReadBody

Next ==
    \/ HandlerStep \/ StreamEnds \/ ClientLeaves
    \/ \E t \in Contexts : Attempt(t) \/ LateWrite(t) \/ OtherClient(t)

Spec == Init /\ [][Next]_vars

(* Goroutines run; a call with a timeout ends, and so do all calls, and    *)
(* the reading of the body, when the client leaves.  Nothing else is       *)
(* assumed of the clusters or of the client: the server sets no read       *)
(* timeout.                                                                *)
FairSpec ==
    /\ Spec
    /\ WF_vars(Proceed) /\ WF_vars(clientGone /\ ReadBody)
    /\ \A t \in Contexts : WF_vars(AttemptAbandoned(t)) /\ WF_vars(Timed(t) /\ Attempt(t))
------------------------------------------------------------------------------
(* Correctness.                                                            *)

(* handlers.go:114-127 -- a client told that its mutation succeeded finds  *)
(* it done in every selected context, and one told of a local rejection    *)
(* finds it done, or still under way, nowhere.  No context that was not    *)
(* selected is ever written.                                               *)
AnswerIsTruthful ==
    phase = "done" /\ request.class = "mutation" =>
        /\ answer.status = "ok" =>
             \A t \in Range(selected) : applied[t] > 0
        /\ answer.from = Absent => \A t \in Contexts : applied[t] = 0 /\ late[t] = 0
        /\ \A t \in Contexts \ Range(selected) : applied[t] = 0 /\ late[t] = 0

(* handlers.go:130-162, 328-344 -- a PUT that read the object replaces     *)
(* exactly what it read: neither a retry, nor a late first attempt, nor    *)
(* another client's write in between lets it overwrite anything newer.     *)
PutReplacesWhatItRead ==
    [][\A t \in Contexts :
         applied'[t] > applied[t] /\ request.method = "PUT" /\ request.json
             /\ current[t].status = "ok" => object[t] = current[t].object]_vars

(* handlers.go:164-182, 224-251 -- where every context that holds an       *)
(* annotated object wishes for the same targets, an unannotated mutation   *)
(* takes effect in no other context, whichever probes failed.              *)
AnnotationsAreObeyed ==
    ~Routes(request.wishes) /\ NeedsExistingObject =>
        LET wishes == {held[t].wishes : t \in {u \in Contexts : held[u] # Absent}}
            routed == {w \in wishes : Routes(w)}
        IN \A w \in routed : routed = {w} =>
               \A t \in Contexts : applied[t] > 0 => t \in Range(Route(w))

(* ROUTING.md:127-132 -- a named read answers "not found" only when every  *)
(* context said so, and never hides the primary's object behind another.   *)
NotFoundMeansNowhere ==
    phase = "done" /\ request.class = "namedGet" =>
        /\ answer.status = "notFound" => \A t \in Contexts : probed[t].status = "notFound"
        /\ answer.status = "ok" => Found(answer.from) /\ (Found(Primary) => answer.from = Primary)

(* ROUTING.md:138-143 -- a Pod connection goes to one context that has the *)
(* Pod, or to the primary when every context lacks it.                     *)
StreamGoesToAnOwner ==
    phase = "streaming" =>
        \/ Found(Head(selected))
        \/ Head(selected) = Primary /\ \A t \in Contexts : probed[t].status = "notFound"

(* transport.go:16-55, handlers.go:100-104, 134-161 -- however many        *)
(* attempts fail, every buffered request is answered in the end, or waits  *)
(* for ever for what its client, still there, does not send, or for a call *)
(* that has no timeout.                                                    *)
Answered == phase \in {"elsewhere", "streaming", "done"}
AwaitsBody == phase = "dispatched" /\ request.class = "mutation"
AwaitsCall == \E t \in Contexts : Calling(t) /\ ~Timed(t)

EveryRequestIsAnswered == <>[](Answered \/ (~clientGone /\ (AwaitsBody \/ AwaitsCall)))

(* ROUTING.md:41-57, routing.go:28-56 -- the first row of the precedence   *)
(* table that matches decides which handler gets a request, whatever its   *)
(* path, and of the other rows none does; a request that the token or the  *)
(* read-only rule refuses gets none.                                       *)
RoutedAsDocumented ==
    [][phase = "arrived" /\ ~IsUndecided(arriving.path) =>
         request'.class = CASE ~arriving.authorized -> "unsent"
                            [] arriving.authorized /\ arriving.readOnly /\ arriving.method # "GET" -> "unsent"
                            [] OTHER -> Documented(arriving, arriving.helmMode)]_vars

(* ROUTING.md:170-171 -- a PUT never carries one cluster's identity to     *)
(* another.                                                                *)
IdentityStaysHome ==
    \A t \in Contexts :
        stage[t] = "write" /\ request.method = "PUT" /\ SentIdentity(t) # Absent =>
            SentIdentity(t).uid[1] = t
==============================================================================
