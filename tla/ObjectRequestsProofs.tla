------------------------- MODULE ObjectRequestsProofs -------------------------
(***************************************************************************)
(* What holds of a request for any contexts, any number of retries and any *)
(* writes of other clients: first of its writes (a cluster compares        *)
(* versions, the promise is about objects, so the invariant says that the  *)
(* version just read names no other object than the one read, for ever),   *)
(* then of its answer, then of the handler that any path is given.         *)
(***************************************************************************)
EXTENDS ObjectRequests, SequenceFacts, SequenceTheorems, TLAPS

USE DEF Calls

(* Objects have versions, and no version lies in the future.               *)
Stored(t) == object[t] # Absent => object[t].version \in 1..revision[t]

(* What a PUT read still is what its version names.                        *)
ReadStands(t) ==
    current[t].status = "ok" =>
        /\ current[t].object \in Object
        /\ current[t].object.version \in 1..revision[t]
        /\ object[t] # Absent /\ object[t].version = current[t].object.version =>
             object[t] = current[t].object

RInv ==
    /\ object \in [Contexts -> Object \cup {Absent}]
    /\ revision \in [Contexts -> Nat]
    /\ applied \in [Contexts -> Nat]
    /\ DOMAIN current = Contexts
    /\ request.wishes \in WishType
    /\ phase = "arrived" => arriving \in Arrivals
    /\ \A t \in Contexts : Stored(t) /\ ReadStands(t)

LEMMA FreshIsObject ==
    ASSUME NEW t \in Contexts, NEW r \in Nat, NEW w \in WishType
    PROVE  Fresh(t, r, w) \in Object
  BY DEF Fresh, Object, Uid

LEMMA InitRInv == Init => RInv
<1> SUFFICES ASSUME Init PROVE RInv
  OBVIOUS
<1> USE ObjectAssumption
<1>1. ASSUME NEW t \in Contexts
      PROVE  /\ object[t] \in Object \cup {Absent}
             /\ object[t] # Absent => object[t].version = 1
  <2>1. object[t] \in {Fresh(u, 1, w) : u \in Contexts, w \in ObjectWishes} \cup {Absent}
    BY DEF Init
  <2>2. ASSUME NEW u \in Contexts, NEW w \in ObjectWishes
        PROVE  Fresh(u, 1, w) \in Object /\ Fresh(u, 1, w).version = 1
    BY FreshIsObject DEF Fresh
  <2> QED
    BY <2>1, <2>2
<1>2. object \in [Contexts -> Object \cup {Absent}]
  BY <1>1 DEF Init
<1>3. Unsent.wishes \in WishType
  BY DEF Unsent, WishType
<1> QED
  BY <1>1, <1>2, <1>3 DEF Init, RInv, Stored, ReadStands, NoResponse, Response

(* A cluster writes its object at a new revision, and only there.          *)
NewRevision(t) ==
    /\ revision' = [revision EXCEPT ![t] = @ + 1]
    /\ \E o \in Object \cup {Absent} :
         /\ object' = [object EXCEPT ![t] = o]
         /\ o # Absent => o.version = revision[t] + 1

LEMMA WriteRInv ==
    ASSUME RInv, NEW t \in Contexts, NewRevision(t), UNCHANGED <<current, request, phase, arriving>>,
           applied' \in [Contexts -> Nat]
    PROVE  RInv'
<1> USE DEF RInv
<1>1. PICK o \in Object \cup {Absent} :
        object' = [object EXCEPT ![t] = o] /\ (o # Absent => o.version = revision[t] + 1)
  BY DEF NewRevision
<1>2. revision' = [revision EXCEPT ![t] = @ + 1]
  BY DEF NewRevision
<1>3. ASSUME NEW u \in Contexts PROVE Stored(u)' /\ ReadStands(u)'
  <2>1. CASE u = t
    <3>1. object'[u] = o /\ revision'[u] = revision[u] + 1 /\ revision[u] \in Nat /\ current'[u] = current[u]
      BY <1>1, <1>2, <2>1
    <3>2. Stored(u)'
      BY <1>1, <3>1, <2>1 DEF Stored
    <3>3. current[u].status = "ok" => current[u].object.version < revision'[u]
      BY <3>1 DEF ReadStands
    <3> QED
      BY <1>1, <2>1, <3>1, <3>2, <3>3 DEF ReadStands
  <2>2. CASE u # t
    BY <1>1, <1>2, <2>2 DEF Stored, ReadStands
  <2> QED
    BY <2>1, <2>2
<1> QED
  BY <1>1, <1>2, <1>3

(* The cases of WriteStatus in which an object must be there to be written.*)
LEMMA WrittenWasThere ==
    ASSUME NEW t, WriteStatus(t) = "ok", request.class = "mutation",
           request.method \notin {"POST", "DELETE"}
    PROVE  /\ object[t] # Absent
           /\ request.method = "PUT" => Matches(SentIdentity(t), object[t])
<1> HIDE DEF Matches, SentIdentity
<1> QED
  BY DEF WriteStatus

LEMMA ProcessWrites ==
    ASSUME RInv, NEW t \in Contexts, Process(t)
    PROVE  /\ applied' \in [Contexts -> Nat]
           /\ NewRevision(t) \/ UNCHANGED <<object, revision, applied>>
<1>1. CASE ~(WriteStatus(t) = "ok" /\ request.class = "mutation")
  BY <1>1, Zenon DEF Process, RInv
<1>2. CASE WriteStatus(t) = "ok" /\ request.class = "mutation"
  <2>1. /\ object' = [object EXCEPT ![t] = Written(t)]
        /\ revision' = [revision EXCEPT ![t] = @ + 1]
        /\ applied' = [applied EXCEPT ![t] = @ + 1]
    BY <1>2, Zenon DEF Process
  <2>2. Written(t) \in Object \cup {Absent} /\ (Written(t) # Absent => Written(t).version = revision[t] + 1)
    <3>1. revision[t] + 1 \in Nat /\ request.wishes \in WishType /\ object[t] \in Object \cup {Absent}
      BY DEF RInv
    <3>2. CASE request.method \in {"POST", "DELETE"}
      <4>1. Fresh(t, revision[t] + 1, request.wishes) \in Object
        BY <3>1, FreshIsObject
      <4>2. Fresh(t, revision[t] + 1, request.wishes).version = revision[t] + 1
        BY DEF Fresh
      <4> HIDE DEF Fresh
      <4> QED
        BY <3>2, <4>1, <4>2 DEF Written
    <3>3. CASE request.method \notin {"POST", "DELETE"}
      <4>1. object[t] \in Object
        BY <1>2, <3>1, <3>3, WrittenWasThere
      <4>2. CASE request.method = "PUT"
        BY <3>1, <4>1, <4>2 DEF Written, Object
      <4>3. CASE request.method # "PUT"
        BY <3>1, <3>3, <4>1, <4>3 DEF Written, Object
      <4> QED
        BY <4>2, <4>3
    <3> QED
      BY <3>2, <3>3
  <2>3. applied' \in [Contexts -> Nat]
    BY <2>1 DEF RInv
  <2> QED
    BY <2>1, <2>2, <2>3 DEF NewRevision
<1> QED
  BY <1>1, <1>2

(* A call that is over has read what it says it has.                       *)
LEMMA SettleReads ==
    ASSUME NEW t, NEW response, Settle(t, response)
    PROVE  current' = current \/ (stage[t] = "read" /\ current' = [current EXCEPT ![t] = response])
  BY Zenon DEF Settle, Return

LEMMA AttemptRInv ==
    ASSUME RInv, NEW t \in Contexts, Attempt(t)
    PROVE  RInv'
<1> USE DEF CallKept, clusterVars
<1>1. UNCHANGED <<arriving, request, phase>>
  BY DEF Attempt, AttemptFails, AttemptReads, AttemptWrites, AttemptTimesOut, AttemptAbandoned
<1>2. ASSUME NEW response, response.status # "ok", UNCHANGED <<object, revision, applied>>,
             current' = current \/ current' = [current EXCEPT ![t] = response]
      PROVE  RInv'
  <2>1. ASSUME NEW u \in Contexts PROVE Stored(u)' /\ ReadStands(u)'
    BY <1>2 DEF RInv, Stored, ReadStands
  <2> QED
    BY <1>1, <1>2, <2>1 DEF RInv
<1>3. CASE AttemptFails(t)
  <2>1. PICK status \in {"forbidden", "error", "unavailable"} : Settle(t, Response(status, Absent))
    BY <1>3, Zenon DEF AttemptFails
  <2> QED
    BY <1>2, <1>3, <2>1, SettleReads DEF AttemptFails, Response
<1>4. CASE AttemptReads(t)
  <2>1. UNCHANGED <<object, revision, applied>>
    BY <1>4 DEF AttemptReads
  <2>2. CASE object[t] = Absent
    <3>1. Settle(t, Response("notFound", Absent))
      BY <1>4, <2>2, Zenon DEF AttemptReads
    <3> QED
      BY <1>2, <2>1, <3>1, SettleReads DEF Response
  <2>3. CASE object[t] # Absent
    <3>1. Settle(t, Response("ok", object[t]))
      BY <1>4, <2>3, Zenon DEF AttemptReads
    <3>2. current' = current \/ current' = [current EXCEPT ![t] = Response("ok", object[t])]
      BY <3>1, SettleReads
    <3>3. ASSUME NEW u \in Contexts PROVE Stored(u)' /\ ReadStands(u)'
      BY <2>1, <2>3, <3>2 DEF RInv, Stored, ReadStands, Response
    <3> QED
      BY <1>1, <2>1, <3>2, <3>3 DEF RInv
  <2> QED
    BY <2>2, <2>3
<1>5. CASE AttemptWrites(t)
  <2>1. PICK status : Settle(t, Response(status, Absent))
    BY <1>5, Zenon DEF AttemptWrites
  <2>2. current' = current
    BY <1>5, <2>1, SettleReads DEF AttemptWrites
  <2>3. NewRevision(t) \/ UNCHANGED <<object, revision, applied>>
    BY <1>5, ProcessWrites DEF AttemptWrites
  <2>4. applied' \in [Contexts -> Nat]
    BY <1>5, ProcessWrites DEF AttemptWrites
  <2>5. CASE UNCHANGED <<object, revision, applied>>
    BY <1>1, <2>2, <2>5 DEF RInv, Stored, ReadStands
  <2> QED
    BY <1>1, <2>2, <2>3, <2>4, <2>5, WriteRInv
<1>6. CASE AttemptTimesOut(t)
  BY <1>2, <1>6, SettleReads DEF AttemptTimesOut, Response
<1>7. CASE AttemptAbandoned(t)
  <2>1. current' = current \/ current' = [current EXCEPT ![t] = Response("error", Absent)]
    BY <1>7, Zenon DEF AttemptAbandoned, Return
  <2> QED
    BY <1>2, <1>7, <2>1 DEF AttemptAbandoned, Response
<1> QED
  BY <1>3, <1>4, <1>5, <1>6, <1>7 DEF Attempt

(* The handler itself writes nothing.                                      *)
LEMMA HandlerWritesNothing ==
    ASSUME HandlerStep \/ StreamEnds
    PROVE  UNCHANGED <<object, revision, applied, current>> /\ phase' # "arrived"
<1> USE DEF HandlerKept, clusterVars, Answer, Probe, Send, Stream, SendAsWished
<1>1. CASE Dispatch
  BY <1>1 DEF Dispatch
<1>2. CASE ReceiveSingle \/ ReceiveLookup \/ ReceiveMutation \/ RejectBody
  BY <1>2, Zenon DEF ReceiveSingle, ReceiveLookup, ReceiveMutation, RejectBody
<1>3. CASE NamedGetAnswered \/ Respond \/ StreamEnds
  BY <1>3 DEF NamedGetAnswered, Respond, StreamEnds
<1>4. CASE PodStreamChosen
  BY <1>4 DEF PodStreamChosen
<1>5. CASE MutationChosen
  BY <1>5 DEF MutationChosen
<1> QED
  BY <1>1, <1>2, <1>3, <1>4, <1>5 DEF HandlerStep, Proceed, ReadBody

(* What the handler works on came with the request.                        *)
LEMMA WishesArrive ==
    ASSUME RInv, HandlerStep \/ StreamEnds
    PROVE  request'.wishes \in WishType
<1>1. CASE Dispatch
  <2>1. arriving.wishes \in WishType
    BY <1>1, ObjectAssumption DEF Dispatch, RInv, ArrivalType
  <2>2. request' = request \/ request'.wishes = arriving.wishes
    BY <1>1 DEF Dispatch
  <2> QED
    BY <2>1, <2>2 DEF RInv
<1>2. CASE ~Dispatch
  BY <1>2 DEF RInv, HandlerStep, Proceed, ReadBody, ReceiveSingle, ReceiveLookup, ReceiveMutation, RejectBody,
              NamedGetAnswered, PodStreamChosen, MutationChosen, Respond, StreamEnds, HandlerKept
<1> QED
  BY <1>1, <1>2

LEMMA StepRInv == RInv /\ [Next]_vars => RInv'
<1> SUFFICES ASSUME RInv, [Next]_vars PROVE RInv'
  OBVIOUS
<1>1. CASE HandlerStep \/ StreamEnds
  BY <1>1, HandlerWritesNothing, WishesArrive DEF RInv, Stored, ReadStands
<1>2. ASSUME NEW t \in Contexts, Attempt(t) PROVE RInv'
  BY <1>2, AttemptRInv
<1>3. ASSUME NEW t \in Contexts, LateWrite(t) PROVE RInv'
  <2>1. UNCHANGED <<arriving, request, phase, current>>
    BY <1>3 DEF LateWrite, callVars
  <2>2. CASE UNCHANGED <<object, revision, applied>>
    BY <2>1, <2>2 DEF RInv, Stored, ReadStands
  <2> QED
    BY <1>3, <2>1, <2>2, ProcessWrites, WriteRInv DEF LateWrite
<1>4. ASSUME NEW t \in Contexts, OtherClient(t) PROVE RInv'
  <2>1. UNCHANGED <<arriving, request, phase, current, applied>>
    BY <1>4 DEF OtherClient, callVars
  <2>2. revision[t] \in Nat /\ object[t] \in Object \cup {Absent}
    BY DEF RInv
  <2>3. NewRevision(t)
    <3>1. CASE object[t] = Absent
      <4>1. PICK w \in ObjectWishes : object' = [object EXCEPT ![t] = Fresh(t, revision[t] + 1, w)]
        BY <1>4, <3>1 DEF OtherClient
      <4>2. Fresh(t, revision[t] + 1, w) \in Object /\ Fresh(t, revision[t] + 1, w).version = revision[t] + 1
        BY <2>2, FreshIsObject, ObjectAssumption DEF Fresh
      <4> QED
        BY <1>4, <4>1, <4>2 DEF OtherClient, NewRevision
    <3>2. CASE object[t] # Absent
      <4> DEFINE o == [object[t] EXCEPT !.version = revision[t] + 1]
      <4>1. o \in Object /\ o.version = revision[t] + 1
        BY <2>2, <3>2 DEF Object
      <4>2. object' = [object EXCEPT ![t] = o] \/ object' = [object EXCEPT ![t] = Absent]
        BY <1>4, <3>2 DEF OtherClient
      <4> HIDE DEF o
      <4> QED
        BY <1>4, <4>1, <4>2 DEF OtherClient, NewRevision
    <3> QED
      BY <3>1, <3>2
  <2> QED
    BY <2>1, <2>3, WriteRInv DEF RInv
<1>5. CASE ClientLeaves \/ UNCHANGED vars
  BY <1>5 DEF ClientLeaves, vars, clusterVars, callVars, RInv, Stored, ReadStands
<1> QED
  BY <1>1, <1>2, <1>3, <1>4, <1>5 DEF Next

(* A cluster that takes the PUT holds what was read.                       *)
LEMMA AcceptedIsRead ==
    ASSUME RInv, NEW t \in Contexts, NEW u \in Contexts, Process(t), applied'[u] > applied[u],
           request.method = "PUT", request.json, current[u].status = "ok"
    PROVE  object[u] = current[u].object
<1>1. applied[u] \in Nat
  BY DEF RInv
<1>2. /\ WriteStatus(t) = "ok" /\ request.class = "mutation"
      /\ applied' = [applied EXCEPT ![t] = @ + 1]
  <2>1. CASE UNCHANGED applied
    BY <1>1, <2>1
  <2> QED
    BY <2>1, Zenon DEF Process
<1>3. u = t
  BY <1>1, <1>2 DEF RInv
<1>4. object[t] # Absent /\ Matches(SentIdentity(t), object[t])
  BY <1>2, WrittenWasThere
<1>5. /\ current[t].object \in Object /\ current[t].object.version # 0
      /\ object[t].version = current[t].object.version => object[t] = current[t].object
  BY <1>3, <1>4 DEF RInv, ReadStands
<1>6. SentIdentity(t) = [uid |-> current[t].object.uid, version |-> current[t].object.version]
  BY <1>3 DEF SentIdentity
<1>7. SentIdentity(t) \in Identity
  BY <1>5, <1>6 DEF Identity, Object
<1>8. SentIdentity(t) # Absent
  BY <1>7, ObjectAssumption
<1>9. object[t].version = current[t].object.version
  BY <1>4, <1>5, <1>6, <1>8 DEF Matches
<1> QED
  BY <1>3, <1>5, <1>9

(* handlers.go:130-162, 328-344 -- a PUT that read the object replaces     *)
(* exactly what it read, however often it is retried, however late its     *)
(* abandoned attempts arrive, and whatever other clients write.            *)
THEOREM PutReplaces == Spec => PutReplacesWhatItRead
<1> DEFINE Accepted ==
      \A t \in Contexts :
         applied'[t] > applied[t] /\ request.method = "PUT" /\ request.json
             /\ current[t].status = "ok" => object[t] = current[t].object
<1>1. RInv /\ [Next]_vars => Accepted
  <2> SUFFICES ASSUME RInv, [Next]_vars, NEW u \in Contexts, applied'[u] > applied[u],
                      request.method = "PUT", request.json, current[u].status = "ok"
               PROVE  object[u] = current[u].object
    OBVIOUS
  <2>1. ~(applied' = applied)
    BY DEF RInv
  <2>2. PICK t \in Contexts : Process(t)
    <3>1. ~(HandlerStep \/ StreamEnds)
      BY <2>1, HandlerWritesNothing
    <3>2. ~(ClientLeaves \/ UNCHANGED vars)
      BY <2>1 DEF ClientLeaves, vars, clusterVars
    <3>3. PICK t \in Contexts : Attempt(t) \/ LateWrite(t) \/ OtherClient(t)
      BY <3>1, <3>2 DEF Next
    <3> QED
      BY <2>1, <3>3 DEF Attempt, AttemptFails, AttemptReads, AttemptWrites, AttemptTimesOut,
                        AttemptAbandoned, LateWrite, OtherClient, clusterVars
  <2> QED
    BY <2>2, AcceptedIsRead
<1> QED
  BY <1>1, InitRInv, StepRInv, PTL DEF Spec, PutReplacesWhatItRead
------------------------------------------------------------------------------
(* What a loop over the responses of some contexts sees.                   *)
LEMMA InOrderIs ==
    ASSUME NEW list \in Seq(Contexts), NEW S
    PROVE  /\ InOrder(list, S) \in Seq(Contexts)
           /\ \A t : t \in Range(InOrder(list, S)) <=> t \in Range(list) /\ t \in S
<1> DEFINE f == [i \in 1..Len(list) |-> IF list[i] \in S THEN <<list[i]>> ELSE <<>>]
<1>1. Len(list) \in Nat /\ DOMAIN list = 1..Len(list) /\ \A i \in 1..Len(list) : list[i] \in Contexts
  OBVIOUS
<1>2. ASSUME NEW i \in 1..Len(list)
      PROVE  /\ f[i] \in Seq(Contexts)
             /\ \A t : t \in Range(f[i]) <=> t = list[i] /\ t \in S
  <2>1. CASE list[i] \in S
    <3>1. f[i] = <<list[i]>> /\ list[i] \in Contexts
      BY <1>1, <2>1
    <3>2. <<list[i]>> \in Seq(Contexts) /\ DOMAIN <<list[i]>> = {1}
      BY <3>1
    <3> HIDE DEF f
    <3> QED
      BY <2>1, <3>1, <3>2 DEF Range
  <2>2. CASE list[i] \notin S
    <3>1. f[i] = <<>> /\ <<>> \in Seq(Contexts)
      BY <2>2
    <3>2. Range(<<>>) = {}
      BY DEF Range
    <3> HIDE DEF f
    <3> QED
      BY <2>2, <3>1, <3>2
  <2> QED
    BY <2>1, <2>2
<1>3. InOrder(list, S) = FlattenSeq([i \in 1..Len(list) |-> f[i]])
  <2>1. [i \in 1..Len(list) |-> f[i]] = [i \in DOMAIN list |-> IF list[i] \in S THEN <<list[i]>> ELSE <<>>]
    BY <1>1
  <2> QED
    BY <2>1 DEF InOrder
<1> HIDE DEF f
<1>4. InOrder(list, S) \in Seq(Contexts)
  BY <1>1, <1>2, <1>3, FlattenType
<1>5. \A t : t \in Range(InOrder(list, S)) <=> \E i \in 1..Len(list) : t \in Range(f[i])
  BY <1>1, <1>2, <1>3, FlattenElements
<1>6. \A t : t \in Range(list) <=> \E i \in 1..Len(list) : t = list[i]
  BY <1>1 DEF Range
<1> QED
  BY <1>2, <1>4, <1>5, <1>6

LEMMA HeadIn ==
    ASSUME NEW S, NEW s \in Seq(S)
    PROVE  s # <<>> => Head(s) \in Range(s) /\ Head(s) \in S
<1> SUFFICES ASSUME s # <<>> PROVE Head(s) \in Range(s) /\ Head(s) \in S
  OBVIOUS
<1>1. 1 \in DOMAIN s /\ Head(s) = s[1] /\ s[1] \in S
  OBVIOUS
<1> QED
  BY <1>1 DEF Range

LEMMA EmptyRange == ASSUME NEW S, NEW s \in Seq(S), Range(s) = {} PROVE s = <<>>
  BY HeadIn

LEMMA PreferredIn ==
    ASSUME NEW s \in Seq(Contexts), s # <<>>
    PROVE  Preferred(s) \in Range(s) /\ Preferred(s) \in Contexts /\ (Primary \in Range(s) => Preferred(s) = Primary)
  BY HeadIn, ObjectAssumption DEF Preferred

(* The loops of the handlers see exactly what they look for.               *)
LEMMA LoopsSee ==
    /\ Order \in Seq(Contexts) /\ Range(Order) = Contexts
    /\ Finders \in Seq(Contexts) /\ Range(Finders) = {t \in Contexts : Found(t)}
    /\ Failures \in Seq(Contexts)
    /\ Range(Failures) = {t \in Contexts : probed[t].status \notin {"ok", "notFound"}}
    /\ AnnotatedFinders \in Seq(Contexts)
    /\ Range(AnnotatedFinders) = {t \in Contexts : Found(t) /\ Routes(probed[t].object.wishes)}
<1>1. Order \in Seq(Contexts) /\ Range(Order) = Contexts
  BY ObjectAssumption DEF Contexts, Range
<1> HIDE DEF Contexts
<1> QED
  BY <1>1, InOrderIs DEF Finders, Failures, AnnotatedFinders
------------------------------------------------------------------------------
(* Where the goroutines can stand in each phase of the handler.            *)
SearchesFirst == request.class = "mutation" /\ NeedsExistingObject /\ ~Routes(request.wishes)

Staged ==
    /\ phase \in {"arrived", "dispatched", "elsewhere"} => \A t \in Contexts : stage[t] = "idle"
    /\ phase = "arrived" => request = Unsent
    /\ phase = "probing" =>
         /\ \A t \in Contexts : stage[t] \in {"probe", "done"}
         /\ request.class \in {"namedGet", "podStream"} \/ SearchesFirst
    /\ phase = "sending" =>
         /\ \A t \in Range(selected) : stage[t] \in {"read", "write", "done"}
         /\ \A t \in Contexts \ Range(selected) : stage[t] = "idle"
         /\ selected # <<>> /\ request.class \in {"primary", "mutation"}
    /\ phase = "streaming" => selected # <<>> /\ request.class = "podStream"
    /\ phase \in {"streaming", "done"} => \A t \in Contexts : ~Calling(t)
    /\ phase \notin {"sending", "streaming", "done"} => selected = <<>>

(* A call has had at most one effect, or one still under way, per attempt, *)
(* and only where the request was sent.                                    *)
Counted ==
    \A t \in Contexts :
        /\ applied[t] + late[t] <= Retries + 1
        /\ stage[t] = "write" => applied[t] + late[t] <= attempt[t]
        /\ applied[t] + late[t] > 0 =>
             /\ phase \in {"sending", "done"} /\ request.class = "mutation"
             /\ t \in Range(selected) /\ stage[t] \in {"write", "done"}

(* A response of success to a mutation has been earned.                    *)
Told ==
    \A t \in Contexts : reply[t].status = "ok" =>
        phase \in {"sending", "done"} /\ (request.class = "mutation" => applied[t] > 0)

(* A probe that is over tells what the cluster held.                       *)
ProbesStand ==
    phase = "probing" =>
        \A t \in Contexts : stage[t] = "done" =>
            /\ probed[t].status = "ok" => held[t] # Absent /\ held[t] = probed[t].object
            /\ probed[t].status = "notFound" => held[t] = Absent

(* w is the one routing annotation that the contexts' objects carry.       *)
OnlyWish(w) ==
    /\ Routes(w) /\ \E t \in Contexts : held[t] # Absent /\ held[t].wishes = w
    /\ \A t \in Contexts : held[t] # Absent /\ Routes(held[t].wishes) => held[t].wishes = w

Obeyed ==
    phase \in {"sending", "done"} /\ SearchesFirst /\ selected # <<>> =>
        \A w : OnlyWish(w) => Range(selected) \subseteq Range(Route(w))

CInv ==
    /\ TypeOK /\ Staged /\ Counted /\ Told /\ ProbesStand /\ Obeyed
    /\ AnswerIsTruthful /\ NotFoundMeansNowhere /\ StreamGoesToAnOwner

LEMMA InitCInv == Init => CInv
<1> SUFFICES ASSUME Init PROVE CInv
  OBVIOUS
<1>1. TypeOK
  <2>1. object \in [Contexts -> Object \cup {Absent}] /\ revision \in [Contexts -> Nat] /\ arriving \in ArrivalType
    BY InitRInv, ObjectAssumption DEF RInv, Init
  <2>2. NoResponse \in ResponseType /\ NoResponse.status # "ok"
    BY DEF NoResponse, Response, ResponseType
  <2>3. Unsent \in RequestType
    BY DEF Unsent, RequestType, WishType, Methods
  <2>4. 0 \in 0..Retries /\ 0 \in 0..Retries + 1 /\ <<>> \in Seq(Contexts)
    BY ObjectAssumption
  <2>5. /\ stage \in [Contexts -> {"idle", "probe", "read", "write", "done"}]
        /\ attempt \in [Contexts -> 0..Retries] /\ late \in [Contexts -> 0..Retries + 1]
        /\ applied \in [Contexts -> 0..Retries + 1] /\ held \in [Contexts -> Object \cup {Absent}]
    BY <2>4 DEF Init
  <2>6. probed \in [Contexts -> ResponseType] /\ current \in [Contexts -> ResponseType]
        /\ reply \in [Contexts -> ResponseType]
    BY <2>2 DEF Init
  <2> QED
    BY <2>1, <2>3, <2>4, <2>5, <2>6 DEF Init, TypeOK
<1>2. \A t \in Contexts : applied[t] = 0 /\ late[t] = 0 /\ stage[t] = "idle" /\ reply[t].status = "none"
  BY DEF Init, NoResponse, Response
<1>3. phase = "arrived" /\ request = Unsent /\ selected = <<>>
  BY DEF Init
<1>4. Staged /\ Counted /\ Told /\ ProbesStand /\ Obeyed
  BY <1>2, <1>3, ObjectAssumption DEF Staged, Counted, Told, ProbesStand, Obeyed
<1>5. AnswerIsTruthful /\ NotFoundMeansNowhere /\ StreamGoesToAnOwner
  BY <1>3 DEF AnswerIsTruthful, NotFoundMeansNowhere, StreamGoesToAnOwner
<1> QED
  BY <1>1, <1>4, <1>5 DEF CInv

(* A turn of requestTarget: the call is retried or it is over.             *)
TriedAgain(t) ==
    /\ attempt[t] < Retries
    /\ attempt' = [attempt EXCEPT ![t] = @ + 1]
    /\ UNCHANGED <<stage, probed, current, reply>>

Over(t, response) ==
    /\ attempt' = [attempt EXCEPT ![t] = 0]
    /\ \/ /\ stage[t] = "probe" /\ stage' = [stage EXCEPT ![t] = "done"]
          /\ probed' = [probed EXCEPT ![t] = response] /\ UNCHANGED <<current, reply>>
       \/ /\ stage[t] = "read" /\ stage' = [stage EXCEPT ![t] = "write"]
          /\ current' = [current EXCEPT ![t] = response] /\ UNCHANGED <<probed, reply>>
       \/ /\ stage[t] = "write" \/ (stage[t] = "read" /\ response.status = "error")
          /\ stage' = [stage EXCEPT ![t] = "done"]
          /\ reply' = [reply EXCEPT ![t] = response] /\ UNCHANGED <<probed, current>>

LEMMA ReturnIsOver ==
    ASSUME NEW t \in Contexts, NEW response, Calling(t), Return(t, response)
    PROVE  Over(t, response)
<1>1. CASE stage[t] = "probe"
  BY <1>1, Zenon DEF Return, Over
<1>2. CASE stage[t] = "read" /\ response.status # "error"
  <2>1. stage[t] # "probe"
    BY <1>2
  <2> QED
    BY <1>2, <2>1, Zenon DEF Return, Over
<1>3. CASE stage[t] = "read" /\ response.status = "error"
  <2>1. stage[t] # "probe"
    BY <1>3
  <2> QED
    BY <1>3, <2>1, Zenon DEF Return, Over
<1>4. CASE stage[t] = "write"
  <2>1. stage[t] # "probe" /\ stage[t] # "read"
    BY <1>4
  <2> QED
    BY <1>4, <2>1, Zenon DEF Return, Over
<1> QED
  BY <1>1, <1>2, <1>3, <1>4 DEF Calling

LEMMA SettleIs ==
    ASSUME NEW t \in Contexts, NEW response, Calling(t), Settle(t, response)
    PROVE  TriedAgain(t) \/ Over(t, response)
<1>1. TriedAgain(t) \/ Return(t, response)
  BY Zenon DEF Settle, TriedAgain
<1> QED
  BY <1>1, ReturnIsOver

LEMMA ResponseTyped ==
    ASSUME NEW status \in Statuses, NEW o \in Object \cup {Absent}
    PROVE  /\ Response(status, o) \in ResponseType
           /\ Response(status, o).status = status /\ Response(status, o).object = o
  BY DEF Response, ResponseType

LEMMA WriteStatusTyped ==
    ASSUME NEW t PROVE WriteStatus(t) \in {"ok", "conflict", "notFound"}
<1> HIDE DEF Matches, SentIdentity
<1> QED
  BY DEF WriteStatus

(* What an attempt does, whichever it is.                                  *)
Effect(t, response) ==
    \/ /\ UNCHANGED <<object, revision, late, applied>>
       /\ response.status = "ok" => stage[t] # "write"
    \/ /\ stage[t] = "write" /\ Process(t) /\ late' = late
       /\ response.status = "ok" => WriteStatus(t) = "ok"
    \/ /\ stage[t] = "write" /\ request.class = "mutation"
       /\ late' = [late EXCEPT ![t] = @ + 1] /\ UNCHANGED <<object, revision, applied>>
       /\ response.status = "error"

Noted(t, response) ==
    IF stage[t] = "probe"
      THEN \/ response.status = "error" /\ held' = held
           \/ /\ held' = [held EXCEPT ![t] = object[t]]
              /\ response.status = "ok" => object[t] # Absent /\ response.object = object[t]
              /\ response.status = "notFound" => object[t] = Absent
      ELSE held' = held

LEMMA AttemptIs ==
    ASSUME TypeOK, NEW t \in Contexts, Attempt(t)
    PROVE  /\ Calling(t) /\ UNCHANGED CallKept
           /\ \E response \in ResponseType :
                /\ TriedAgain(t) \/ Over(t, response)
                /\ Effect(t, response) /\ Noted(t, response)
<1> USE DEF Calling
<1>1. Calling(t) /\ UNCHANGED CallKept
  BY DEF Attempt, AttemptFails, AttemptReads, AttemptWrites, AttemptTimesOut, AttemptAbandoned
<1>2. object[t] \in Object \cup {Absent}
  BY DEF TypeOK
<1>3. \A status \in Statuses : \A o \in Object \cup {Absent} :
        /\ Response(status, o) \in ResponseType
        /\ Response(status, o).status = status /\ Response(status, o).object = o
  BY ResponseTyped
<1>4. CASE AttemptFails(t)
  <2>1. PICK status \in {"forbidden", "error", "unavailable"} : Settle(t, Response(status, Absent))
    BY <1>4, Zenon DEF AttemptFails
  <2>2. status \in Statuses /\ status # "ok" /\ status # "notFound"
    BY DEF Statuses
  <2>3. UNCHANGED <<object, revision, late, applied>> /\ Probing(t)
    BY <1>4 DEF AttemptFails, clusterVars
  <2>4. TriedAgain(t) \/ Over(t, Response(status, Absent))
    BY <1>1, <2>1, SettleIs
  <2>5. Effect(t, Response(status, Absent)) /\ Noted(t, Response(status, Absent))
    BY <1>3, <2>2, <2>3 DEF Effect, Noted, Probing
  <2> QED
    BY <1>1, <1>3, <2>2, <2>4, <2>5
<1>5. CASE AttemptReads(t)
  <2>1. PICK response : /\ Settle(t, response)
                        /\ \/ object[t] = Absent /\ response = Response("notFound", Absent)
                           \/ object[t] # Absent /\ response = Response("ok", object[t])
    BY <1>5, Zenon DEF AttemptReads
  <2>2. UNCHANGED <<object, revision, late, applied>> /\ Probing(t) /\ stage[t] \in {"probe", "read"}
    BY <1>5 DEF AttemptReads, clusterVars
  <2>3. TriedAgain(t) \/ Over(t, response)
    BY <1>1, <2>1, SettleIs
  <2>4. response \in ResponseType
    BY <1>2, <1>3, <2>1 DEF Statuses
  <2>5. /\ object[t] = Absent => response.status = "notFound"
        /\ object[t] # Absent => response.status = "ok" /\ response.object = object[t]
    BY <1>2, <1>3, <2>1 DEF Statuses
  <2>6. Effect(t, response) /\ Noted(t, response)
    BY <2>2, <2>5 DEF Effect, Noted, Probing
  <2> QED
    BY <1>1, <2>3, <2>4, <2>6
<1>6. CASE AttemptWrites(t)
  <2>1. PICK status \in {WriteStatus(t), "error"} : Settle(t, Response(status, Absent))
    BY <1>6, Zenon DEF AttemptWrites
  <2>2. status \in Statuses /\ (status = "ok" => WriteStatus(t) = "ok")
    BY <2>1, WriteStatusTyped DEF Statuses
  <2>3. Process(t) /\ late' = late /\ held' = held /\ stage[t] = "write"
    BY <1>6 DEF AttemptWrites
  <2>4. TriedAgain(t) \/ Over(t, Response(status, Absent))
    BY <1>1, <2>1, SettleIs
  <2>5. Response(status, Absent) \in ResponseType /\ Response(status, Absent).status = status
    BY <1>3, <2>2
  <2>6. Effect(t, Response(status, Absent)) /\ Noted(t, Response(status, Absent))
    BY <2>2, <2>3, <2>5 DEF Effect, Noted
  <2> QED
    BY <1>1, <2>4, <2>5, <2>6
<1>7. CASE AttemptTimesOut(t)
  <2>1. Settle(t, Response("error", Absent)) /\ Response("error", Absent) \in ResponseType
        /\ Response("error", Absent).status = "error"
    BY <1>3, <1>7 DEF AttemptTimesOut, Statuses
  <2>2. TriedAgain(t) \/ Over(t, Response("error", Absent))
    BY <1>1, <2>1, SettleIs
  <2>3. Effect(t, Response("error", Absent)) /\ Noted(t, Response("error", Absent))
    BY <1>7, <2>1 DEF AttemptTimesOut, Effect, Noted
  <2> QED
    BY <1>1, <2>1, <2>2, <2>3
<1>8. CASE AttemptAbandoned(t)
  <2>1. Return(t, Response("error", Absent)) /\ Response("error", Absent) \in ResponseType
        /\ Response("error", Absent).status = "error"
    BY <1>3, <1>8 DEF AttemptAbandoned, Statuses
  <2>2. Over(t, Response("error", Absent))
    BY <1>1, <2>1, ReturnIsOver
  <2>3. Effect(t, Response("error", Absent)) /\ Noted(t, Response("error", Absent))
    BY <1>8, <2>1 DEF AttemptAbandoned, Effect, Noted, clusterVars
  <2> QED
    BY <1>1, <2>1, <2>2, <2>3
<1> QED
  BY <1>4, <1>5, <1>6, <1>7, <1>8 DEF Attempt

LEMMA ProcessCounts ==
    ASSUME NEW t, Process(t)
    PROVE  \/ applied' = applied /\ ~(WriteStatus(t) = "ok" /\ request.class = "mutation")
           \/ request.class = "mutation" /\ applied' = [applied EXCEPT ![t] = @ + 1]
  BY Zenon DEF Process

LEMMA CountersAreNumbers ==
    ASSUME TypeOK
    PROVE  \A t \in Contexts : applied[t] \in Nat /\ late[t] \in Nat /\ attempt[t] \in Nat /\ attempt[t] <= Retries
<1>1. Retries \in Nat
  BY ObjectAssumption
<1> QED
  BY <1>1 DEF TypeOK

(* The counters' types follow from their bounds.                           *)
LEMMA CountersTyped ==
    ASSUME NEW a \in [Contexts -> Nat], NEW l \in [Contexts -> Nat],
           \A t \in Contexts : a[t] + l[t] <= Retries + 1
    PROVE  a \in [Contexts -> 0..Retries + 1] /\ l \in [Contexts -> 0..Retries + 1]
<1>1. Retries \in Nat
  BY ObjectAssumption
<1>2. ASSUME NEW t \in Contexts PROVE a[t] \in 0..Retries + 1 /\ l[t] \in 0..Retries + 1
  BY <1>1
<1> QED
  BY <1>2

LEMMA AttemptCInv ==
    ASSUME RInv, RInv', CInv, NEW t \in Contexts, Attempt(t)
    PROVE  CInv'
<1> USE DEF CInv
<1>1. /\ Calling(t) /\ UNCHANGED <<arriving, request, clientGone, phase, selected, answer>>
  BY AttemptIs DEF CallKept
<1>2. PICK response \in ResponseType :
        (TriedAgain(t) \/ Over(t, response)) /\ Effect(t, response) /\ Noted(t, response)
  BY AttemptIs
<1>3. phase \in {"probing", "sending"}
  BY <1>1 DEF Staged, Calling, TypeOK
<1>4. phase = "sending" <=> stage[t] # "probe"
  BY <1>1, <1>3 DEF Staged, Calling
<1>5. \A u \in Contexts : u # t => stage'[u] = stage[u] /\ attempt'[u] = attempt[u] /\ reply'[u] = reply[u]
                                   /\ probed'[u] = probed[u] /\ held'[u] = held[u]
                                   /\ applied'[u] = applied[u] /\ late'[u] = late[u]
  <2>1. \A u \in Contexts : u # t => stage'[u] = stage[u] /\ attempt'[u] = attempt[u] /\ reply'[u] = reply[u]
                                     /\ probed'[u] = probed[u]
    BY <1>2 DEF TypeOK, TriedAgain, Over
  <2>2. \A u \in Contexts : u # t => held'[u] = held[u]
    BY <1>2 DEF TypeOK, Noted
  <2>3. \A u \in Contexts : u # t => applied'[u] = applied[u] /\ late'[u] = late[u]
    BY <1>2, ProcessCounts DEF TypeOK, Effect
  <2> QED
    BY <2>1, <2>2, <2>3
<1>6. /\ applied'[t] \in Nat /\ late'[t] \in Nat
      /\ applied'[t] >= applied[t]
      /\ \/ applied'[t] = applied[t] /\ late'[t] = late[t]
         \/ /\ applied'[t] + late'[t] = applied[t] + late[t] + 1
            /\ stage[t] = "write" /\ request.class = "mutation"
      /\ stage[t] = "write" /\ response.status = "ok" /\ request.class = "mutation" => applied'[t] = applied[t] + 1
  <2>1. applied[t] \in Nat /\ late[t] \in Nat
    BY CountersAreNumbers
  <2>2. CASE UNCHANGED <<object, revision, late, applied>> /\ (response.status = "ok" => stage[t] # "write")
    BY <2>1, <2>2
  <2>3. CASE stage[t] = "write" /\ Process(t) /\ late' = late /\ (response.status = "ok" => WriteStatus(t) = "ok")
    <3>1. CASE applied' = applied /\ ~(WriteStatus(t) = "ok" /\ request.class = "mutation")
      BY <2>1, <2>3, <3>1
    <3>2. CASE request.class = "mutation" /\ applied' = [applied EXCEPT ![t] = @ + 1]
      <4>1. applied'[t] = applied[t] + 1
        BY <3>2 DEF TypeOK
      <4> QED
        BY <2>1, <2>3, <3>2, <4>1
    <3> QED
      BY <2>3, <3>1, <3>2, ProcessCounts
  <2>4. CASE /\ stage[t] = "write" /\ request.class = "mutation"
             /\ late' = [late EXCEPT ![t] = @ + 1] /\ UNCHANGED <<object, revision, applied>>
             /\ response.status = "error"
    <3>1. late'[t] = late[t] + 1
      BY <2>4 DEF TypeOK
    <3> QED
      BY <2>1, <2>4, <3>1
  <2> QED
    BY <1>2, <2>2, <2>3, <2>4 DEF Effect
<1>7. \/ attempt[t] < Retries /\ attempt'[t] = attempt[t] + 1 /\ stage'[t] = stage[t] /\ reply'[t] = reply[t]
         /\ probed'[t] = probed[t]
      \/ stage[t] = "probe" /\ stage'[t] = "done" /\ probed'[t] = response /\ reply'[t] = reply[t]
      \/ stage[t] = "read" /\ stage'[t] = "write" /\ attempt'[t] = 0 /\ reply'[t] = reply[t]
      \/ /\ stage[t] = "write" \/ (stage[t] = "read" /\ response.status = "error")
         /\ stage'[t] = "done" /\ reply'[t] = response
  BY <1>2 DEF TypeOK, TriedAgain, Over
<1>8. Counted'
  <2> SUFFICES ASSUME NEW u \in Contexts
               PROVE  /\ applied'[u] + late'[u] <= Retries + 1
                      /\ stage'[u] = "write" => applied'[u] + late'[u] <= attempt'[u]
                      /\ applied'[u] + late'[u] > 0 =>
                           /\ phase \in {"sending", "done"} /\ request.class = "mutation"
                           /\ u \in Range(selected) /\ stage'[u] \in {"write", "done"}
    BY <1>1 DEF Counted
  <2>1. CASE u # t
    BY <1>5, <2>1 DEF Counted
  <2>2. CASE u = t
    <3>1. /\ applied[t] \in Nat /\ late[t] \in Nat /\ attempt[t] \in Nat /\ attempt[t] <= Retries /\ Retries \in Nat
          /\ applied[t] + late[t] <= Retries + 1
          /\ stage[t] = "write" => applied[t] + late[t] <= attempt[t]
          /\ stage[t] # "write" => applied[t] + late[t] = 0
      BY <1>1, CountersAreNumbers, ObjectAssumption DEF Counted, Calling
    <3>2. stage[t] = "write" => t \in Range(selected) /\ phase = "sending"
      BY <1>1, <1>3, <1>4 DEF Staged, Calling
    <3>3. applied'[t] + late'[t] <= Retries + 1
      BY <1>6, <3>1
    <3>4. stage'[t] = "write" => applied'[t] + late'[t] <= attempt'[t]
      BY <1>6, <1>7, <3>1
    <3>5. applied'[t] + late'[t] > 0 => stage[t] = "write" /\ request.class = "mutation"
      BY <1>6, <3>1 DEF Counted
    <3>6. stage[t] = "write" => stage'[t] \in {"write", "done"}
      BY <1>7
    <3> QED
      BY <2>2, <3>2, <3>3, <3>4, <3>5, <3>6
  <2> QED
    BY <2>1, <2>2
<1>9. TypeOK'
  <2>1. object' \in [Contexts -> Object \cup {Absent}] /\ revision' \in [Contexts -> Nat]
    BY DEF RInv
  <2>2. 0 \in 0..Retries /\ (attempt[t] < Retries => attempt[t] + 1 \in 0..Retries)
    BY ObjectAssumption, CountersAreNumbers
  <2>3. /\ stage' \in [Contexts -> {"idle", "probe", "read", "write", "done"}]
        /\ probed' \in [Contexts -> ResponseType] /\ current' \in [Contexts -> ResponseType]
        /\ reply' \in [Contexts -> ResponseType]
    <3>1. CASE TriedAgain(t)
      BY <3>1 DEF TypeOK, TriedAgain
    <3>2. CASE Over(t, response)
      <4>1. \/ stage' = [stage EXCEPT ![t] = "done"]
            \/ stage' = [stage EXCEPT ![t] = "write"]
        BY <3>2 DEF Over
      <4>2. \/ probed' = probed
            \/ probed' = [probed EXCEPT ![t] = response]
        BY <3>2 DEF Over
      <4>3. \/ current' = current
            \/ current' = [current EXCEPT ![t] = response]
        BY <3>2 DEF Over
      <4>4. \/ reply' = reply
            \/ reply' = [reply EXCEPT ![t] = response]
        BY <3>2 DEF Over
      <4>5. stage' \in [Contexts -> {"idle", "probe", "read", "write", "done"}]
        BY <4>1 DEF TypeOK
      <4>6. /\ probed' \in [Contexts -> ResponseType] /\ current' \in [Contexts -> ResponseType]
            /\ reply' \in [Contexts -> ResponseType]
        <5>1. /\ probed \in [Contexts -> ResponseType] /\ current \in [Contexts -> ResponseType]
              /\ reply \in [Contexts -> ResponseType]
          BY DEF TypeOK
        <5>2. probed' \in [Contexts -> ResponseType]
          BY <4>2, <5>1
        <5>3. current' \in [Contexts -> ResponseType]
          BY <4>3, <5>1
        <5>4. reply' \in [Contexts -> ResponseType]
          BY <4>4, <5>1
        <5> QED
          BY <5>2, <5>3, <5>4
      <4> QED
        BY <4>5, <4>6
    <3> QED
      BY <1>2, <3>1, <3>2
  <2>4. attempt' \in [Contexts -> 0..Retries]
    BY <1>2, <2>2 DEF TypeOK, TriedAgain, Over
  <2>5. held' \in [Contexts -> Object \cup {Absent}]
    BY <1>2 DEF TypeOK, Noted
  <2>6. applied' \in [Contexts -> 0..Retries + 1] /\ late' \in [Contexts -> 0..Retries + 1]
    <3>1. DOMAIN late' = Contexts /\ late' = [u \in Contexts |-> late'[u]]
      BY <1>2 DEF Effect, TypeOK
    <3>2. \A u \in Contexts : late'[u] \in Nat
      BY <1>5, <1>6, CountersAreNumbers
    <3>3. applied' \in [Contexts -> Nat]
      BY DEF RInv
    <3>4. late' \in [Contexts -> Nat]
      BY <3>1, <3>2
    <3>5. \A u \in Contexts : applied'[u] + late'[u] <= Retries + 1
      BY <1>8 DEF Counted
    <3> QED
      BY <3>3, <3>4, <3>5, CountersTyped
  <2> QED
    BY <1>1, <2>1, <2>3, <2>4, <2>5, <2>6 DEF TypeOK
<1>10. Staged'
  <2>1. ASSUME NEW u \in Contexts
        PROVE  /\ phase = "probing" => stage'[u] \in {"probe", "done"}
               /\ phase = "sending" => IF u \in Range(selected) THEN stage'[u] \in {"read", "write", "done"}
                                       ELSE stage'[u] = "idle"
    <3>1. CASE u # t
      BY <1>5, <3>1 DEF Staged
    <3>2. CASE u = t
      BY <1>1, <1>3, <1>4, <1>7, <3>2 DEF Staged, Calling
    <3> QED
      BY <3>1, <3>2
  <2>2. Range(selected) \subseteq Contexts
    BY DEF TypeOK, Range
  <2> QED
    BY <1>1, <1>3, <2>1, <2>2 DEF Staged, SearchesFirst, NeedsExistingObject
<1>11. Told'
  <2> SUFFICES ASSUME NEW u \in Contexts, reply'[u].status = "ok"
               PROVE  phase \in {"sending", "done"} /\ (request.class = "mutation" => applied'[u] > 0)
    BY <1>1 DEF Told
  <2>1. CASE reply'[u] = reply[u]
    BY <1>5, <1>6, <2>1, CountersAreNumbers DEF Told
  <2>2. CASE reply'[u] # reply[u]
    <3>1. u = t /\ stage[t] = "write" /\ response.status = "ok"
      BY <1>5, <1>7, <2>2
    <3> QED
      BY <1>3, <1>4, <1>6, <3>1, CountersAreNumbers
  <2> QED
    BY <2>1, <2>2
<1>12. ProbesStand'
  <2> SUFFICES ASSUME phase = "probing", NEW u \in Contexts, stage'[u] = "done"
               PROVE  /\ probed'[u].status = "ok" => held'[u] # Absent /\ held'[u] = probed'[u].object
                      /\ probed'[u].status = "notFound" => held'[u] = Absent
    BY <1>1 DEF ProbesStand
  <2>1. CASE u # t
    BY <1>5, <2>1 DEF ProbesStand
  <2>2. CASE u = t
    <3>1. stage[t] = "probe" /\ probed'[t] = response
      BY <1>4, <1>7, <2>2
    <3> QED
      BY <1>2, <2>2, <3>1 DEF Noted, TypeOK
  <2> QED
    BY <2>1, <2>2
<1>13. Obeyed'
  <2>1. CASE phase = "probing"
    BY <1>1, <2>1 DEF Obeyed
  <2>2. CASE phase = "sending"
    <3>1. held' = held
      BY <1>2, <1>4, <2>2 DEF Noted
    <3> QED
      BY <1>1, <3>1 DEF Obeyed, OnlyWish, SearchesFirst, NeedsExistingObject
  <2> QED
    BY <1>3, <2>1, <2>2
<1>14. AnswerIsTruthful' /\ NotFoundMeansNowhere' /\ StreamGoesToAnOwner'
  BY <1>1, <1>3 DEF AnswerIsTruthful, NotFoundMeansNowhere, StreamGoesToAnOwner
<1> QED
  BY <1>8, <1>9, <1>10, <1>11, <1>12, <1>13, <1>14

LEMMA AnswerKeeps ==
    ASSUME CInv, UNCHANGED HandlerKept,
           NEW status \in Statuses \cup {"none"}, NEW from \in Contexts \cup {Absent}, Answer(status, from),
           phase \in {"dispatched", "probing", "sending", "streaming"}, \A t \in Contexts : ~Calling(t),
           request.class = "mutation" =>
             /\ status = "ok" => \A t \in Range(selected) : applied[t] > 0
             /\ from = Absent => phase # "sending",
           request.class = "namedGet" =>
             /\ status = "notFound" => \A t \in Contexts : probed[t].status = "notFound"
             /\ status = "ok" => Found(from) /\ (Found(Primary) => from = Primary)
    PROVE  CInv'
<1> USE DEF CInv
<1>1. /\ phase' = "done" /\ answer' = [status |-> status, from |-> from]
      /\ UNCHANGED <<arriving, request, clientGone, object, revision, late, applied, attempt, probed,
                     current, reply, held, stage, selected>>
  BY DEF Answer, HandlerKept, clusterVars
<1>2. TypeOK'
  BY <1>1 DEF TypeOK
<1>3. Staged'
  BY <1>1 DEF Staged, Calling
<1>4. Counted' /\ Told' /\ ProbesStand'
  BY <1>1 DEF Counted, Told, ProbesStand
<1>5. Obeyed'
  <2>1. phase = "sending" \/ selected = <<>> \/ ~SearchesFirst
    BY DEF Staged, SearchesFirst
  <2> QED
    BY <1>1, <2>1 DEF Obeyed, OnlyWish, SearchesFirst, NeedsExistingObject
<1>6. AnswerIsTruthful'
  <2> SUFFICES ASSUME request.class = "mutation"
               PROVE  /\ status = "ok" => \A t \in Range(selected) : applied[t] > 0
                      /\ from = Absent => \A t \in Contexts : applied[t] = 0 /\ late[t] = 0
                      /\ \A t \in Contexts \ Range(selected) : applied[t] = 0 /\ late[t] = 0
    BY <1>1 DEF AnswerIsTruthful
  <2>1. ASSUME NEW t \in Contexts, phase # "sending" \/ t \notin Range(selected)
        PROVE  applied[t] = 0 /\ late[t] = 0
    <3>1. applied[t] \in Nat /\ late[t] \in Nat
      BY CountersAreNumbers
    <3>2. ~(applied[t] + late[t] > 0)
      BY <2>1 DEF Counted
    <3> QED
      BY <3>1, <3>2
  <2> QED
    BY <2>1
<1>7. NotFoundMeansNowhere' /\ StreamGoesToAnOwner'
  BY <1>1 DEF NotFoundMeansNowhere, StreamGoesToAnOwner, Found
<1> QED
  BY <1>2, <1>3, <1>4, <1>5, <1>6, <1>7

LEMMA SendKeeps ==
    ASSUME CInv, UNCHANGED HandlerKept, NEW targets \in Seq(Contexts), targets # <<>>, Send(targets),
           phase \in {"dispatched", "probing"}, request.class \in {"primary", "mutation"},
           SearchesFirst => \A w : OnlyWish(w) => Range(targets) \subseteq Range(Route(w))
    PROVE  CInv'
<1> USE DEF CInv
<1>1. /\ phase' = "sending" /\ selected' = targets
      /\ UNCHANGED <<arriving, request, clientGone, object, revision, late, applied, attempt, probed,
                     current, reply, held, answer>>
      /\ stage' = [t \in Contexts |->
                   CASE t \notin Range(targets) -> "idle"
                     [] t \in Range(targets) /\ request.class = "mutation" /\ request.method = "PUT" -> "read"
                     [] OTHER -> "write"]
  BY DEF Send, HandlerKept, clusterVars
<1>2. \A t \in Contexts : IF t \in Range(targets) THEN stage'[t] \in {"read", "write"} ELSE stage'[t] = "idle"
  BY <1>1
<1>3. stage' \in [Contexts -> {"idle", "probe", "read", "write", "done"}]
  <2>1. stage' = [t \in Contexts |-> stage'[t]]
    BY <1>1
  <2> QED
    BY <1>2, <2>1
<1>4. TypeOK'
  BY <1>1, <1>3 DEF TypeOK
<1>5. Staged'
  <2>1. Range(targets) \subseteq Contexts
    BY DEF Range
  <2> QED
    BY <1>1, <1>2, <2>1 DEF Staged
<1>6. \A t \in Contexts : applied[t] = 0 /\ late[t] = 0
  BY CountersAreNumbers DEF Counted
<1>7. Counted'
  BY <1>1, <1>6, CountersAreNumbers, ObjectAssumption DEF Counted
<1>8. Told' /\ ProbesStand'
  BY <1>1 DEF Told, ProbesStand
<1>9. Obeyed'
  BY <1>1 DEF Obeyed, OnlyWish, SearchesFirst, NeedsExistingObject
<1>10. AnswerIsTruthful' /\ NotFoundMeansNowhere' /\ StreamGoesToAnOwner'
  BY <1>1 DEF AnswerIsTruthful, NotFoundMeansNowhere, StreamGoesToAnOwner
<1> QED
  BY <1>4, <1>5, <1>7, <1>8, <1>9, <1>10

LEMMA ProbeKeeps ==
    ASSUME CInv, UNCHANGED HandlerKept, Probe, phase = "dispatched",
           request.class \in {"namedGet", "podStream"} \/ SearchesFirst
    PROVE  CInv'
<1> USE DEF CInv
<1>1. /\ phase' = "probing" /\ stage' = [t \in Contexts |-> "probe"]
      /\ UNCHANGED <<arriving, request, clientGone, object, revision, late, applied, attempt, probed,
                     current, reply, held, answer, selected>>
  BY DEF Probe, HandlerKept, clusterVars
<1>2. TypeOK'
  BY <1>1 DEF TypeOK
<1>3. Staged'
  BY <1>1 DEF Staged, SearchesFirst, NeedsExistingObject
<1>4. \A t \in Contexts : applied[t] = 0 /\ late[t] = 0 /\ reply[t].status # "ok"
  BY CountersAreNumbers DEF Counted, Told
<1>5. Counted' /\ Told' /\ ProbesStand' /\ Obeyed'
  BY <1>1, <1>4, ObjectAssumption DEF Counted, Told, ProbesStand, Obeyed
<1>6. AnswerIsTruthful' /\ NotFoundMeansNowhere' /\ StreamGoesToAnOwner'
  BY <1>1 DEF AnswerIsTruthful, NotFoundMeansNowhere, StreamGoesToAnOwner
<1> QED
  BY <1>2, <1>3, <1>5, <1>6

LEMMA StreamKeeps ==
    ASSUME CInv, UNCHANGED HandlerKept, NEW t \in Contexts, Stream(t), Probed, request.class = "podStream",
           Found(t) \/ (t = Primary /\ \A u \in Contexts : probed[u].status = "notFound")
    PROVE  CInv'
<1> USE DEF CInv
<1>1. /\ phase' = "streaming" /\ selected' = <<t>>
      /\ UNCHANGED <<arriving, request, clientGone, object, revision, late, applied, attempt, probed,
                     current, reply, held, answer, stage>>
  BY DEF Stream, HandlerKept, clusterVars
<1>2. <<t>> \in Seq(Contexts) /\ <<t>> # <<>> /\ Head(<<t>>) = t
  OBVIOUS
<1>3. TypeOK'
  BY <1>1, <1>2 DEF TypeOK
<1>4. phase = "probing" /\ \A u \in Contexts : ~Calling(u)
  BY DEF Probed, Calling
<1>5. Staged'
  BY <1>1, <1>2, <1>4 DEF Staged, Calling
<1>6. \A u \in Contexts : applied[u] = 0 /\ late[u] = 0 /\ reply[u].status # "ok"
  BY <1>4, CountersAreNumbers DEF Counted, Told
<1>7. Counted' /\ Told' /\ ProbesStand' /\ Obeyed'
  BY <1>1, <1>4, <1>6, CountersAreNumbers, ObjectAssumption DEF Counted, Told, ProbesStand, Obeyed, Calling
<1>8. AnswerIsTruthful' /\ NotFoundMeansNowhere' /\ StreamGoesToAnOwner'
  BY <1>1, <1>2 DEF AnswerIsTruthful, NotFoundMeansNowhere, StreamGoesToAnOwner, Found
<1> QED
  BY <1>3, <1>5, <1>7, <1>8

LEMMA ClassifiedTyped == ASSUME NEW r, NEW helm PROVE ClassifyRequest(r, helm) \in Classes
  BY DEF ClassifyRequest, Classes

LEMMA DispatchCInv ==
    ASSUME RInv, RInv', CInv, Dispatch
    PROVE  CInv'
<1> USE DEF CInv
<1>1. /\ phase = "arrived" /\ arriving' = Absent
      /\ UNCHANGED <<clientGone, object, revision, late, applied, attempt, probed, current, reply, held,
                     stage, selected>>
      /\ \/ phase' = "done" /\ answer' = [status |-> "rejected", from |-> Absent] /\ request' = request
         \/ /\ phase' \in {"elsewhere", "dispatched"} /\ answer' = answer
            /\ request' = [class |-> ClassifyRequest(arriving, arriving.helmMode), method |-> arriving.method,
                           object |-> ParseResourcePath(arriving.path).isObject,
                           untimed |-> Untimed(arriving),
                           json |-> arriving.json, wishes |-> arriving.wishes,
                           identity |-> arriving.identity]
  BY DEF Dispatch, Answer, clusterVars
<1>2. arriving \in ArrivalType
  BY <1>1, ObjectAssumption DEF RInv
<1>3. ParseResourcePath(arriving.path).isObject \in BOOLEAN /\ Untimed(arriving) \in SUBSET Calls
  BY DEF ParseResourcePath, Untimed
<1>4. request' \in RequestType
  <2> DEFINE paths == {p \in Seq(STRING) : p # <<>> => p[Len(p)] # ""}
  <2>1. arriving \in [authorized : BOOLEAN, readOnly : BOOLEAN, helmMode : BOOLEAN, timeout : BOOLEAN,
                      method : Methods, path : paths,
                      watch : BOOLEAN, helmOwner : BOOLEAN,
                      json : BOOLEAN, wishes : WishType, identity : Identity \cup {Absent}]
    BY <1>2 DEF ArrivalType
  <2> HIDE DEF paths
  <2> QED
    BY <1>1, <1>3, <2>1, ClassifiedTyped DEF TypeOK, RequestType
<1>5. TypeOK'
  BY <1>1, <1>4 DEF TypeOK, Statuses
<1>6. Staged'
  BY <1>1 DEF Staged, Calling
<1>7. \A t \in Contexts : applied[t] = 0 /\ late[t] = 0 /\ stage[t] = "idle" /\ reply[t].status # "ok"
  BY <1>1, CountersAreNumbers DEF Counted, Told, Staged
<1>8. Counted' /\ Told' /\ ProbesStand'
  BY <1>1, <1>7, ObjectAssumption DEF Counted, Told, ProbesStand
<1>9. Obeyed'
  BY <1>1 DEF Obeyed, Staged
<1>10. request' = request => request'.class = "unsent"
  BY <1>1 DEF Staged, Unsent
<1>11. AnswerIsTruthful' /\ NotFoundMeansNowhere' /\ StreamGoesToAnOwner'
  BY <1>1, <1>10 DEF AnswerIsTruthful, NotFoundMeansNowhere, StreamGoesToAnOwner
<1> QED
  BY <1>5, <1>6, <1>8, <1>9, <1>11

(* A handler whose goroutines are not at work may answer.                  *)
LEMMA RouteTyped ==
    ASSUME NEW w \in WishType, Routes(w), ~Misrouted(w)
    PROVE  Route(w) \in Seq(Contexts) /\ Route(w) # <<>>
<1>1. CASE w.list # <<>>
  <2>1. w.list \in Seq(Names) /\ Range(w.list) \subseteq Contexts
    BY DEF WishType, Misrouted
  <2>2. Len(w.list) \in Nat /\ DOMAIN w.list = 1..Len(w.list)
        /\ w.list = [i \in 1..Len(w.list) |-> w.list[i]]
    BY <2>1
  <2>3. \A i \in 1..Len(w.list) : w.list[i] \in Contexts
    BY <2>1, <2>2 DEF Range
  <2>4. w.list \in Seq(Contexts)
    BY <2>2, <2>3
  <2> QED
    BY <1>1, <2>4 DEF Route
<1>2. CASE w.list = <<>>
  BY <1>2, ObjectAssumption DEF Route
<1> QED
  BY <1>1, <1>2

LEMMA SendAsWishedKeeps ==
    ASSUME CInv, UNCHANGED HandlerKept, NEW w \in WishType, Routes(w), SendAsWished(w),
           phase \in {"dispatched", "probing"}, request.class = "mutation", \A t \in Contexts : ~Calling(t),
           SearchesFirst => \A v : OnlyWish(v) => v = w
    PROVE  CInv'
<1>1. CASE Misrouted(w)
  <2>1. Answer("rejected", Absent)
    BY <1>1 DEF SendAsWished
  <2> QED
    BY <2>1, AnswerKeeps DEF Statuses
<1>2. CASE ~Misrouted(w)
  <2>1. Send(Route(w))
    BY <1>2 DEF SendAsWished
  <2>2. Route(w) \in Seq(Contexts) /\ Route(w) # <<>>
    BY <1>2, RouteTyped
  <2>3. SearchesFirst => \A v : OnlyWish(v) => Range(Route(w)) \subseteq Range(Route(v))
    OBVIOUS
  <2> QED
    BY <2>1, <2>2, <2>3, SendKeeps
<1> QED
  BY <1>1, <1>2

LEMMA ReceiveCInv ==
    ASSUME CInv, ReceiveSingle \/ ReceiveLookup \/ ReceiveMutation \/ RejectBody
    PROVE  CInv'
<1>1. phase = "dispatched" /\ UNCHANGED HandlerKept
  BY DEF ReceiveSingle, ReceiveLookup, ReceiveMutation, RejectBody
<1>2. \A t \in Contexts : ~Calling(t)
  BY <1>1 DEF CInv, Staged, Calling
<1>3. CASE ReceiveSingle
  <2>1. <<Primary>> \in Seq(Contexts) /\ <<Primary>> # <<>>
    BY ObjectAssumption
  <2>2. Send(<<Primary>>) /\ request.class = "primary"
    BY <1>3 DEF ReceiveSingle
  <2>3. ~SearchesFirst
    BY <2>2 DEF SearchesFirst
  <2> QED
    BY <1>1, <2>1, <2>2, <2>3, SendKeeps
<1>4. CASE ReceiveLookup
  BY <1>1, <1>4, ProbeKeeps DEF ReceiveLookup
<1>5. CASE ReceiveMutation
  <2>1. request.class = "mutation" /\ request.wishes \in WishType
    BY <1>5 DEF ReceiveMutation, CInv, TypeOK, RequestType
  <2>2. CASE Routes(request.wishes)
    <3>1. SendAsWished(request.wishes)
      BY <1>5, <2>2 DEF ReceiveMutation
    <3>2. ~SearchesFirst
      BY <2>2 DEF SearchesFirst
    <3> QED
      BY <1>1, <1>2, <2>1, <2>2, <3>1, <3>2, SendAsWishedKeeps
  <2>3. CASE ~Routes(request.wishes) /\ NeedsExistingObject
    <3>1. Probe
      BY <1>5, <2>3 DEF ReceiveMutation
    <3>2. SearchesFirst
      BY <2>1, <2>3 DEF SearchesFirst
    <3> QED
      BY <1>1, <3>1, <3>2, ProbeKeeps
  <2>4. CASE ~Routes(request.wishes) /\ ~NeedsExistingObject
    <3>1. Send(Order)
      BY <1>5, <2>4 DEF ReceiveMutation
    <3>2. ~SearchesFirst
      BY <2>4 DEF SearchesFirst
    <3>3. Order \in Seq(Contexts) /\ Order # <<>>
      BY ObjectAssumption
    <3> QED
      BY <1>1, <2>1, <3>1, <3>2, <3>3, SendKeeps
  <2> QED
    BY <2>2, <2>3, <2>4
<1>6. CASE RejectBody
  <2>1. Answer("rejected", Absent) /\ request.class = "mutation"
    BY <1>6 DEF RejectBody
  <2> QED
    BY <1>1, <1>2, <2>1, AnswerKeeps DEF Statuses
<1> QED
  BY <1>3, <1>4, <1>5, <1>6

(* What a handler knows when every probe is over.                          *)
LEMMA ProbesTell ==
    ASSUME CInv, Probed
    PROVE  /\ phase = "probing" /\ \A t \in Contexts : ~Calling(t)
           /\ \A t \in Contexts :
                /\ probed[t].status \in Statuses \cup {"none"}
                /\ Found(t) => held[t] # Absent /\ held[t] = probed[t].object
                /\ probed[t].status = "notFound" => held[t] = Absent
<1>1. phase = "probing" /\ \A t \in Contexts : stage[t] = "done"
  BY DEF Probed
<1>2. \A t \in Contexts : probed[t] \in ResponseType
  BY DEF CInv, TypeOK
<1>3. \A t \in Contexts : probed[t].status \in Statuses \cup {"none"}
  BY <1>2 DEF ResponseType
<1> QED
  BY <1>1, <1>3 DEF CInv, ProbesStand, Found, Calling

LEMMA NamedGetCInv ==
    ASSUME CInv, NamedGetAnswered
    PROVE  CInv'
<1>1. Probed /\ request.class = "namedGet" /\ UNCHANGED HandlerKept
  BY DEF NamedGetAnswered
<1>2. phase = "probing" /\ \A t \in Contexts : ~Calling(t)
  BY <1>1, ProbesTell
<1>3. CASE Finders # <<>>
  <2>1. Answer("ok", Preferred(Finders))
    BY <1>3, Zenon DEF NamedGetAnswered
  <2>2. Found(Preferred(Finders)) /\ Preferred(Finders) \in Contexts
        /\ (Found(Primary) => Preferred(Finders) = Primary)
    BY <1>3, LoopsSee, PreferredIn, ObjectAssumption
  <2> QED
    BY <1>1, <1>2, <2>1, <2>2, AnswerKeeps DEF Statuses
<1>4. CASE Finders = <<>> /\ Failures # <<>>
  <2>1. Answer(probed[Head(Failures)].status, Head(Failures))
    <3>1. ~(Finders # <<>>)
      BY <1>4
    <3> QED
      BY <1>4, <3>1, Zenon DEF NamedGetAnswered
  <2>2. Head(Failures) \in Contexts /\ probed[Head(Failures)].status \notin {"ok", "notFound"}
    BY <1>4, LoopsSee, HeadIn
  <2>3. probed[Head(Failures)].status \in Statuses \cup {"none"}
    BY <1>1, <2>2, ProbesTell
  <2> QED
    BY <1>1, <1>2, <2>1, <2>2, <2>3, AnswerKeeps
<1>5. CASE Finders = <<>> /\ Failures = <<>>
  <2>1. Answer("notFound", Head(Order))
    <3>1. ~(Finders # <<>>) /\ ~(Finders = <<>> /\ Failures # <<>>)
      BY <1>5
    <3> QED
      BY <3>1, Zenon DEF NamedGetAnswered
  <2>2. \A t \in Contexts : t \notin Range(Finders) /\ t \notin Range(Failures)
    <3>1. Range(<<>>) = {}
      BY DEF Range
    <3> QED
      BY <1>5, <3>1
  <2>3. \A t \in Contexts : probed[t].status = "notFound"
    BY <2>2, LoopsSee DEF Found
  <2>4. Head(Order) \in Contexts
    BY HeadIn, ObjectAssumption
  <2> QED
    BY <1>1, <1>2, <2>1, <2>3, <2>4, AnswerKeeps DEF Statuses
<1> QED
  BY <1>3, <1>4, <1>5

LEMMA PodStreamCInv ==
    ASSUME CInv, PodStreamChosen
    PROVE  CInv'
<1>1. Probed /\ request.class = "podStream" /\ UNCHANGED HandlerKept
  BY DEF PodStreamChosen
<1>2. phase = "probing" /\ \A t \in Contexts : ~Calling(t)
  BY <1>1, ProbesTell
<1>3. CASE Finders # <<>>
  <2>1. Stream(Preferred(Finders))
    BY <1>3, Zenon DEF PodStreamChosen
  <2>2. Found(Preferred(Finders)) /\ Preferred(Finders) \in Contexts
    BY <1>3, LoopsSee, PreferredIn
  <2> QED
    BY <1>1, <2>1, <2>2, StreamKeeps
<1>4. CASE Finders = <<>> /\ Failures # <<>>
  <2>1. Answer(probed[Head(Failures)].status, Head(Failures))
    <3>1. ~(Finders # <<>>)
      BY <1>4
    <3> QED
      BY <1>4, <3>1, Zenon DEF PodStreamChosen
  <2>2. Head(Failures) \in Contexts
    BY <1>4, LoopsSee, HeadIn
  <2>3. probed[Head(Failures)].status \in Statuses \cup {"none"}
    BY <1>1, <2>2, ProbesTell
  <2> QED
    BY <1>1, <1>2, <2>1, <2>2, <2>3, AnswerKeeps
<1>5. CASE Finders = <<>> /\ Failures = <<>>
  <2>1. Stream(Primary)
    <3>1. ~(Finders # <<>>) /\ ~(Finders = <<>> /\ Failures # <<>>)
      BY <1>5
    <3> QED
      BY <3>1, Zenon DEF PodStreamChosen
  <2>2. \A t \in Contexts : t \notin Range(Finders) /\ t \notin Range(Failures)
    <3>1. Range(<<>>) = {}
      BY DEF Range
    <3> QED
      BY <1>5, <3>1
  <2>3. \A t \in Contexts : probed[t].status = "notFound"
    BY <2>2, LoopsSee DEF Found
  <2> QED
    BY <1>1, <2>1, <2>3, StreamKeeps, ObjectAssumption
<1> QED
  BY <1>3, <1>4, <1>5

(* The first annotated object decides only for itself: where all agree, it *)
(* decides for all; where none was seen and no probe failed, there is none.*)
LEMMA MutationCInv ==
    ASSUME CInv, MutationChosen
    PROVE  CInv'
<1>1. Probed /\ request.class = "mutation" /\ UNCHANGED HandlerKept
  BY DEF MutationChosen
<1>2. phase = "probing" /\ \A t \in Contexts : ~Calling(t)
  BY <1>1, ProbesTell
<1>3. CASE AnnotatedFinders # <<>>
  <2> DEFINE h == Head(AnnotatedFinders)
  <2>1. SendAsWished(probed[h].object.wishes)
    BY <1>3, Zenon DEF MutationChosen
  <2>2. h \in Contexts /\ Found(h) /\ Routes(probed[h].object.wishes)
    BY <1>3, LoopsSee, HeadIn
  <2> HIDE DEF h
  <2>3. held[h] # Absent /\ held[h] = probed[h].object
    BY <1>1, <2>2, ProbesTell
  <2>4. held[h] \in Object
    BY <2>2, <2>3 DEF CInv, TypeOK
  <2>5. probed[h].object.wishes \in WishType
    BY <2>3, <2>4 DEF Object
  <2>6. \A v : OnlyWish(v) => v = probed[h].object.wishes
    BY <2>2, <2>3 DEF OnlyWish
  <2> QED
    BY <1>1, <1>2, <2>1, <2>2, <2>5, <2>6, SendAsWishedKeeps
<1>4. CASE AnnotatedFinders = <<>> /\ Failures # <<>>
  <2>1. Answer("rejected", Absent)
    <3>1. ~(AnnotatedFinders # <<>>)
      BY <1>4
    <3> QED
      BY <1>4, <3>1, Zenon DEF MutationChosen
  <2> QED
    BY <1>1, <1>2, <2>1, AnswerKeeps DEF Statuses
<1>5. CASE AnnotatedFinders = <<>> /\ Failures = <<>>
  <2>1. Send(IF Finders # <<>> THEN Finders ELSE Order)
    <3>1. ~(AnnotatedFinders # <<>>) /\ ~(AnnotatedFinders = <<>> /\ Failures # <<>>)
      BY <1>5
    <3> QED
      BY <3>1, Zenon DEF MutationChosen
  <2>2. \A t \in Contexts : t \notin Range(AnnotatedFinders) /\ t \notin Range(Failures)
    <3>1. Range(<<>>) = {}
      BY DEF Range
    <3> QED
      BY <1>5, <3>1
  <2>3. \A t \in Contexts : held[t] # Absent => ~Routes(held[t].wishes)
    <3> SUFFICES ASSUME NEW t \in Contexts, held[t] # Absent PROVE ~Routes(held[t].wishes)
      OBVIOUS
    <3>1. probed[t].status \in {"ok", "notFound"}
      BY <2>2, LoopsSee
    <3>2. Found(t) /\ held[t] = probed[t].object
      BY <1>1, <3>1, ProbesTell DEF Found
    <3> QED
      BY <2>2, <3>2, LoopsSee
  <2>4. \A v : ~OnlyWish(v)
    BY <2>3 DEF OnlyWish
  <2>5. Finders \in Seq(Contexts) /\ Order \in Seq(Contexts) /\ Order # <<>>
    BY LoopsSee, ObjectAssumption
  <2>6. CASE Finders # <<>>
    BY <1>1, <1>2, <2>1, <2>4, <2>5, <2>6, SendKeeps
  <2>7. CASE Finders = <<>>
    BY <1>1, <1>2, <2>1, <2>4, <2>5, <2>7, SendKeeps
  <2> QED
    BY <2>6, <2>7
<1> QED
  BY <1>3, <1>4, <1>5

LEMMA RespondCInv ==
    ASSUME CInv, Respond \/ StreamEnds
    PROVE  CInv'
<1>1. selected \in Seq(Contexts) /\ UNCHANGED HandlerKept
  BY DEF CInv, TypeOK, Respond, StreamEnds
<1>2. CASE Respond
  <2> DEFINE failed == InOrder(selected, {t \in Contexts : reply[t].status # "ok"})
  <2>1. phase = "sending" /\ \A t \in Range(selected) : stage[t] = "done"
    BY <1>2 DEF Respond
  <2>2. selected # <<>> /\ request.class \in {"primary", "mutation"} /\ \A t \in Contexts : ~Calling(t)
    BY <2>1 DEF CInv, Staged, Calling
  <2>3. /\ failed \in Seq(Contexts)
        /\ \A t : t \in Range(failed) <=> t \in Range(selected) /\ t \in Contexts /\ reply[t].status # "ok"
    BY <1>1, InOrderIs
  <2>4. IF failed # <<>> THEN Answer(reply[Head(failed)].status, Head(failed))
                         ELSE Answer("ok", Preferred(selected))
    BY <1>2, Zenon DEF Respond
  <2>5. \A t \in Contexts : reply[t].status \in Statuses \cup {"none"}
    <3>1. \A t \in Contexts : reply[t] \in ResponseType
      BY DEF CInv, TypeOK
    <3> QED
      BY <3>1 DEF ResponseType
  <2> HIDE DEF failed
  <2>6. CASE failed # <<>>
    <3>1. Head(failed) \in Contexts /\ reply[Head(failed)].status # "ok"
      BY <2>3, <2>6, HeadIn
    <3>2. Answer(reply[Head(failed)].status, Head(failed))
      BY <2>4, <2>6
    <3>3. Head(failed) # Absent
      BY <3>1, ObjectAssumption
    <3> QED
      BY <1>1, <2>1, <2>2, <2>5, <3>1, <3>2, <3>3, AnswerKeeps
  <2>7. CASE failed = <<>>
    <3>1. Answer("ok", Preferred(selected)) /\ Preferred(selected) \in Contexts
      BY <1>1, <2>2, <2>4, <2>7, PreferredIn
    <3>2. \A t \in Range(selected) : t \in Contexts /\ reply[t].status = "ok"
      <4>1. Range(<<>>) = {} /\ Range(selected) \subseteq Contexts
        BY <1>1 DEF Range
      <4> QED
        BY <2>3, <2>7, <4>1
    <3>3. request.class = "mutation" => \A t \in Range(selected) : applied[t] > 0
      BY <3>2 DEF CInv, Told
    <3>4. Preferred(selected) # Absent
      BY <3>1, ObjectAssumption
    <3> QED
      BY <1>1, <2>1, <2>2, <3>1, <3>3, <3>4, AnswerKeeps DEF Statuses
  <2> QED
    BY <2>6, <2>7
<1>3. CASE StreamEnds
  <2>1. PICK status \in {"ok", "notFound", "error"} : Answer(status, Head(selected))
    BY <1>3 DEF StreamEnds
  <2>2. phase = "streaming"
    BY <1>3 DEF StreamEnds
  <2>3. selected # <<>> /\ request.class = "podStream" /\ \A t \in Contexts : ~Calling(t)
    BY <2>2 DEF CInv, Staged
  <2>4. Head(selected) \in Contexts /\ status \in Statuses
    BY <1>1, <2>3, HeadIn DEF Statuses
  <2> QED
    BY <1>1, <2>1, <2>2, <2>3, <2>4, AnswerKeeps
<1> QED
  BY <1>2, <1>3

LEMMA LateWriteCInv ==
    ASSUME RInv', CInv, NEW t \in Contexts, LateWrite(t)
    PROVE  CInv'
<1> USE DEF CInv
<1>1. /\ late[t] > 0 /\ late' = [late EXCEPT ![t] = @ - 1] /\ Process(t)
      /\ UNCHANGED <<arriving, request, clientGone, phase, stage, attempt, probed, current, reply, held,
                     selected, answer>>
  BY DEF LateWrite, callVars
<1>2. \A u \in Contexts : applied[u] \in Nat /\ late[u] \in Nat
  BY CountersAreNumbers
<1>3. /\ applied'[t] \in {applied[t], applied[t] + 1} /\ late'[t] = late[t] - 1
      /\ \A u \in Contexts : u # t => applied'[u] = applied[u] /\ late'[u] = late[u]
  BY <1>1, ProcessCounts DEF TypeOK
<1>4. /\ applied[t] + late[t] > 0
      /\ applied'[t] + late'[t] <= applied[t] + late[t]
      /\ applied'[t] >= applied[t] /\ applied'[t] \in Nat /\ late'[t] \in Nat
  BY <1>1, <1>2, <1>3
<1>5. phase \in {"sending", "done"} /\ request.class = "mutation" /\ t \in Range(selected)
  BY <1>4 DEF Counted
<1>6. Counted'
  <2> SUFFICES ASSUME NEW u \in Contexts
               PROVE  /\ applied'[u] + late'[u] <= Retries + 1
                      /\ stage[u] = "write" => applied'[u] + late'[u] <= attempt[u]
                      /\ applied'[u] + late'[u] > 0 =>
                           /\ phase \in {"sending", "done"} /\ request.class = "mutation"
                           /\ u \in Range(selected) /\ stage[u] \in {"write", "done"}
    BY <1>1 DEF Counted
  <2>1. CASE u # t
    BY <1>3, <2>1 DEF Counted
  <2>2. CASE u = t
    <3>1. attempt[t] \in Nat /\ Retries \in Nat
      BY CountersAreNumbers, ObjectAssumption
    <3>2. applied[t] + late[t] <= Retries + 1 /\ (stage[t] = "write" => applied[t] + late[t] <= attempt[t])
          /\ stage[t] \in {"write", "done"}
      BY <1>4 DEF Counted
    <3> QED
      BY <1>2, <1>4, <1>5, <2>2, <3>1, <3>2
  <2> QED
    BY <2>1, <2>2
<1>7. TypeOK'
  <2>1. object' \in [Contexts -> Object \cup {Absent}] /\ revision' \in [Contexts -> Nat]
        /\ applied' \in [Contexts -> Nat]
    BY DEF RInv
  <2>2. late' \in [Contexts -> Nat]
    <3>1. late' = [u \in Contexts |-> late'[u]]
      BY <1>1 DEF TypeOK
    <3> QED
      BY <1>2, <1>3, <1>4, <3>1
  <2>3. \A u \in Contexts : applied'[u] + late'[u] <= Retries + 1
    BY <1>6 DEF Counted
  <2>4. applied' \in [Contexts -> 0..Retries + 1] /\ late' \in [Contexts -> 0..Retries + 1]
    BY <2>1, <2>2, <2>3, CountersTyped
  <2> QED
    BY <1>1, <2>1, <2>4 DEF TypeOK
<1>8. Staged'
  BY <1>1 DEF Staged, Calling, SearchesFirst, NeedsExistingObject
<1>9. Told'
  BY <1>1, <1>2, <1>3, <1>4 DEF Told
<1>10. ProbesStand' /\ Obeyed'
  BY <1>1 DEF ProbesStand, Obeyed, OnlyWish, SearchesFirst, NeedsExistingObject
<1>11. AnswerIsTruthful'
  <2> SUFFICES ASSUME phase = "done", request.class = "mutation"
               PROVE  /\ answer.status = "ok" => \A u \in Range(selected) : applied'[u] > 0
                      /\ answer.from = Absent => \A u \in Contexts : applied'[u] = 0 /\ late'[u] = 0
                      /\ \A u \in Contexts \ Range(selected) : applied'[u] = 0 /\ late'[u] = 0
    BY <1>1 DEF AnswerIsTruthful
  <2>1. answer.from # Absent
    BY <1>1 DEF AnswerIsTruthful
  <2>2. answer.status = "ok" => \A u \in Range(selected) : u \in Contexts /\ applied[u] > 0
    BY DEF AnswerIsTruthful, TypeOK, Range
  <2>3. \A u \in Contexts : applied[u] > 0 => applied'[u] > 0
    BY <1>2, <1>3, <1>4
  <2>4. \A u \in Contexts \ Range(selected) : u # t /\ applied[u] = 0 /\ late[u] = 0
    BY <1>5 DEF AnswerIsTruthful
  <2> QED
    BY <1>3, <2>1, <2>2, <2>3, <2>4
<1>12. NotFoundMeansNowhere' /\ StreamGoesToAnOwner'
  BY <1>1 DEF NotFoundMeansNowhere, StreamGoesToAnOwner, Found
<1> QED
  BY <1>6, <1>7, <1>8, <1>9, <1>10, <1>11, <1>12

(* Of the cluster's objects the invariant says no more than their types.   *)
LEMMA OthersCInv ==
    ASSUME RInv', CInv, clientGone' \in BOOLEAN,
           UNCHANGED <<arriving, request, late, applied, phase, callVars, selected, answer>>
    PROVE  CInv'
<1> USE DEF CInv
<1>1. UNCHANGED <<arriving, request, late, applied, phase, stage, attempt, probed, current, reply, held,
                  selected, answer>>
  BY DEF callVars
<1>2. TypeOK'
  BY <1>1 DEF TypeOK, RInv
<1>3. Staged' /\ Counted' /\ Told'
  BY <1>1 DEF Staged, Counted, Told, Calling, SearchesFirst, NeedsExistingObject
<1>4. ProbesStand' /\ Obeyed'
  BY <1>1 DEF ProbesStand, Obeyed, OnlyWish, SearchesFirst, NeedsExistingObject
<1>5. AnswerIsTruthful' /\ NotFoundMeansNowhere' /\ StreamGoesToAnOwner'
  BY <1>1 DEF AnswerIsTruthful, NotFoundMeansNowhere, StreamGoesToAnOwner, Found
<1> QED
  BY <1>2, <1>3, <1>4, <1>5

LEMMA StepCInv == RInv /\ CInv /\ [Next]_vars => CInv'
<1> SUFFICES ASSUME RInv, CInv, [Next]_vars PROVE CInv'
  OBVIOUS
<1>1. RInv'
  BY StepRInv
<1>2. CASE HandlerStep \/ StreamEnds
  <2>1. CASE Dispatch
    BY <1>1, <2>1, DispatchCInv
  <2>2. CASE ReceiveSingle \/ ReceiveLookup \/ ReceiveMutation \/ RejectBody
    BY <2>2, ReceiveCInv
  <2>3. CASE NamedGetAnswered \/ PodStreamChosen \/ MutationChosen
    BY <2>3, NamedGetCInv, PodStreamCInv, MutationCInv
  <2>4. CASE Respond \/ StreamEnds
    BY <2>4, RespondCInv
  <2> QED
    BY <1>2, <2>1, <2>2, <2>3, <2>4 DEF HandlerStep, Proceed, ReadBody
<1>3. ASSUME NEW t \in Contexts, Attempt(t) PROVE CInv'
  BY <1>1, <1>3, AttemptCInv
<1>4. ASSUME NEW t \in Contexts, LateWrite(t) PROVE CInv'
  BY <1>1, <1>4, LateWriteCInv
<1>5. clientGone \in BOOLEAN
  BY DEF CInv, TypeOK
<1>6. ASSUME NEW t \in Contexts, OtherClient(t) PROVE CInv'
  <2>1. UNCHANGED <<arriving, request, late, applied, phase, callVars, selected, answer>> /\ clientGone' = clientGone
    BY <1>6 DEF OtherClient
  <2> QED
    BY <1>1, <1>5, <2>1, OthersCInv
<1>7. CASE ClientLeaves \/ UNCHANGED vars
  <2>1. UNCHANGED <<arriving, request, late, applied, phase, callVars, selected, answer>>
        /\ clientGone' \in BOOLEAN
    BY <1>5, <1>7 DEF ClientLeaves, vars, clusterVars
  <2> QED
    BY <1>1, <2>1, OthersCInv
<1> QED
  BY <1>2, <1>3, <1>4, <1>6, <1>7 DEF Next

THEOREM RequestsStayInvariant == Spec => [](RInv /\ CInv)
  BY InitRInv, InitCInv, StepRInv, StepCInv, PTL DEF Spec
------------------------------------------------------------------------------
(* proxy.go, handlers.go, transport.go -- the state of a request keeps its *)
(* type.  That no call has more than one effect or one write under way per *)
(* attempt, and that no goroutine writes for a handler that has answered,  *)
(* is what bounds the two counters.                                        *)
THEOREM TypeCorrect == Spec => []TypeOK
  BY RequestsStayInvariant, PTL DEF CInv

(* handlers.go:114-127 -- a client told that its mutation succeeded finds  *)
(* it done in every selected context, one told of a local rejection finds  *)
(* it done, or under way, nowhere; no other context is ever written,       *)
(* whatever fails, is retried, or arrives late.                            *)
THEOREM AnswerTruthful == Spec => []AnswerIsTruthful
  BY RequestsStayInvariant, PTL DEF CInv

(* ROUTING.md:127-132 -- a named read answers "not found" only when every  *)
(* context said so, and prefers the primary's object.                      *)
THEOREM NotFoundNowhere == Spec => []NotFoundMeansNowhere
  BY RequestsStayInvariant, PTL DEF CInv

(* ROUTING.md:138-143 -- a Pod connection goes to one context that has the *)
(* Pod, or to the primary when every context lacks it.                     *)
THEOREM StreamToOwner == Spec => []StreamGoesToAnOwner
  BY RequestsStayInvariant, PTL DEF CInv

(* handlers.go:164-182, 224-251 -- where every context that holds an       *)
(* annotated object wishes for the same targets, an unannotated mutation   *)
(* takes effect in no other context, whichever probes failed.              *)
THEOREM AnnotationsObeyed == Spec => []AnnotationsAreObeyed
<1>1. CInv => AnnotationsAreObeyed
  <2> DEFINE wishes == {held[t].wishes : t \in {u \in Contexts : held[u] # Absent}}
             routed == {w \in wishes : Routes(w)}
  <2> SUFFICES ASSUME CInv, ~Routes(request.wishes), NeedsExistingObject,
                      NEW w \in routed, routed = {w}, NEW t \in Contexts, applied[t] > 0
               PROVE  t \in Range(Route(w))
    BY DEF AnnotationsAreObeyed
  <2>1. OnlyWish(w)
    BY DEF OnlyWish
  <2>2. applied[t] + late[t] > 0
    BY CountersAreNumbers DEF CInv
  <2>3. phase \in {"sending", "done"} /\ request.class = "mutation" /\ t \in Range(selected)
    BY <2>2 DEF CInv, Counted
  <2>4. selected # <<>>
    <3>1. Range(<<>>) = {}
      BY DEF Range
    <3> QED
      BY <2>3, <3>1
  <2> QED
    BY <2>1, <2>3, <2>4 DEF CInv, Obeyed, SearchesFirst
<1> QED
  BY <1>1, RequestsStayInvariant, PTL
------------------------------------------------------------------------------
(* Which paths have the shapes of the document: a shape is a few segments  *)
(* behind one another, and a path fits it part by part.                    *)
Words == {"api", "apis", "group", "version", "namespaces", "name", "resource", "subresource"}
FitsFrom(path, k, shape) == \A i \in 1..Len(shape) : shape[i] \in Placeholders \/ path[k + i] = shape[i]

LEMMA FitsIs ==
    ASSUME NEW path \in Seq(STRING), NEW shape \in Seq(Words)
    PROVE  Fits(path, shape) <=> Len(path) = Len(shape) /\ FitsFrom(path, 0, shape)
<1>1. DOMAIN shape = 1..Len(shape) /\ \A i \in 1..Len(shape) : 0 + i = i
  OBVIOUS
<1> QED
  BY <1>1 DEF Fits, FitsFrom

LEMMA FitsJoined ==
    ASSUME NEW path \in Seq(STRING), NEW k \in Nat, NEW r \in Seq(Words), NEW s \in Seq(Words)
    PROVE  /\ r \o s \in Seq(Words) /\ Len(r \o s) = Len(r) + Len(s)
           /\ FitsFrom(path, k, r \o s) <=> FitsFrom(path, k, r) /\ FitsFrom(path, k + Len(r), s)
<1> DEFINE q == r \o s
<1>1. /\ Len(r) \in Nat /\ Len(s) \in Nat /\ q \in Seq(Words) /\ Len(q) = Len(r) + Len(s)
      /\ \A i \in 1..Len(r) + Len(s) : q[i] = IF i <= Len(r) THEN r[i] ELSE s[i - Len(r)]
  OBVIOUS
<1> HIDE DEF q
<1>2. ASSUME FitsFrom(path, k, q) PROVE FitsFrom(path, k, r) /\ FitsFrom(path, k + Len(r), s)
  <2>1. ASSUME NEW i \in 1..Len(r) PROVE r[i] \in Placeholders \/ path[k + i] = r[i]
    <3>1. i \in 1..Len(r) + Len(s) /\ i <= Len(r)
      BY <1>1
    <3> QED
      BY <1>1, <1>2, <3>1 DEF FitsFrom
  <2>2. ASSUME NEW i \in 1..Len(s) PROVE s[i] \in Placeholders \/ path[(k + Len(r)) + i] = s[i]
    <3>1. /\ Len(r) + i \in 1..Len(r) + Len(s) /\ ~(Len(r) + i <= Len(r)) /\ (Len(r) + i) - Len(r) = i
          /\ k + (Len(r) + i) = (k + Len(r)) + i
      BY <1>1
    <3>2. q[Len(r) + i] = s[i]
      BY <1>1, <3>1
    <3>3. q[Len(r) + i] \in Placeholders \/ path[k + (Len(r) + i)] = q[Len(r) + i]
      BY <1>1, <1>2, <3>1 DEF FitsFrom
    <3> QED
      BY <3>1, <3>2, <3>3
  <2> QED
    BY <2>1, <2>2 DEF FitsFrom
<1>3. ASSUME FitsFrom(path, k, r), FitsFrom(path, k + Len(r), s) PROVE FitsFrom(path, k, q)
  <2> SUFFICES ASSUME NEW i \in 1..Len(r) + Len(s) PROVE q[i] \in Placeholders \/ path[k + i] = q[i]
    BY <1>1 DEF FitsFrom
  <2>1. CASE i <= Len(r)
    <3>1. i \in 1..Len(r)
      BY <1>1, <2>1
    <3> QED
      BY <1>1, <1>3, <2>1, <3>1 DEF FitsFrom
  <2>2. CASE ~(i <= Len(r))
    <3>1. i - Len(r) \in 1..Len(s) /\ (k + Len(r)) + (i - Len(r)) = k + i
      BY <1>1, <2>2
    <3>2. s[i - Len(r)] \in Placeholders \/ path[(k + Len(r)) + (i - Len(r))] = s[i - Len(r)]
      BY <1>3, <3>1 DEF FitsFrom
    <3> QED
      BY <1>1, <2>2, <3>1, <3>2
  <2> QED
    BY <2>1, <2>2
<1> QED
  BY <1>1, <1>2, <1>3 DEF q

LEMMA FitsOne ==
    ASSUME NEW path, NEW k \in Nat, NEW a \in Words
    PROVE  /\ <<a>> \in Seq(Words) /\ Len(<<a>>) = 1
           /\ FitsFrom(path, k, <<a>>) <=> a \in Placeholders \/ path[k + 1] = a
<1>1. <<a>> \in Seq(Words) /\ Len(<<a>>) = 1 /\ <<a>>[1] = a
  OBVIOUS
<1>2. 1..1 = {1}
  OBVIOUS
<1> QED
  BY <1>1, <1>2 DEF FitsFrom

LEMMA FitsTwo ==
    ASSUME NEW path, NEW k \in Nat, NEW a \in Words, NEW b \in Words
    PROVE  /\ <<a, b>> \in Seq(Words) /\ Len(<<a, b>>) = 2
           /\ FitsFrom(path, k, <<a, b>>) <=>
                (a \in Placeholders \/ path[k + 1] = a) /\ (b \in Placeholders \/ path[k + 2] = b)
<1>1. <<a, b>> \in Seq(Words) /\ Len(<<a, b>>) = 2 /\ <<a, b>>[1] = a /\ <<a, b>>[2] = b
  OBVIOUS
<1>2. 1..2 = {1, 2}
  OBVIOUS
<1> QED
  BY <1>1, <1>2 DEF FitsFrom

LEMMA FitsThree ==
    ASSUME NEW path, NEW k \in Nat, NEW a \in Words, NEW b \in Words, NEW c \in Words
    PROVE  /\ <<a, b, c>> \in Seq(Words) /\ Len(<<a, b, c>>) = 3
           /\ FitsFrom(path, k, <<a, b, c>>) <=>
                /\ a \in Placeholders \/ path[k + 1] = a
                /\ b \in Placeholders \/ path[k + 2] = b
                /\ c \in Placeholders \/ path[k + 3] = c
<1>1. /\ <<a, b, c>> \in Seq(Words) /\ Len(<<a, b, c>>) = 3
      /\ <<a, b, c>>[1] = a /\ <<a, b, c>>[2] = b /\ <<a, b, c>>[3] = c
  OBVIOUS
<1>2. 1..3 = {1, 2, 3}
  OBVIOUS
<1> QED
  BY <1>1, <1>2 DEF FitsFrom

(* The places of a resource path's segments, by the API root.              *)
Begins(path, first, len) == Len(path) = len /\ path[1] = first
Spaced(path, first, len, i) == Begins(path, first, len) /\ path[i] = "namespaces"

LEMMA FitsRooted ==
    ASSUME NEW path \in Seq(STRING), NEW s \in Seq(Words)
    PROVE  /\ Fits(path, <<"api", "version">> \o s) <=>
                Begins(path, "api", 2 + Len(s)) /\ FitsFrom(path, 2, s)
           /\ Fits(path, <<"apis", "group", "version">> \o s) <=>
                Begins(path, "apis", 3 + Len(s)) /\ FitsFrom(path, 3, s)
<1> DEFINE p == <<"api", "version">>
           q == <<"apis", "group", "version">>
<1>1. p \in Seq(Words) /\ Len(p) = 2 /\ (FitsFrom(path, 0, p) <=> path[1] = "api")
  <2>1. "api" \in Words /\ "version" \in Words /\ "api" \notin Placeholders /\ "version" \in Placeholders
    BY DEF Words, Placeholders
  <2> QED
    BY <2>1, FitsTwo
<1>2. q \in Seq(Words) /\ Len(q) = 3 /\ (FitsFrom(path, 0, q) <=> path[1] = "apis")
  <2>1. /\ "apis" \in Words /\ "group" \in Words /\ "version" \in Words
        /\ "apis" \notin Placeholders /\ "group" \in Placeholders /\ "version" \in Placeholders
    BY DEF Words, Placeholders
  <2> QED
    BY <2>1, FitsThree
<1> HIDE DEF p, q
<1>3. 0 \in Nat /\ 0 + 2 = 2 /\ 0 + 3 = 3
  OBVIOUS
<1>4. /\ p \o s \in Seq(Words) /\ Len(p \o s) = 2 + Len(s)
      /\ FitsFrom(path, 0, p \o s) <=> path[1] = "api" /\ FitsFrom(path, 2, s)
  <2>1. /\ p \o s \in Seq(Words) /\ Len(p \o s) = Len(p) + Len(s)
        /\ FitsFrom(path, 0, p \o s) <=> FitsFrom(path, 0, p) /\ FitsFrom(path, 0 + Len(p), s)
    BY <1>1, <1>3, FitsJoined, Zenon
  <2>2. 0 + Len(p) = 2
    BY <1>1, <1>3
  <2> QED
    BY <1>1, <2>1, <2>2
<1>5. /\ q \o s \in Seq(Words) /\ Len(q \o s) = 3 + Len(s)
      /\ FitsFrom(path, 0, q \o s) <=> path[1] = "apis" /\ FitsFrom(path, 3, s)
  <2>1. /\ q \o s \in Seq(Words) /\ Len(q \o s) = Len(q) + Len(s)
        /\ FitsFrom(path, 0, q \o s) <=> FitsFrom(path, 0, q) /\ FitsFrom(path, 0 + Len(q), s)
    BY <1>2, <1>3, FitsJoined, Zenon
  <2>2. 0 + Len(q) = 3
    BY <1>2, <1>3
  <2> QED
    BY <1>2, <2>1, <2>2
<1>6. /\ Fits(path, p \o s) <=> Begins(path, "api", 2 + Len(s)) /\ FitsFrom(path, 2, s)
      /\ Fits(path, q \o s) <=> Begins(path, "apis", 3 + Len(s)) /\ FitsFrom(path, 3, s)
  BY <1>4, <1>5, FitsIs DEF Begins
<1> QED
  BY <1>6 DEF p, q

LEMMA ShapesAre ==
    ASSUME NEW path \in Seq(STRING)
    PROVE  /\ NamesCollection(path) <=>
                \/ Begins(path, "api", 3) \/ Spaced(path, "api", 5, 3)
                \/ Begins(path, "apis", 4) \/ Spaced(path, "apis", 6, 4)
           /\ NamesObject(path) <=>
                \/ Begins(path, "api", 4) \/ Spaced(path, "api", 6, 3)
                \/ Begins(path, "apis", 5) \/ Spaced(path, "apis", 7, 4)
           /\ Shaped(path, Subresources) <=>
                \/ Begins(path, "api", 5) \/ Spaced(path, "api", 7, 3)
                \/ Begins(path, "apis", 6) \/ Spaced(path, "apis", 8, 4)
<1> DEFINE c == <<"resource">>
           d == <<"namespaces", "name", "resource">>
           n == <<"name">>
           u == <<"subresource">>
           co == c \o n
           dn == d \o n
           cs == co \o u
           ds == dn \o u
<1>1. /\ {"resource", "name", "subresource", "namespaces"} \subseteq Words
      /\ {"resource", "name", "subresource"} \subseteq Placeholders /\ "namespaces" \notin Placeholders
  BY DEF Words, Placeholders
<1>2. ASSUME NEW k \in Nat
      PROVE  /\ c \in Seq(Words) /\ Len(c) = 1 /\ FitsFrom(path, k, c)
             /\ n \in Seq(Words) /\ Len(n) = 1 /\ FitsFrom(path, k, n)
             /\ u \in Seq(Words) /\ Len(u) = 1 /\ FitsFrom(path, k, u)
  BY <1>1, FitsOne
<1>3. ASSUME NEW k \in Nat
      PROVE  d \in Seq(Words) /\ Len(d) = 3 /\ (FitsFrom(path, k, d) <=> path[k + 1] = "namespaces")
  BY <1>1, FitsThree
<1>4. Collections = {c, d} /\ Objects = {co, dn} /\ Subresources = {cs, ds}
  BY DEF Collections, Objects, Subresources
<1> HIDE DEF c, d, n, u
<1>5. ASSUME NEW k \in Nat
      PROVE  /\ co \in Seq(Words) /\ Len(co) = 2 /\ FitsFrom(path, k, co)
             /\ dn \in Seq(Words) /\ Len(dn) = 4 /\ (FitsFrom(path, k, dn) <=> path[k + 1] = "namespaces")
  <2>1. k + 1 \in Nat /\ k + 3 \in Nat
    OBVIOUS
  <2>2. co \in Seq(Words) /\ Len(co) = 2 /\ FitsFrom(path, k, co)
    <3>1. c \in Seq(Words) /\ n \in Seq(Words) /\ Len(c) = 1 /\ Len(n) = 1
      BY <1>2
    <3>2. /\ co \in Seq(Words) /\ Len(co) = Len(c) + Len(n)
          /\ FitsFrom(path, k, co) <=> FitsFrom(path, k, c) /\ FitsFrom(path, k + Len(c), n)
      BY <3>1, FitsJoined, Zenon
    <3> HIDE DEF co
    <3> QED
      BY <1>2, <2>1, <3>1, <3>2
  <2>3. dn \in Seq(Words) /\ Len(dn) = 4 /\ (FitsFrom(path, k, dn) <=> path[k + 1] = "namespaces")
    <3>1. d \in Seq(Words) /\ n \in Seq(Words) /\ Len(d) = 3 /\ Len(n) = 1
      BY <1>2, <1>3
    <3>2. /\ dn \in Seq(Words) /\ Len(dn) = Len(d) + Len(n)
          /\ FitsFrom(path, k, dn) <=> FitsFrom(path, k, d) /\ FitsFrom(path, k + Len(d), n)
      BY <3>1, FitsJoined, Zenon
    <3>3. FitsFrom(path, k, d) <=> path[k + 1] = "namespaces"
      BY <1>3
    <3>4. FitsFrom(path, k + Len(d), n)
      BY <1>2, <2>1, <3>1
    <3>5. Len(dn) = 4
      <4> HIDE DEF dn
      <4> QED
        BY <3>1, <3>2
    <3> HIDE DEF dn
    <3> QED
      BY <3>2, <3>3, <3>4, <3>5, Zenon
  <2> QED
    BY <2>2, <2>3
<1> HIDE DEF co, dn
<1>6. ASSUME NEW k \in Nat
      PROVE  /\ cs \in Seq(Words) /\ Len(cs) = 3 /\ FitsFrom(path, k, cs)
             /\ ds \in Seq(Words) /\ Len(ds) = 5 /\ (FitsFrom(path, k, ds) <=> path[k + 1] = "namespaces")
  <2>1. k + 2 \in Nat /\ k + 4 \in Nat
    OBVIOUS
  <2>2. cs \in Seq(Words) /\ Len(cs) = 3 /\ FitsFrom(path, k, cs)
    <3>1. co \in Seq(Words) /\ u \in Seq(Words) /\ Len(co) = 2 /\ Len(u) = 1
      BY <1>2, <1>5
    <3>2. /\ cs \in Seq(Words) /\ Len(cs) = Len(co) + Len(u)
          /\ FitsFrom(path, k, cs) <=> FitsFrom(path, k, co) /\ FitsFrom(path, k + Len(co), u)
      BY <3>1, FitsJoined, Zenon
    <3> HIDE DEF cs
    <3> QED
      BY <1>2, <1>5, <2>1, <3>1, <3>2
  <2>3. ds \in Seq(Words) /\ Len(ds) = 5 /\ (FitsFrom(path, k, ds) <=> path[k + 1] = "namespaces")
    <3>1. dn \in Seq(Words) /\ u \in Seq(Words) /\ Len(dn) = 4 /\ Len(u) = 1
      BY <1>2, <1>5
    <3>2. /\ ds \in Seq(Words) /\ Len(ds) = Len(dn) + Len(u)
          /\ FitsFrom(path, k, ds) <=> FitsFrom(path, k, dn) /\ FitsFrom(path, k + Len(dn), u)
      BY <3>1, FitsJoined, Zenon
    <3>3. FitsFrom(path, k, dn) <=> path[k + 1] = "namespaces"
      BY <1>5
    <3>4. FitsFrom(path, k + Len(dn), u)
      BY <1>2, <2>1, <3>1
    <3>5. Len(ds) = 5
      <4> HIDE DEF ds
      <4> QED
        BY <3>1, <3>2
    <3> HIDE DEF ds
    <3> QED
      BY <3>2, <3>3, <3>4, <3>5, Zenon
  <2> QED
    BY <2>2, <2>3
<1> HIDE DEF cs, ds
<1>7. ASSUME NEW v \in Seq(Words), NEW w \in Seq(Words)
      PROVE  Shaped(path, {v, w}) <=>
               \/ Begins(path, "api", 2 + Len(v)) /\ FitsFrom(path, 2, v)
               \/ Begins(path, "api", 2 + Len(w)) /\ FitsFrom(path, 2, w)
               \/ Begins(path, "apis", 3 + Len(v)) /\ FitsFrom(path, 3, v)
               \/ Begins(path, "apis", 3 + Len(w)) /\ FitsFrom(path, 3, w)
  BY FitsRooted DEF Shaped, ApiRoots
<1>8. 2 \in Nat /\ 3 \in Nat
  OBVIOUS
<1>9. NamesCollection(path) <=>
        \/ Begins(path, "api", 3) \/ Spaced(path, "api", 5, 3)
        \/ Begins(path, "apis", 4) \/ Spaced(path, "apis", 6, 4)
  <2>1. /\ c \in Seq(Words) /\ Len(c) = 1 /\ FitsFrom(path, 2, c) /\ FitsFrom(path, 3, c)
        /\ d \in Seq(Words) /\ Len(d) = 3
        /\ FitsFrom(path, 2, d) <=> path[3] = "namespaces"
        /\ FitsFrom(path, 3, d) <=> path[4] = "namespaces"
    BY <1>2, <1>3, <1>8
  <2>2. Shaped(path, {c, d}) <=>
          \/ Begins(path, "api", 2 + Len(c)) /\ FitsFrom(path, 2, c)
          \/ Begins(path, "api", 2 + Len(d)) /\ FitsFrom(path, 2, d)
          \/ Begins(path, "apis", 3 + Len(c)) /\ FitsFrom(path, 3, c)
          \/ Begins(path, "apis", 3 + Len(d)) /\ FitsFrom(path, 3, d)
    BY <1>7, <2>1, Zenon
  <2>3. 2 + Len(c) = 3 /\ 2 + Len(d) = 5 /\ 3 + Len(c) = 4 /\ 3 + Len(d) = 6
    BY <2>1
  <2>4. Shaped(path, {c, d}) <=>
          \/ Begins(path, "api", 3) \/ Spaced(path, "api", 5, 3)
          \/ Begins(path, "apis", 4) \/ Spaced(path, "apis", 6, 4)
    BY <2>1, <2>2, <2>3, Zenon DEF Spaced
  <2> QED
    BY <1>4, <2>4, Zenon DEF NamesCollection
<1>10. NamesObject(path) <=>
        \/ Begins(path, "api", 4) \/ Spaced(path, "api", 6, 3)
        \/ Begins(path, "apis", 5) \/ Spaced(path, "apis", 7, 4)
  <2>1. /\ co \in Seq(Words) /\ Len(co) = 2 /\ FitsFrom(path, 2, co) /\ FitsFrom(path, 3, co)
        /\ dn \in Seq(Words) /\ Len(dn) = 4
        /\ FitsFrom(path, 2, dn) <=> path[3] = "namespaces"
        /\ FitsFrom(path, 3, dn) <=> path[4] = "namespaces"
    BY <1>5, <1>8
  <2>2. Shaped(path, {co, dn}) <=>
          \/ Begins(path, "api", 2 + Len(co)) /\ FitsFrom(path, 2, co)
          \/ Begins(path, "api", 2 + Len(dn)) /\ FitsFrom(path, 2, dn)
          \/ Begins(path, "apis", 3 + Len(co)) /\ FitsFrom(path, 3, co)
          \/ Begins(path, "apis", 3 + Len(dn)) /\ FitsFrom(path, 3, dn)
    BY <1>7, <2>1, Zenon
  <2>3. 2 + Len(co) = 4 /\ 2 + Len(dn) = 6 /\ 3 + Len(co) = 5 /\ 3 + Len(dn) = 7
    BY <2>1
  <2>4. Shaped(path, {co, dn}) <=>
          \/ Begins(path, "api", 4) \/ Spaced(path, "api", 6, 3)
          \/ Begins(path, "apis", 5) \/ Spaced(path, "apis", 7, 4)
    BY <2>1, <2>2, <2>3, Zenon DEF Spaced
  <2> QED
    BY <1>4, <2>4, Zenon DEF NamesObject
<1>11. Shaped(path, Subresources) <=>
        \/ Begins(path, "api", 5) \/ Spaced(path, "api", 7, 3)
        \/ Begins(path, "apis", 6) \/ Spaced(path, "apis", 8, 4)
  <2>1. /\ cs \in Seq(Words) /\ Len(cs) = 3 /\ FitsFrom(path, 2, cs) /\ FitsFrom(path, 3, cs)
        /\ ds \in Seq(Words) /\ Len(ds) = 5
        /\ FitsFrom(path, 2, ds) <=> path[3] = "namespaces"
        /\ FitsFrom(path, 3, ds) <=> path[4] = "namespaces"
    BY <1>6, <1>8
  <2>2. Shaped(path, {cs, ds}) <=>
          \/ Begins(path, "api", 2 + Len(cs)) /\ FitsFrom(path, 2, cs)
          \/ Begins(path, "api", 2 + Len(ds)) /\ FitsFrom(path, 2, ds)
          \/ Begins(path, "apis", 3 + Len(cs)) /\ FitsFrom(path, 3, cs)
          \/ Begins(path, "apis", 3 + Len(ds)) /\ FitsFrom(path, 3, ds)
    BY <1>7, <2>1, Zenon
  <2>3. 2 + Len(cs) = 5 /\ 2 + Len(ds) = 7 /\ 3 + Len(cs) = 6 /\ 3 + Len(ds) = 8
    BY <2>1
  <2>4. Shaped(path, {cs, ds}) <=>
          \/ Begins(path, "api", 5) \/ Spaced(path, "api", 7, 3)
          \/ Begins(path, "apis", 6) \/ Spaced(path, "apis", 8, 4)
    BY <2>1, <2>2, <2>3, Zenon DEF Spaced
  <2> QED
    BY <1>4, <2>4, Zenon
<1> QED
  BY <1>9, <1>10, <1>11


(* parseResourcePath finds the shapes of the document, and only below a    *)
(* subresource more.                                                       *)
LEMMA BaseIs ==
    ASSUME NEW path \in Seq(STRING)
    PROVE  \/ Base(path) = 0 /\ ~(path[1] = "api" /\ Len(path) >= 3) /\ ~(path[1] = "apis" /\ Len(path) >= 4)
           \/ Base(path) = 3 /\ path[1] = "api" /\ Len(path) >= 3 /\ ~(Len(path) >= 5 /\ path[3] = "namespaces")
           \/ Base(path) = 5 /\ path[1] = "api" /\ Len(path) >= 5 /\ path[3] = "namespaces"
           \/ Base(path) = 4 /\ path[1] = "apis" /\ Len(path) >= 4 /\ ~(Len(path) >= 6 /\ path[4] = "namespaces")
           \/ Base(path) = 6 /\ path[1] = "apis" /\ Len(path) >= 6 /\ path[4] = "namespaces"
<1> DEFINE m == Len(path)
<1>1. m \in Nat
  OBVIOUS
<1> HIDE DEF m
<1>2. Base(path) = CASE m >= 3 /\ path[1] = "api" -> (IF m >= 5 /\ path[3] = "namespaces" THEN 5 ELSE 3)
                     [] m >= 4 /\ path[1] = "apis" -> (IF m >= 6 /\ path[4] = "namespaces" THEN 6 ELSE 4)
                     [] OTHER -> 0
  BY DEF Base, m
<1>3. \/ Base(path) = 0 /\ ~(path[1] = "api" /\ m >= 3) /\ ~(path[1] = "apis" /\ m >= 4)
      \/ Base(path) = 3 /\ path[1] = "api" /\ m >= 3 /\ ~(m >= 5 /\ path[3] = "namespaces")
      \/ Base(path) = 5 /\ path[1] = "api" /\ m >= 5 /\ path[3] = "namespaces"
      \/ Base(path) = 4 /\ path[1] = "apis" /\ m >= 4 /\ ~(m >= 6 /\ path[4] = "namespaces")
      \/ Base(path) = 6 /\ path[1] = "apis" /\ m >= 6 /\ path[4] = "namespaces"
  BY <1>1, <1>2
<1> QED
  BY <1>3 DEF m

LEMMA NamesAre ==
    ASSUME NEW path \in Seq(STRING), ~(Base(path) # 0 /\ Len(path) > Base(path) + 2)
    PROVE  /\ NamesCollection(path) <=> Base(path) # 0 /\ Len(path) = Base(path)
           /\ NamesObject(path) <=> Base(path) # 0 /\ Len(path) = Base(path) + 1
           /\ NamesSubresource(path) <=> Base(path) # 0 /\ Len(path) = Base(path) + 2
<1> DEFINE m == Len(path)
           b == Base(path)
           C == \/ m = 3 /\ path[1] = "api"
                \/ m = 5 /\ path[1] = "api" /\ path[3] = "namespaces"
                \/ m = 4 /\ path[1] = "apis"
                \/ m = 6 /\ path[1] = "apis" /\ path[4] = "namespaces"
           O == \/ m = 4 /\ path[1] = "api"
                \/ m = 6 /\ path[1] = "api" /\ path[3] = "namespaces"
                \/ m = 5 /\ path[1] = "apis"
                \/ m = 7 /\ path[1] = "apis" /\ path[4] = "namespaces"
           S == \/ m = 5 /\ path[1] = "api"
                \/ m = 7 /\ path[1] = "api" /\ path[3] = "namespaces"
                \/ m = 6 /\ path[1] = "apis"
                \/ m = 8 /\ path[1] = "apis" /\ path[4] = "namespaces"
<1>1. m \in Nat
  OBVIOUS
<1>2. (NamesCollection(path) <=> C) /\ (NamesObject(path) <=> O) /\ (NamesSubresource(path) <=> S /\ ~C)
  BY ShapesAre, Zenon DEF NamesSubresource, Begins, Spaced
<1>3. \/ b = 0 /\ ~(path[1] = "api" /\ m >= 3) /\ ~(path[1] = "apis" /\ m >= 4)
      \/ b = 3 /\ path[1] = "api" /\ m >= 3 /\ ~(m >= 5 /\ path[3] = "namespaces")
      \/ b = 5 /\ path[1] = "api" /\ m >= 5 /\ path[3] = "namespaces"
      \/ b = 4 /\ path[1] = "apis" /\ m >= 4 /\ ~(m >= 6 /\ path[4] = "namespaces")
      \/ b = 6 /\ path[1] = "apis" /\ m >= 6 /\ path[4] = "namespaces"
  BY BaseIs
<1>4. ~(b # 0 /\ m > b + 2)
  OBVIOUS
<1> HIDE DEF m, b
<1>5. C <=> b # 0 /\ m = b
  BY <1>1, <1>3, <1>4
<1>6. O <=> b # 0 /\ m = b + 1
  BY <1>1, <1>3, <1>4
<1>7. S /\ ~C <=> b # 0 /\ m = b + 2
  BY <1>1, <1>3, <1>4
<1> HIDE DEF C, O, S
<1>8. /\ NamesCollection(path) <=> b # 0 /\ m = b
      /\ NamesObject(path) <=> b # 0 /\ m = b + 1
      /\ NamesSubresource(path) <=> b # 0 /\ m = b + 2
  BY <1>2, <1>5, <1>6, <1>7, Zenon
<1> QED
  BY <1>8 DEF m, b

LEMMA FirstRow ==
    ASSUME NEW r, NEW helmMode, NEW n \in 3..11, Row(r, helmMode, n), \A k \in 3..n - 1 : ~Row(r, helmMode, k)
    PROVE  Documented(r, helmMode) = RowHandler[n]
<1> DEFINE First(k) == Row(r, helmMode, k) /\ \A j \in 3..k - 1 : ~Row(r, helmMode, j)
           c == CHOOSE k \in 3..11 : First(k)
<1>1. c \in 3..11 /\ First(c)
  OBVIOUS
<1> HIDE DEF c
<1>2. ~(c < n) /\ ~(n < c)
  BY <1>1
<1>3. c = n
  BY <1>1, <1>2
<1> QED
  BY <1>3, Zenon DEF c, Documented

(* Row 3 lists the paths that are not resources and say what the API has.  *)
LEMMA DiscoveryIs ==
    ASSUME NEW r, NEW helmMode, r.path \in Seq(STRING)
    PROVE  Row(r, helmMode, 3) <=> IsDiscoveryPath(r.path)
<1> DEFINE p == r.path
           m == Len(p)
           Rest == p # <<>> /\ p[1] \in {"openapi", "swagger", "healthz", "livez", "readyz"}
<1>1. m \in Nat /\ (p # <<>> <=> m # 0) /\ (p = <<"version">> => m # 0)
  OBVIOUS
<1>2. Row(r, helmMode, 3) <=> p = <<"version">> \/ (\E shape \in Discovery : Fits(p, shape)) \/ Rest
  BY DEF Row, BeginsWith
<1>3. IsDiscoveryPath(p) <=> /\ m # 0
                             /\ \/ p = <<"version">>
                                \/ Rest
                                \/ p[1] = "api" /\ m <= 2
                                \/ p[1] = "apis" /\ m <= 3
  BY <1>1 DEF IsDiscoveryPath
<1>4. /\ {"api", "apis", "group", "version"} \subseteq Words
      /\ "api" \notin Placeholders /\ "apis" \notin Placeholders
      /\ "group" \in Placeholders /\ "version" \in Placeholders
  BY DEF Words, Placeholders
<1>5. ASSUME NEW a \in {"api", "apis"}, NEW b \in {"group", "version"}
      PROVE  (Fits(p, <<a>>) <=> m = 1 /\ p[1] = a) /\ (Fits(p, <<a, b>>) <=> m = 2 /\ p[1] = a)
  <2>1. <<a>> \in Seq(Words) /\ Len(<<a>>) = 1 /\ (FitsFrom(p, 0, <<a>>) <=> p[1] = a)
    BY <1>4, FitsOne
  <2>2. <<a, b>> \in Seq(Words) /\ Len(<<a, b>>) = 2 /\ (FitsFrom(p, 0, <<a, b>>) <=> p[1] = a)
    BY <1>4, FitsTwo
  <2>3. /\ Fits(p, <<a>>) <=> m = Len(<<a>>) /\ FitsFrom(p, 0, <<a>>)
        /\ Fits(p, <<a, b>>) <=> m = Len(<<a, b>>) /\ FitsFrom(p, 0, <<a, b>>)
    BY <2>1, <2>2, FitsIs, Zenon
  <2> QED
    BY <2>1, <2>2, <2>3, Zenon
<1>6. Fits(p, <<"apis", "group", "version">>) <=> m = 3 /\ p[1] = "apis"
  <2> DEFINE shape == <<"apis", "group", "version">>
  <2>1. shape \in Seq(Words) /\ Len(shape) = 3 /\ (FitsFrom(p, 0, shape) <=> p[1] = "apis")
    BY <1>4, FitsThree
  <2> HIDE DEF shape
  <2>2. Fits(p, shape) <=> m = Len(shape) /\ FitsFrom(p, 0, shape)
    BY <2>1, FitsIs, Zenon
  <2>3. Fits(p, shape) <=> m = 3 /\ p[1] = "apis"
    BY <2>1, <2>2, Zenon
  <2> QED
    BY <2>3 DEF shape
<1>7. /\ Fits(p, <<"api">>) <=> m = 1 /\ p[1] = "api"
      /\ Fits(p, <<"api", "version">>) <=> m = 2 /\ p[1] = "api"
      /\ Fits(p, <<"apis">>) <=> m = 1 /\ p[1] = "apis"
      /\ Fits(p, <<"apis", "group">>) <=> m = 2 /\ p[1] = "apis"
  BY <1>5
<1> HIDE DEF p, m, Rest
<1>8. (\E shape \in Discovery : Fits(p, shape)) <=>
        \/ m = 1 /\ p[1] = "api"
        \/ m = 2 /\ p[1] = "api"
        \/ m = 1 /\ p[1] = "apis"
        \/ m = 2 /\ p[1] = "apis"
        \/ m = 3 /\ p[1] = "apis"
  BY <1>6, <1>7, Zenon DEF Discovery
<1>9. Rest => m # 0
  BY <1>1 DEF Rest
<1>10. Row(r, helmMode, 3) <=> IsDiscoveryPath(p)
  BY <1>1, <1>2, <1>3, <1>8, <1>9
<1> QED
  BY <1>10 DEF p

(* The empty string, by a name that the provers can read.                  *)
NoName == ""

(* Of the paths the document decides, the code asks of each row in turn    *)
(* what the table says.                                                    *)
LEMMA RowsAre ==
    ASSUME NEW r, NEW helmMode, r.method \in Methods, r.path \in Seq(STRING),
           r.path # <<>> => r.path[Len(r.path)] # NoName, ~IsUndecided(r.path),
           NEW resource, resource = ParseResourcePath(r.path)
    PROVE  /\ Row(r, helmMode, 5) <=> helmMode /\ IsHelmStorageList(r)
           /\ Row(r, helmMode, 6) <=> IsWatch(r) /\ resource.isResource
           /\ Row(r, helmMode, 7) <=>
                r.method = "GET" /\ resource.isPod /\ IsPodConnection(resource.subresource)
           /\ Row(r, helmMode, 8) <=> r.method = "GET" /\ resource.isObject /\ resource.subresource = NoName
           /\ Row(r, helmMode, 9) <=> r.method = "GET" /\ resource.isCollection
           /\ Row(r, helmMode, 10) <=> IsMutation(r.method) /\ resource.isResource
<1> DEFINE p == r.path
           m == Len(p)
           b == Base(p)
           streams == {"log", "exec", "attach", "portforward"}
<1>1. m \in Nat /\ b \in Nat /\ m >= b /\ ~(b # 0 /\ m > b + 2) /\ (p # <<>> <=> m # 0)
  <2>1. m \in Nat /\ (p # <<>> <=> m # 0) /\ ~(b # 0 /\ m > b + 2)
    BY DEF IsUndecided
  <2>2. b = 0 \/ (b = 3 /\ m >= 3) \/ (b = 5 /\ m >= 5) \/ (b = 4 /\ m >= 4) \/ (b = 6 /\ m >= 6)
    BY BaseIs, Zenon
  <2> HIDE DEF m, b
  <2> QED
    BY <2>1, <2>2
<1>2. /\ NamesCollection(p) <=> b # 0 /\ m = b
      /\ NamesObject(p) <=> b # 0 /\ m = b + 1
      /\ NamesSubresource(p) <=> b # 0 /\ m = b + 2
  BY NamesAre DEF IsUndecided
<1>3. /\ resource.isResource <=> b # 0
      /\ resource.isCollection <=> b # 0 /\ m = b
      /\ resource.isObject <=> b # 0 /\ m > b
      /\ resource.isPod <=> b # 0 /\ p[b] = "pods"
      /\ resource.subresource = IF b # 0 /\ m > b + 1 THEN p[b + 2] ELSE NoName
  BY Zenon DEF ParseResourcePath, NoName
<1>4. p # <<>> => p[m] # NoName
  OBVIOUS
<1>5. NoName \notin streams
  BY Zenon DEF NoName
<1>6. /\ Row(r, helmMode, 5) <=> /\ helmMode /\ r.method = "GET" /\ r.helmOwner
                                 /\ NamesCollection(p) /\ EndsIn(p, {"secrets", "configmaps"})
      /\ Row(r, helmMode, 6) <=> r.method = "GET" /\ r.watch /\ NamesResource(p)
      /\ Row(r, helmMode, 7) <=> r.method = "GET" /\ NamesSubresource(p) /\ PodPath(p) /\ EndsIn(p, streams)
      /\ Row(r, helmMode, 8) <=> r.method = "GET" /\ NamesObject(p)
      /\ Row(r, helmMode, 9) <=> r.method = "GET" /\ NamesCollection(p)
      /\ Row(r, helmMode, 10) <=> r.method # "GET" /\ NamesResource(p)
  BY DEF Row
<1>7. EndsIn(p, {"secrets", "configmaps"}) <=> m # 0 /\ p[m] \in {"secrets", "configmaps"}
  BY <1>1 DEF EndsIn
<1>8. (EndsIn(p, streams) <=> m # 0 /\ p[m] \in streams) /\ (PodPath(p) <=> p[m - 2] = "pods")
  BY <1>1 DEF EndsIn, PodPath
<1>9. IsHelmStorageList(r) <=> /\ r.method = "GET" /\ r.helmOwner /\ resource.isCollection
                               /\ p[m] \in {"secrets", "configmaps"}
  BY DEF IsHelmStorageList
<1>10. (IsMutation(r.method) <=> r.method # "GET") /\ (IsWatch(r) <=> r.method = "GET" /\ r.watch)
  BY DEF IsMutation, IsWatch
<1>11. IsPodConnection(resource.subresource) <=> resource.subresource \in streams
  BY DEF IsPodConnection
<1> HIDE DEF p, m, b, streams
<1>12. NamesResource(p) <=> b # 0
  BY <1>1, <1>2 DEF NamesResource
<1>13. Row(r, helmMode, 5) <=> helmMode /\ IsHelmStorageList(r)
  BY <1>1, <1>2, <1>3, <1>6, <1>7, <1>9
<1>14. Row(r, helmMode, 6) <=> IsWatch(r) /\ resource.isResource
  BY <1>3, <1>6, <1>10, <1>12
<1>15. Row(r, helmMode, 7) <=> r.method = "GET" /\ resource.isPod /\ IsPodConnection(resource.subresource)
  <2>1. NamesSubresource(p) /\ PodPath(p) /\ EndsIn(p, streams)
          <=> resource.isPod /\ resource.subresource \in streams
    <3>1. CASE b # 0 /\ m = b + 2
      <4>1. m - 2 = b /\ m # 0 /\ m > b + 1
        BY <1>1, <3>1
      <4> QED
        BY <1>2, <1>3, <1>8, <3>1, <4>1
    <3>2. CASE ~(b # 0 /\ m = b + 2)
      <4>1. ~(b # 0 /\ m > b + 1)
        BY <1>1, <3>2
      <4> QED
        BY <1>2, <1>3, <1>5, <3>2, <4>1
    <3> QED
      BY <3>1, <3>2
  <2> QED
    BY <1>6, <1>11, <2>1
<1>16. Row(r, helmMode, 8) <=> r.method = "GET" /\ resource.isObject /\ resource.subresource = NoName
  <2>1. NamesObject(p) <=> resource.isObject /\ resource.subresource = NoName
    <3>1. CASE b # 0 /\ m > b + 1
      <4>1. b + 2 = m /\ m # b + 1 /\ p # <<>>
        BY <1>1, <3>1
      <4> QED
        BY <1>2, <1>3, <1>4, <3>1, <4>1
    <3>2. CASE ~(b # 0 /\ m > b + 1)
      BY <1>1, <1>2, <1>3, <3>2
    <3> QED
      BY <3>1, <3>2
  <2> QED
    BY <1>6, <2>1
<1>17. Row(r, helmMode, 9) <=> r.method = "GET" /\ resource.isCollection
  BY <1>2, <1>3, <1>6
<1>18. Row(r, helmMode, 10) <=> IsMutation(r.method) /\ resource.isResource
  BY <1>3, <1>6, <1>10, <1>12
<1> QED
  BY <1>13, <1>14, <1>15, <1>16, <1>17, <1>18

LEMMA ClassifiedAsDocumented ==
    ASSUME NEW r, NEW helmMode, r.method \in Methods, r.path \in Seq(STRING),
           r.path # <<>> => r.path[Len(r.path)] # NoName, ~IsUndecided(r.path)
    PROVE  ClassifyRequest(r, helmMode) = Documented(r, helmMode)
<1> DEFINE resource == ParseResourcePath(r.path)
           R(n) == Row(r, helmMode, n)
<1>1. /\ R(3) <=> IsDiscoveryPath(r.path)
      /\ R(4) <=> IsRequestResponseAPI(r)
      /\ R(11)
  BY DiscoveryIs DEF Row
<1>2. /\ R(5) <=> helmMode /\ IsHelmStorageList(r)
      /\ R(6) <=> IsWatch(r) /\ resource.isResource
      /\ R(7) <=> r.method = "GET" /\ resource.isPod /\ IsPodConnection(resource.subresource)
      /\ R(8) <=> r.method = "GET" /\ resource.isObject /\ resource.subresource = NoName
      /\ R(9) <=> r.method = "GET" /\ resource.isCollection
      /\ R(10) <=> IsMutation(r.method) /\ resource.isResource
  BY RowsAre, Zenon
<1>3. ClassifyRequest(r, helmMode) =
        IF R(3) \/ R(4) \/ R(5) THEN "primary" ELSE IF R(6) THEN "watch" ELSE IF R(7) THEN "podStream"
        ELSE IF R(8) THEN "namedGet" ELSE IF R(9) THEN "list" ELSE IF R(10) THEN "mutation" ELSE "primary"
  BY <1>1, <1>2, Zenon DEF ClassifyRequest, IsPrimaryRequest, NoName
<1>4. /\ RowHandler[3] = "primary" /\ RowHandler[4] = "primary" /\ RowHandler[5] = "primary"
      /\ RowHandler[6] = "watch" /\ RowHandler[7] = "podStream" /\ RowHandler[8] = "namedGet"
      /\ RowHandler[9] = "list" /\ RowHandler[10] = "mutation" /\ RowHandler[11] = "primary"
  BY DEF RowHandler
<1>5. ASSUME NEW n \in 3..11, R(n), \A k \in 3..n - 1 : ~R(k)
      PROVE  Documented(r, helmMode) = RowHandler[n]
  BY <1>5, FirstRow, Zenon
<1> HIDE DEF R, resource
<1>6. CASE R(3)
  <2>1. 3 \in 3..11 /\ \A k \in 3..3 - 1 : ~R(k)
    OBVIOUS
  <2> QED
    BY <1>3, <1>4, <1>5, <1>6, <2>1
<1>7. CASE ~R(3) /\ R(4)
  <2>1. 4 \in 3..11 /\ 3..4 - 1 = {3}
    OBVIOUS
  <2>2. R(4) /\ \A k \in 3..4 - 1 : ~R(k)
    BY <1>1, <1>7, <2>1
  <2> QED
    BY <1>3, <1>4, <1>5, <1>7, <2>1, <2>2
<1>8. CASE ~R(3) /\ ~R(4) /\ R(5)
  <2>1. 5 \in 3..11 /\ 3..5 - 1 = {3, 4}
    OBVIOUS
  <2>2. R(5) /\ \A k \in 3..5 - 1 : ~R(k)
    BY <1>1, <1>8, <2>1
  <2> QED
    BY <1>3, <1>4, <1>5, <1>8, <2>1, <2>2
<1>9. CASE ~R(3) /\ ~R(4) /\ ~R(5) /\ R(6)
  <2>1. 6 \in 3..11 /\ 3..6 - 1 = {3, 4, 5}
    OBVIOUS
  <2>2. R(6) /\ \A k \in 3..6 - 1 : ~R(k)
    BY <1>1, <1>9, <2>1
  <2> QED
    BY <1>3, <1>4, <1>5, <1>9, <2>1, <2>2
<1>10. CASE ~R(3) /\ ~R(4) /\ ~R(5) /\ ~R(6) /\ R(7)
  <2>1. 7 \in 3..11 /\ 3..7 - 1 = {3, 4, 5, 6}
    OBVIOUS
  <2>2. R(7) /\ \A k \in 3..7 - 1 : ~R(k)
    BY <1>1, <1>10, <2>1
  <2> QED
    BY <1>3, <1>4, <1>5, <1>10, <2>1, <2>2
<1>11. CASE ~R(3) /\ ~R(4) /\ ~R(5) /\ ~R(6) /\ ~R(7) /\ R(8)
  <2>1. 8 \in 3..11 /\ 3..8 - 1 = {3, 4, 5, 6, 7}
    OBVIOUS
  <2>2. R(8) /\ \A k \in 3..8 - 1 : ~R(k)
    BY <1>1, <1>11, <2>1
  <2> QED
    BY <1>3, <1>4, <1>5, <1>11, <2>1, <2>2
<1>12. CASE ~R(3) /\ ~R(4) /\ ~R(5) /\ ~R(6) /\ ~R(7) /\ ~R(8) /\ R(9)
  <2>1. 9 \in 3..11 /\ 3..9 - 1 = {3, 4, 5, 6, 7, 8}
    OBVIOUS
  <2>2. R(9) /\ \A k \in 3..9 - 1 : ~R(k)
    BY <1>1, <1>12, <2>1
  <2> QED
    BY <1>3, <1>4, <1>5, <1>12, <2>1, <2>2
<1>13. CASE ~R(3) /\ ~R(4) /\ ~R(5) /\ ~R(6) /\ ~R(7) /\ ~R(8) /\ ~R(9) /\ R(10)
  <2>1. 10 \in 3..11 /\ 3..10 - 1 = {3, 4, 5, 6, 7, 8, 9}
    OBVIOUS
  <2>2. R(10) /\ \A k \in 3..10 - 1 : ~R(k)
    BY <1>1, <1>13, <2>1
  <2> QED
    BY <1>3, <1>4, <1>5, <1>13, <2>1, <2>2
<1>14. CASE ~R(3) /\ ~R(4) /\ ~R(5) /\ ~R(6) /\ ~R(7) /\ ~R(8) /\ ~R(9) /\ ~R(10)
  <2>1. 11 \in 3..11 /\ 3..11 - 1 = {3, 4, 5, 6, 7, 8, 9, 10}
    OBVIOUS
  <2>2. R(11) /\ \A k \in 3..11 - 1 : ~R(k)
    BY <1>1, <1>14, <2>1
  <2> QED
    BY <1>3, <1>4, <1>5, <1>14, <2>1, <2>2
<1> QED
  BY <1>6, <1>7, <1>8, <1>9, <1>10, <1>11, <1>12, <1>13, <1>14, Zenon

(* ROUTING.md:41-57, routing.go:28-56 -- whatever the path, its names and  *)
(* its length, a request whose path the table decides gets the handler of  *)
(* the first row that matches, and none when the token or the read-only    *)
(* rule refuses it.                                                        *)
THEOREM Routed == Spec => RoutedAsDocumented
<1> DEFINE A == arriving
           RoutedNow == phase = "arrived" /\ ~IsUndecided(A.path) =>
                        request'.class = CASE ~A.authorized -> "unsent"
                                           [] A.authorized /\ A.readOnly /\ A.method # "GET" -> "unsent"
                                           [] OTHER -> Documented(A, A.helmMode)
<1>1. RInv /\ CInv /\ [Next]_vars => (RoutedNow \/ UNCHANGED vars)
  <2> SUFFICES ASSUME RInv, CInv, Next, phase = "arrived", ~IsUndecided(A.path)
               PROVE  RoutedNow
    OBVIOUS
  <2>1. /\ request.class = "unsent" /\ \A t \in Contexts : stage[t] = "idle" /\ late[t] = 0
    BY CountersAreNumbers DEF CInv, Staged, Unsent, Counted
  <2>2. ~ReceiveSingle /\ ~ReceiveLookup /\ ~ReceiveMutation /\ ~RejectBody /\ ~Respond /\ ~StreamEnds
    BY DEF ReceiveSingle, ReceiveLookup, ReceiveMutation, RejectBody, Respond, StreamEnds
  <2>3. ~NamedGetAnswered /\ ~PodStreamChosen /\ ~MutationChosen
    BY DEF NamedGetAnswered, PodStreamChosen, MutationChosen, Probed
  <2>4. ~ClientLeaves /\ \A t \in Contexts : ~OtherClient(t)
    BY DEF ClientLeaves, OtherClient, Handled
  <2>5. ASSUME NEW t \in Contexts PROVE ~Attempt(t)
    BY <2>1 DEF Attempt, AttemptFails, AttemptReads, AttemptWrites, AttemptTimesOut, AttemptAbandoned, Calling
  <2>6. ASSUME NEW t \in Contexts PROVE ~LateWrite(t)
    BY <2>1 DEF LateWrite
  <2>7. Dispatch
    BY <2>2, <2>3, <2>4, <2>5, <2>6 DEF Next, HandlerStep, Proceed, ReadBody
  <2>8. /\ A \in ArrivalType /\ A.method \in Methods /\ A.authorized \in BOOLEAN /\ A.readOnly \in BOOLEAN
        /\ A.path \in Seq(STRING) /\ (A.path # <<>> => A.path[Len(A.path)] # "")
    <3> DEFINE paths == {p \in Seq(STRING) : p # <<>> => p[Len(p)] # ""}
    <3>1. A \in ArrivalType
      BY ObjectAssumption DEF RInv
    <3>2. A \in [authorized : BOOLEAN, readOnly : BOOLEAN, helmMode : BOOLEAN, timeout : BOOLEAN,
                 method : Methods, path : paths,
                 watch : BOOLEAN, helmOwner : BOOLEAN,
                 json : BOOLEAN, wishes : WishType, identity : Identity \cup {Absent}]
      BY <3>1 DEF ArrivalType
    <3> HIDE DEF paths
    <3>3. A.method \in Methods /\ A.authorized \in BOOLEAN /\ A.readOnly \in BOOLEAN /\ A.path \in paths
      BY <3>2
    <3> QED
      BY <3>1, <3>3, Zenon DEF paths
  <2>9. ClassifyRequest(A, A.helmMode) = Documented(A, A.helmMode)
    BY <2>8, ClassifiedAsDocumented, Zenon DEF NoName
  <2>10. IsMutation(A.method) <=> A.method # "GET"
    <3>1. A.method \in Methods
      BY <2>8, Zenon
    <3> QED
      BY <3>1 DEF IsMutation
  <2>11. IF ~A.authorized \/ (A.readOnly /\ IsMutation(A.method))
           THEN request'.class = "unsent"
           ELSE request'.class = ClassifyRequest(A, A.helmMode)
    <3>1. request.class = "unsent"
      BY <2>1
    <3> QED
      BY <2>7, <3>1 DEF Dispatch
  <2>12. request'.class = CASE ~A.authorized -> "unsent"
                            [] A.authorized /\ A.readOnly /\ A.method # "GET" -> "unsent"
                            [] OTHER -> Documented(A, A.helmMode)
    BY <2>9, <2>10, <2>11
  <2> QED
    BY <2>12
<1> QED
  BY <1>1, RequestsStayInvariant, PTL DEF Spec, RoutedAsDocumented
==============================================================================
