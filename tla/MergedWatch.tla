----------------------------- MODULE MergedWatch -----------------------------
(***************************************************************************)
(* What an aggregate watch promises its client: one stream in which each   *)
(* target's events arrive in that target's order, without a gap, and every *)
(* versioned event carries the position the client has then reached in     *)
(* every target.  A client that resumes from the last position it saw      *)
(* neither misses nor repeats an event: a watch that is asked to start at  *)
(* a position starts there or is refused.                                  *)
(***************************************************************************)
EXTENDS Naturals

CONSTANTS
    Targets,
    NoStamp      \* what an event without a resource version carries

VARIABLES
    asked,       \* the position the client asks to start at, or NoStamp
    state,       \* "waiting" for the response header, "open" or "closed"
    position,    \* the version of each target the client has reached
    stamp        \* the position carried by the last event, or NoStamp

mvars == <<asked, state, position, stamp>>

MergedInit ==
    /\ asked \in {NoStamp} \cup [Targets -> Nat]
    /\ state = "waiting"
    /\ position = [t \in Targets |-> 0]
    /\ stamp = NoStamp

(* The response header: every stream is open and starts somewhere, where   *)
(* it was asked to if it was; 0 is no version of a target to start at.     *)
Open ==
    /\ state = "waiting"
    /\ state' = "open"
    /\ position' \in [Targets -> Nat]
    /\ asked # NoStamp => position' = asked /\ \A t \in Targets : asked[t] # 0
    /\ UNCHANGED <<asked, stamp>>

Refuse == state = "waiting" /\ state' = "closed" /\ UNCHANGED <<asked, position, stamp>>

Event(t) ==
    /\ state = "open"
    /\ position' = [position EXCEPT ![t] = @ + 1]
    /\ stamp' = position'
    /\ UNCHANGED <<asked, state>>

(* The objects that exist when the watch starts carry the start position.  *)
InitialEvent == state = "open" /\ stamp' = position /\ UNCHANGED <<asked, state, position>>

UnversionedEvent == state = "open" /\ stamp' = NoStamp /\ UNCHANGED <<asked, state, position>>

Close == state = "open" /\ state' = "closed" /\ UNCHANGED <<asked, position, stamp>>

MergedNext ==
    \/ Open \/ Refuse \/ Close
    \/ InitialEvent \/ UnversionedEvent
    \/ \E t \in Targets : Event(t)

MergedSpec == MergedInit /\ [][MergedNext]_mvars
=============================================================================
