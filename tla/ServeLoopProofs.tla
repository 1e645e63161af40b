--------------------------- MODULE ServeLoopProofs ---------------------------
(***************************************************************************)
(* Theorems about ServeLoop, for every set of requests and every delay.    *)
(* The inductive invariant ties the mutex-protected counter to the program *)
(* points of the handlers: the loop sees only the counter, the promises    *)
(* are about the requests.                                                 *)
(***************************************************************************)
EXTENDS ServeLoop, FiniteSetTheorems, TLAPS

(* While the process lives nothing was cut and it has no outcome; once it  *)
(* drains the loop has left its select for good, because of a change.      *)
LoopStands ==
    /\ Alive <=> outcome = "running"
    /\ Alive => \A r \in Requests : rpc[r] # "cut"
    /\ isDraining <=> cause = "change"
    /\ isDraining => loop \in {"shutdown", "stopped"}
    /\ outcome = "replaced" => isDraining

IInv ==
    /\ TypeOK
    /\ CounterIsExact
    /\ ReloadInterruptsNothing
    /\ NoLostReload
    /\ LoopStands

LEMMA InFlightFinite ==
    /\ IsFiniteSet(InFlight)
    /\ Cardinality(InFlight) \in Nat
    /\ Cardinality(InFlight) = 0 <=> InFlight = {}
<1>1. IsFiniteSet(InFlight)
  BY ConstantsAssumption, FS_Subset DEF InFlight
<1> QED
  BY <1>1, FS_CardinalityType, FS_EmptySet

(* The bounds of the counters, so that the leaves below need no arithmetic. *)
LEMMA Bounds ==
    /\ IdleDelay \in 0..IdleDelay
    /\ ShutdownTimeout \in 0..ShutdownTimeout
    /\ 0 \in 0..(TTL + 1) /\ 0 \in 0..MaxChanges /\ 0 \in 0..UnusedAge
  BY ConstantsAssumption

LEMMA InitIInv == Init => IInv
<1> SUFFICES ASSUME Init PROVE IInv
  OBVIOUS
<1>1. InFlight = {}
  BY DEF Init, InFlight, Counted
<1>2. rpc \in [Requests -> ProgramPoints]
  BY DEF Init, ProgramPoints
<1>3. TypeOK
  <2>1. /\ inFlight \in Int /\ idleFor \in 0..(TTL + 1) /\ changes \in 0..MaxChanges
        /\ timer \in 0..IdleDelay /\ deadline \in 0..ShutdownTimeout
        /\ age \in [Requests -> 0..UnusedAge] /\ quiet \in 0..(TTL + 1)
    BY Bounds DEF Init
  <2> QED
    BY <1>2, <2>1 DEF Init, TypeOK
<1>4. CounterIsExact
  BY <1>1, FS_EmptySet DEF Init, CounterIsExact
<1>5. ReloadInterruptsNothing /\ NoLostReload
  BY DEF Init, ReloadInterruptsNothing, NoLostReload
<1>6. LoopStands
  BY DEF Init, LoopStands, Alive
<1> QED
  BY <1>3, <1>4, <1>5, <1>6 DEF IInv

(* The two halves of TypeOK, which the provers handle one at a time.       *)
Counters ==
    /\ rpc \in [Requests -> ProgramPoints]
    /\ lastOut \subseteq Requests
    /\ inFlight \in Int
    /\ age \in [Requests -> 0..UnusedAge]
    /\ idleFor \in 0..(TTL + 1) /\ quiet \in 0..(TTL + 1)
    /\ late \subseteq Requests
    /\ changes \in 0..MaxChanges
    /\ timer \in 0..IdleDelay
    /\ deadline \in 0..ShutdownTimeout

Modes ==
    /\ isDraining \in BOOLEAN /\ becameIdle \in BOOLEAN
    /\ changed \in {"none", "change", "error"}
    /\ closed \in BOOLEAN
    /\ loop \in {"select", "ttlCheck", "ttlIdle", "shutdown", "stopped"}
    /\ pending \in BOOLEAN /\ armed \in BOOLEAN
    /\ ttlCh \in {"nil", "empty", "full"}
    /\ cause \in {"none", "signal", "change", "fileError", "ttl"}
    /\ outcome \in {"running", "replaced", "execFailed", "timedOut", "stopped", "failed"}

LEMMA TypeSplit == (TypeOK => Counters /\ Modes) /\ (Counters /\ Modes => TypeOK)
  BY Zenon DEF TypeOK, Counters, Modes

LEMMA CountersPreserved == Counters /\ [Next]_vars => Counters'
<1> SUFFICES ASSUME Counters, [Next]_vars PROVE Counters'
  OBVIOUS
<1> USE DEF Counters
<1>1. ASSUME UNCHANGED <<rpc, lastOut, inFlight, clockVars, changes, timer, deadline, late>>
      PROVE  Counters'
  BY <1>1 DEF clockVars
<1>2. ASSUME NEW r \in Requests, HandlerStep(r) PROVE Counters'
  <2> USE DEF ProgramPoints, Counted, Replying, Ended, clockVars, eventVars, loopVars, ttlVars
  <2>1. CASE BeginRequest(r)
    BY <2>1 DEF BeginRequest, Overlook
  <2>2. CASE StoreStart(r)
    BY <2>2, Bounds DEF StoreStart
  <2>3. CASE StoreEnd(r)
    BY <2>3, Bounds DEF StoreEnd
  <2>4. CASE FinishRequest(r)
    BY <2>4 DEF FinishRequest
  <2>5. CASE OfferToken(r)
    BY <2>5 DEF OfferToken
  <2> QED
    BY <1>2, <2>1, <2>2, <2>3, <2>4, <2>5 DEF HandlerStep
<1>3. ASSUME NEW r \in Requests, ClientStep(r) PROVE Counters'
  <2> USE Bounds DEF ProgramPoints, Counted, Replying, Ended, clockVars, eventVars, loopVars, ttlVars
  <2>1. CASE Arrive(r) \/ CloseUnused(r)
    BY <2>1 DEF Arrive, CloseUnused
  <2>2. CASE Connect(r) \/ Hijack(r) \/ HandlerReturns(r) \/ Reply(r)
    BY <2>2 DEF Connect, Hijack, HandlerReturns, Reply
  <2> QED
    BY <1>3, <2>1, <2>2 DEF ClientStep
<1>4. CASE ReportChange
  <2>1. changes + 1 \in 0..MaxChanges
    BY <1>4, ConstantsAssumption DEF ReportChange
  <2> QED
    BY <1>4, <2>1 DEF ReportChange, handlerVars, clockVars, loopVars, ttlVars
<1>5. ASSUME NEW why, BeginShutdown(why), UNCHANGED handlerVars, UNCHANGED changes,
             late' \subseteq Requests
      PROVE  Counters'
  BY <1>5, Bounds DEF BeginShutdown, handlerVars, clockVars
<1>6. CASE OnStop \/ OnFileError
  BY <1>5, <1>6 DEF OnStop, OnFileError, eventVars, ttlVars
<1>7. CASE OnRuntimeChange \/ OnBecameIdle
  <2>1. UNCHANGED <<rpc, lastOut, inFlight, clockVars, changes, deadline, late>>
    BY <1>7 DEF OnRuntimeChange, OnBecameIdle, handlerVars, eventVars, ttlVars
  <2>2. timer' = IdleDelay \/ timer' = timer
    BY <1>7 DEF OnRuntimeChange, OnBecameIdle, ResetTimer
  <2> QED
    BY <2>1, <2>2, Bounds DEF clockVars
<1>8. CASE OnReloadTimer
  <2>1. UNCHANGED handlerVars /\ UNCHANGED changes /\ UNCHANGED late
    BY <1>8 DEF OnReloadTimer, eventVars, ttlVars
  <2>2. BeginShutdown("change") \/ UNCHANGED <<timer, deadline>>
    BY <1>8 DEF OnReloadTimer
  <2> QED
    BY <1>1, <1>5, <2>1, <2>2 DEF handlerVars
<1>9. CASE ReadLastActivity
  BY <1>9 DEF ReadLastActivity, handlerVars, clockVars, eventVars
<1>9a. CASE ShutdownIdle
  BY <1>5, <1>9a DEF ShutdownIdle, eventVars
<1>10. CASE OnServeError \/ ShutdownClean \/ ShutdownTimesOut
  <2>1. PICK how : EndProcess(how)
    BY <1>10 DEF OnServeError, ShutdownClean, ShutdownTimesOut
  <2> QED
    BY <2>1, Bounds DEF EndProcess, ProgramPoints, Counted, Replying, Ended, eventVars, ttlVars
<1>11. CASE Tick
  <2>1. idleFor' \in 0..(TTL + 1) /\ timer' \in 0..IdleDelay /\ deadline' \in 0..ShutdownTimeout
    BY <1>11, ConstantsAssumption DEF Tick
  <2>2. quiet' \in 0..(TTL + 1)
    <3>1. quiet' \in {0, quiet} \/ (~(quiet > TTL) /\ quiet' = quiet + 1)
      BY <1>11 DEF Tick
    <3> QED
      BY <3>1, ConstantsAssumption
  <2>3. age' \in [Requests -> 0..UnusedAge]
    BY <1>11, ConstantsAssumption DEF Tick
  <2> QED
    BY <1>11, <2>1, <2>2, <2>3 DEF Tick, eventVars
<1>12. CASE ReportError \/ OnTTLTick \/ UNCHANGED vars
  BY <1>1, <1>12 DEF ReportError, OnTTLTick, vars, handlerVars, eventVars, loopVars, ttlVars
<1> QED
  BY <1>2, <1>3, <1>4, <1>6, <1>7, <1>8, <1>9, <1>9a, <1>10, <1>11, <1>12 DEF Next, LoopStep

LEMMA ModesPreserved == Modes /\ [Next]_vars => Modes'
<1> SUFFICES ASSUME Modes, [Next]_vars PROVE Modes'
  OBVIOUS
<1> USE DEF Modes, vars, handlerVars, eventVars, loopVars, ttlVars
<1>1. CASE UNCHANGED vars
  BY <1>1
<1>2. ASSUME NEW r \in Requests, HandlerStep(r) PROVE Modes'
  <2>1. UNCHANGED <<isDraining, eventVars, loopVars, ttlCh>> /\ becameIdle' \in BOOLEAN
    BY <1>2 DEF HandlerStep, BeginRequest, StoreStart, StoreEnd, FinishRequest, OfferToken
  <2> QED
    BY <2>1
<1>3. ASSUME NEW r \in Requests, ClientStep(r) PROVE Modes'
  BY <1>3 DEF ClientStep, Connect, Arrive, CloseUnused, Hijack, HandlerReturns, Reply, Replying
<1>4. CASE ReportChange
  BY <1>4 DEF ReportChange
<1>5. CASE ReportError
  BY <1>5 DEF ReportError
<1>6. CASE OnStop \/ OnFileError
  BY <1>6 DEF OnStop, OnFileError, BeginShutdown
<1>7. CASE OnRuntimeChange
  BY <1>7 DEF OnRuntimeChange, ResetTimer
<1>8. CASE OnBecameIdle
  <2>1. UNCHANGED <<isDraining, eventVars, loop, pending, cause, outcome, ttlCh>>
        /\ becameIdle' \in BOOLEAN /\ armed' \in BOOLEAN
    BY <1>8 DEF OnBecameIdle, ResetTimer
  <2> QED
    BY <2>1
<1>9. CASE OnReloadTimer
  <2>1. UNCHANGED <<becameIdle, eventVars, outcome, ttlCh>> /\ armed' \in BOOLEAN /\ pending' \in BOOLEAN
    BY <1>9 DEF OnReloadTimer, BeginShutdown
  <2>2. isDraining' \in BOOLEAN /\ loop' \in {"select", "shutdown"} /\ cause' \in {cause, "change"}
    BY <1>9 DEF OnReloadTimer, BeginShutdown, BeginDrainIfIdle
  <2> QED
    BY <2>1, <2>2
<1>10. CASE OnTTLTick
  BY <1>10 DEF OnTTLTick
<1>11. CASE ReadLastActivity \/ ShutdownIdle
  BY <1>11 DEF ReadLastActivity, ShutdownIdle, BeginShutdown
<1>12. CASE OnServeError \/ ShutdownClean \/ ShutdownTimesOut
  <2>1. PICK how \in {"replaced", "execFailed", "timedOut", "stopped", "failed"} : EndProcess(how)
    BY <1>12 DEF OnServeError, ShutdownClean, ShutdownTimesOut
  <2> QED
    BY <2>1 DEF EndProcess
<1>13. CASE Tick
  <2>1. UNCHANGED <<isDraining, becameIdle, eventVars, loop, pending, armed, cause, outcome>>
        /\ ttlCh' \in {ttlCh, "full"}
    BY <1>13 DEF Tick
  <2> QED
    BY <2>1
<1> QED
  BY <1>1, <1>2, <1>3, <1>4, <1>5, <1>6, <1>7, <1>8, <1>9, <1>10, <1>11, <1>12, <1>13 DEF Next, LoopStep

LEMMA TypePreserved == TypeOK /\ [Next]_vars => TypeOK'
<1> SUFFICES ASSUME TypeOK, [Next]_vars PROVE TypeOK'
  OBVIOUS
<1>1. Counters' /\ Modes'
  BY TypeSplit, CountersPreserved, ModesPreserved
<1>2. (Counters /\ Modes => TypeOK)'
  BY TypeSplit, PTL
<1> QED
  BY <1>1, <1>2

(* Only beginRequest and finishRequest move a request into or out of the   *)
(* counted program points while the process lives.                         *)
LEMMA CounterPreserved == IInv /\ [Next]_vars => CounterIsExact'
<1> SUFFICES ASSUME IInv, [Next]_vars, Alive' PROVE inFlight' = Cardinality(InFlight')
  BY DEF CounterIsExact
<1> USE DEF IInv, TypeOK, CounterIsExact, InFlight, Counted, Alive
<1>1. ASSUME InFlight' = InFlight, inFlight' = inFlight, loop # "stopped"
      PROVE inFlight' = Cardinality(InFlight')
  BY <1>1
<1>2. CASE UNCHANGED vars
  BY <1>1, <1>2 DEF vars, handlerVars, loopVars
<1>3. ASSUME NEW r \in Requests, BeginRequest(r)
      PROVE inFlight' = Cardinality(InFlight')
  <2>1. CASE isDraining
    BY <1>1, <1>3, <2>1 DEF BeginRequest, loopVars
  <2>2. CASE ~isDraining
    <3>1. InFlight' = InFlight \cup {r} /\ r \notin InFlight
      BY <1>3, <2>2 DEF BeginRequest
    <3>2. Cardinality(InFlight \cup {r}) = Cardinality(InFlight) + 1
      BY <3>1, InFlightFinite, FS_AddElement
    <3> QED
      BY <1>3, <2>2, <3>1, <3>2 DEF BeginRequest
  <2> QED
    BY <2>1, <2>2
<1>4. ASSUME NEW r \in Requests, FinishRequest(r)
      PROVE inFlight' = Cardinality(InFlight')
  <2>1. InFlight' = InFlight \ {r} /\ r \in InFlight
    BY <1>4 DEF FinishRequest
  <2>2. Cardinality(InFlight \ {r}) = Cardinality(InFlight) - 1
    BY <2>1, InFlightFinite, FS_RemoveElement
  <2> QED
    BY <1>4, <2>1, <2>2 DEF FinishRequest
<1>5. ASSUME NEW r \in Requests, StoreStart(r) \/ StoreEnd(r) \/ OfferToken(r)
      PROVE inFlight' = Cardinality(InFlight')
  BY <1>1, <1>5 DEF StoreStart, StoreEnd, OfferToken, loopVars
<1>6. ASSUME NEW r \in Requests, ClientStep(r)
      PROVE inFlight' = Cardinality(InFlight')
  <2>1. InFlight' = InFlight
    BY <1>6 DEF ClientStep, Connect, Arrive, CloseUnused, Hijack, HandlerReturns, Reply, Replying
  <2> QED
    BY <1>1, <1>6, <2>1
    DEF ClientStep, Connect, Arrive, CloseUnused, Hijack, HandlerReturns, Reply, Replying, loopVars
<1>7. CASE ReportChange \/ ReportError \/ Tick
  BY <1>1, <1>7 DEF ReportChange, ReportError, Tick, handlerVars, loopVars
<1>8. CASE OnStop \/ OnRuntimeChange \/ OnFileError \/ OnBecameIdle
  BY <1>1, <1>8 DEF OnStop, OnRuntimeChange, OnFileError, OnBecameIdle, handlerVars
<1>9. CASE OnReloadTimer \/ OnTTLTick \/ ReadLastActivity \/ ShutdownIdle
  BY <1>1, <1>9 DEF OnReloadTimer, OnTTLTick, ReadLastActivity, ShutdownIdle, handlerVars
<1>10. CASE OnServeError \/ ShutdownClean \/ ShutdownTimesOut
  BY <1>10 DEF OnServeError, ShutdownClean, ShutdownTimesOut, EndProcess
<1> QED
  BY <1>2, <1>3, <1>4, <1>5, <1>6, <1>7, <1>8, <1>9, <1>10 DEF Next, LoopStep, HandlerStep

(* The drain decision reads the counter; CounterIsExact turns the zero it  *)
(* saw into "no request is in progress".                                   *)
LEMMA DrainPreserved == IInv /\ [Next]_vars => ReloadInterruptsNothing' /\ LoopStands'
<1> SUFFICES ASSUME IInv, [Next]_vars PROVE ReloadInterruptsNothing' /\ LoopStands'
  OBVIOUS
<1> USE DEF IInv, ReloadInterruptsNothing, LoopStands, Alive
<1>0. rpc \in [Requests -> ProgramPoints]
  BY DEF TypeOK
<1>1. CASE UNCHANGED vars
  BY <1>1 DEF vars, handlerVars, loopVars
<1>2. ASSUME NEW r \in Requests, HandlerStep(r)
      PROVE ReloadInterruptsNothing' /\ LoopStands'
  BY <1>0, <1>2
  DEF HandlerStep, BeginRequest, StoreStart, StoreEnd, FinishRequest, OfferToken, Counted, loopVars
<1>3. ASSUME NEW r \in Requests, ClientStep(r)
      PROVE ReloadInterruptsNothing' /\ LoopStands'
  BY <1>0, <1>3
  DEF ClientStep, Connect, Arrive, CloseUnused, Hijack, HandlerReturns, Reply, Replying, Counted, loopVars
<1>4. CASE ReportChange \/ ReportError \/ Tick
  BY <1>4 DEF ReportChange, ReportError, Tick, handlerVars, loopVars
<1>5. CASE OnStop \/ OnFileError
  BY <1>5 DEF OnStop, OnFileError, BeginShutdown, handlerVars
<1>6. CASE OnRuntimeChange \/ OnBecameIdle
  BY <1>6 DEF OnRuntimeChange, OnBecameIdle, handlerVars
<1>7. CASE OnTTLTick \/ ReadLastActivity \/ ShutdownIdle
  BY <1>7 DEF OnTTLTick, ReadLastActivity, ShutdownIdle, BeginShutdown, handlerVars
<1>8. CASE OnReloadTimer
  <2>1. CASE BeginDrainIfIdle /\ BeginShutdown("change")
    <3>1. InFlight = {}
      BY <1>8, <2>1, InFlightFinite DEF OnReloadTimer, BeginDrainIfIdle, CounterIsExact
    <3>2. \A r \in Requests : rpc[r] \notin Counted \cup {"cut"}
      BY <1>8, <3>1 DEF OnReloadTimer, InFlight
    <3> QED
      BY <1>8, <2>1, <3>2 DEF OnReloadTimer, BeginDrainIfIdle, BeginShutdown, handlerVars
  <2>2. CASE UNCHANGED <<isDraining, loop, cause, deadline, pending, timer, outcome>>
    BY <1>8, <2>2 DEF OnReloadTimer, handlerVars
  <2> QED
    BY <1>8, <2>1, <2>2 DEF OnReloadTimer
<1>9. CASE OnServeError \/ ShutdownClean \/ ShutdownTimesOut
  <2>1. PICK how \in {"replaced", "execFailed", "timedOut", "stopped", "failed"} :
               EndProcess(how) /\ (how = "replaced" => cause = "change")
    BY <1>9 DEF OnServeError, ShutdownClean, ShutdownTimesOut
  <2>2. ASSUME NEW r \in Requests, isDraining PROVE rpc'[r] \notin Counted \cup {"cut"}
    BY <1>0, <2>1, <2>2 DEF EndProcess, ProgramPoints, Counted, Replying, Ended
  <2>3. cause' = cause
    BY <1>9 DEF OnServeError, ShutdownClean, ShutdownTimesOut, EndProcess, BeginShutdown
  <2> QED
    BY <2>1, <2>2, <2>3 DEF EndProcess
<1> QED
  BY <1>1, <1>2, <1>3, <1>4, <1>5, <1>6, <1>7, <1>8, <1>9 DEF Next, LoopStep

(* The last request to leave is the one that hands the loop its token: a   *)
(* counter that reaches zero is the only way to empty InFlight.            *)
LEMMA WakeupPreserved == IInv /\ [Next]_vars => NoLostReload'
<1> SUFFICES ASSUME IInv, [Next]_vars, loop' \in {"select", "ttlCheck", "ttlIdle"}, pending'
             PROVE armed' \/ becameIdle' \/ lastOut' # {} \/ InFlight' # {}
  BY DEF NoLostReload
<1> USE DEF IInv, NoLostReload
<1>0. rpc \in [Requests -> ProgramPoints] /\ inFlight \in Int
  BY DEF TypeOK
<1>1. CASE UNCHANGED vars
  BY <1>1 DEF vars, handlerVars, loopVars, InFlight
<1>2. ASSUME NEW r \in Requests, BeginRequest(r) \/ StoreStart(r) \/ StoreEnd(r)
      PROVE armed' \/ becameIdle' \/ lastOut' # {} \/ InFlight' # {}
  <2>1. InFlight \subseteq InFlight'
    BY <1>0, <1>2 DEF BeginRequest, StoreStart, StoreEnd, InFlight, Counted
  <2> QED
    BY <1>2, <2>1 DEF BeginRequest, StoreStart, StoreEnd, loopVars
<1>3. ASSUME NEW r \in Requests, FinishRequest(r)
      PROVE armed' \/ becameIdle' \/ lastOut' # {} \/ InFlight' # {}
  <2>1. CASE r \in lastOut'
    BY <2>1
  <2>2. CASE r \notin lastOut'
    <3>1. inFlight' # 0 /\ Alive'
      BY <1>3, <2>2 DEF FinishRequest, Alive, loopVars
    <3>2. CounterIsExact'
      BY CounterPreserved
    <3>3. InFlight' # {}
      BY <3>1, <3>2, FS_EmptySet DEF CounterIsExact
    <3> QED
      BY <3>3
  <2> QED
    BY <2>1, <2>2
<1>4. ASSUME NEW r \in Requests, OfferToken(r)
      PROVE armed' \/ becameIdle' \/ lastOut' # {} \/ InFlight' # {}
  <2>1. InFlight' = InFlight
    BY <1>0, <1>4 DEF OfferToken, InFlight, Counted
  <2>2. becameIdle' \/ lastOut' = lastOut
    BY <1>4 DEF OfferToken
  <2> QED
    BY <1>4, <2>1, <2>2 DEF OfferToken, loopVars
<1>5. ASSUME NEW r \in Requests, ClientStep(r)
      PROVE armed' \/ becameIdle' \/ lastOut' # {} \/ InFlight' # {}
  <2>1. InFlight' = InFlight
    BY <1>0, <1>5 DEF ClientStep, Connect, Arrive, CloseUnused, Hijack, HandlerReturns, Reply, Replying, InFlight, Counted
  <2> QED
    BY <1>5, <2>1 DEF ClientStep, Connect, Arrive, CloseUnused, Hijack, HandlerReturns, Reply, Replying, loopVars
<1>6. CASE ReportChange \/ ReportError \/ Tick
  BY <1>6 DEF ReportChange, ReportError, Tick, handlerVars, loopVars, InFlight
<1>7. CASE OnStop \/ OnFileError \/ OnServeError \/ ShutdownClean \/ ShutdownTimesOut
  BY <1>7 DEF OnStop, OnFileError, OnServeError, ShutdownClean, ShutdownTimesOut,
              BeginShutdown, EndProcess
<1>8. CASE OnRuntimeChange \/ OnBecameIdle
  BY <1>8 DEF OnRuntimeChange, OnBecameIdle, ResetTimer
<1>9. CASE OnTTLTick \/ ReadLastActivity \/ ShutdownIdle
  BY <1>9 DEF OnTTLTick, ReadLastActivity, ShutdownIdle, BeginShutdown, handlerVars, InFlight
<1>10. CASE OnReloadTimer
  <2>1. pending /\ inFlight # 0 /\ loop = "select"
    BY <1>10 DEF OnReloadTimer, BeginShutdown, LoopStands
  <2>2. InFlight # {}
    BY <2>1, FS_EmptySet DEF CounterIsExact, Alive
  <2> QED
    BY <1>10, <2>2 DEF OnReloadTimer, handlerVars, InFlight
<1> QED
  BY <1>1, <1>2, <1>3, <1>4, <1>5, <1>6, <1>7, <1>8, <1>9, <1>10
  DEF Next, LoopStep, HandlerStep

LEMMA IInvInvariant == Spec => []IInv
<1>1. IInv /\ [Next]_vars => IInv'
  BY TypePreserved, CounterPreserved, DrainPreserved, WakeupPreserved DEF IInv
<1> QED
  BY InitIInv, <1>1, PTL DEF Spec

(* Every state of the process has the types the code declares.             *)
THEOREM TypeCorrect == Spec => []TypeOK
  BY IInvInvariant, PTL DEF IInv

(* activity.go: the counter under the mutex counts the requests in         *)
(* progress, for any number of handlers and any interleaving.              *)
THEOREM CounterCorrect == Spec => []CounterIsExact
  BY IInvInvariant, PTL DEF IInv

(* serve.go: a reload never interrupts an admitted request.                *)
THEOREM ReloadSafe == Spec => []ReloadInterruptsNothing
  BY IInvInvariant, PTL DEF IInv

(* serve.go: a pending reload is never forgotten by the loop.              *)
THEOREM WakeupSafe == Spec => []NoLostReload
  BY IInvInvariant, PTL DEF IInv

------------------------------------------------------------------------------
(* The TTL check takes three steps.  While it is under way whatever is in  *)
(* progress was admitted after the counter was read; the clock of the code *)
(* never runs ahead of the time since a request was in the proxy handler,  *)
(* once each of those has recorded its end; and an answer that nothing has *)
(* overtaken still holds when the loop acts on it.                         *)
Inside == {"running", "hijacked", "returned"}

TTLStands ==
    /\ (\A r \in Requests : rpc[r] \notin Inside) => idleFor <= quiet
    /\ loop \in {"ttlCheck", "ttlIdle"} => InFlight \subseteq late
    /\ loop = "ttlIdle" /\ late = {} => quiet > TTL

LEMMA ClocksPreserved ==
    ASSUME IInv, TTLStands, [Next]_vars, \A r \in Requests : rpc'[r] \notin Inside
    PROVE  idleFor' <= quiet'
<1>1. rpc \in [Requests -> ProgramPoints] /\ idleFor \in 0..(TTL + 1) /\ quiet \in 0..(TTL + 1)
  BY DEF IInv, TypeOK
<1>2. TTL \in Nat
  BY ConstantsAssumption
<1>3. ASSUME UNCHANGED <<idleFor, quiet>>, \A r \in Requests : rpc[r] \in Inside => rpc'[r] \in Inside
      PROVE  idleFor' <= quiet'
  BY <1>3 DEF TTLStands
<1>4. ASSUME NEW r \in Requests, HandlerStep(r) PROVE idleFor' <= quiet'
  <2>1. CASE BeginRequest(r) \/ FinishRequest(r) \/ OfferToken(r)
    BY <1>1, <1>3, <2>1 DEF BeginRequest, FinishRequest, OfferToken, Inside, clockVars
  <2>2. CASE StoreStart(r)
    BY <1>1, <2>2 DEF StoreStart
  <2>3. CASE StoreEnd(r)
    BY <1>1, <1>2, <2>3 DEF StoreEnd
  <2> QED
    BY <1>4, <2>1, <2>2, <2>3 DEF HandlerStep
<1>5. ASSUME NEW r \in Requests, ClientStep(r) PROVE idleFor' <= quiet'
  <2>1. UNCHANGED <<idleFor, quiet>>
    BY <1>5 DEF ClientStep, Connect, Arrive, CloseUnused, Hijack, HandlerReturns, Reply, clockVars
  <2>2. \A u \in Requests : rpc[u] \in Inside => rpc'[u] \in Inside
    BY <1>1, <1>5 DEF ClientStep, Connect, Arrive, CloseUnused, Hijack, HandlerReturns, Reply, Replying, Inside
  <2> QED
    BY <1>3, <2>1, <2>2
<1>6. CASE Tick
  <2>1. rpc' = rpc /\ ~ \E r \in Requests : rpc[r] \in {"running", "hijacked"}
    BY <1>6 DEF Tick, Inside
  <2>2. idleFor <= quiet
    BY <2>1 DEF TTLStands
  <2>3. \/ UNCHANGED <<idleFor, quiet>>
        \/ /\ idleFor' = IF idleFor > TTL THEN idleFor ELSE idleFor + 1
           /\ quiet' = IF quiet > TTL THEN quiet ELSE quiet + 1
    BY <1>6, <2>1 DEF Tick
  <2> QED
    BY <1>1, <1>2, <2>2, <2>3
<1>7. CASE OnServeError \/ ShutdownClean \/ ShutdownTimesOut
  <2>1. PICK how : EndProcess(how)
    BY <1>7 DEF OnServeError, ShutdownClean, ShutdownTimesOut
  <2> QED
    BY <2>1 DEF EndProcess
<1>8. CASE ReportChange \/ ReportError \/ UNCHANGED vars
  BY <1>3, <1>8 DEF ReportChange, ReportError, vars, handlerVars, clockVars
<1>9. CASE OnStop \/ OnRuntimeChange \/ OnFileError \/ OnBecameIdle
  BY <1>3, <1>9 DEF OnStop, OnRuntimeChange, OnFileError, OnBecameIdle, handlerVars, clockVars
<1>10. CASE OnReloadTimer \/ OnTTLTick \/ ReadLastActivity \/ ShutdownIdle
  BY <1>3, <1>10 DEF OnReloadTimer, OnTTLTick, ReadLastActivity, ShutdownIdle, handlerVars, clockVars
<1> QED
  BY <1>4, <1>5, <1>6, <1>7, <1>8, <1>9, <1>10 DEF Next, LoopStep

LEMMA LatePreserved ==
    ASSUME IInv, TTLStands, [Next]_vars, loop' \in {"ttlCheck", "ttlIdle"}
    PROVE  InFlight' \subseteq late'
<1>1. rpc \in [Requests -> ProgramPoints]
  BY DEF IInv, TypeOK
<1>2. ASSUME InFlight' \subseteq InFlight, late' = late, loop' = loop \/ loop \in {"ttlCheck", "ttlIdle"}
      PROVE  InFlight' \subseteq late'
  BY <1>2 DEF TTLStands
<1>3. ASSUME NEW r \in Requests, HandlerStep(r) PROVE InFlight' \subseteq late'
  <2>1. CASE BeginRequest(r)
    <3>1. InFlight' \subseteq InFlight \cup {r} /\ (isDraining => InFlight' \subseteq InFlight)
      BY <1>1, <2>1 DEF BeginRequest, InFlight, Counted
    <3>2. loop' = loop /\ (isDraining => late' = late) /\ (~isDraining => late' = late \cup {r})
      BY <2>1 DEF BeginRequest, Overlook, loopVars
    <3> QED
      BY <3>1, <3>2 DEF TTLStands
  <2>2. CASE StoreStart(r) \/ StoreEnd(r) \/ FinishRequest(r) \/ OfferToken(r)
    <3>1. InFlight' \subseteq InFlight
      BY <1>1, <2>2 DEF StoreStart, StoreEnd, FinishRequest, OfferToken, InFlight, Counted
    <3>2. loop' = loop /\ late' = late
      BY <2>2 DEF StoreStart, StoreEnd, FinishRequest, OfferToken, loopVars, ttlVars
    <3> QED
      BY <1>2, <3>1, <3>2
  <2> QED
    BY <1>3, <2>1, <2>2 DEF HandlerStep
<1>4. ASSUME NEW r \in Requests, ClientStep(r) PROVE InFlight' \subseteq late'
  <2>1. InFlight' \subseteq InFlight
    BY <1>1, <1>4 DEF ClientStep, Connect, Arrive, CloseUnused, Hijack, HandlerReturns, Reply, Replying,
                      InFlight, Counted
  <2>2. loop' = loop /\ late' = late
    BY <1>4 DEF ClientStep, Connect, Arrive, CloseUnused, Hijack, HandlerReturns, Reply, loopVars, ttlVars
  <2> QED
    BY <1>2, <2>1, <2>2
<1>5. CASE OnTTLTick
  <2>1. inFlight = Cardinality(InFlight) /\ ~(inFlight > 0) /\ rpc' = rpc
    BY <1>5 DEF OnTTLTick, IInv, CounterIsExact, Alive, handlerVars
  <2>2. InFlight = {}
    BY <2>1, InFlightFinite
  <2> QED
    BY <2>1, <2>2 DEF InFlight
<1>6. CASE ReadLastActivity
  <2>1. rpc' = rpc /\ loop = "ttlCheck" /\ late' = late
    BY <1>6 DEF ReadLastActivity, handlerVars
  <2> QED
    BY <1>2, <2>1 DEF InFlight
<1>7. CASE ReportChange \/ ReportError \/ OnRuntimeChange \/ OnBecameIdle \/ Tick \/ UNCHANGED vars
  <2>1. rpc' = rpc /\ loop' = loop /\ late' = late
    BY <1>7 DEF ReportChange, ReportError, OnRuntimeChange, OnBecameIdle, Tick, vars, handlerVars, loopVars, ttlVars
  <2> QED
    BY <1>2, <2>1 DEF InFlight
<1>8. CASE OnStop \/ OnFileError \/ OnReloadTimer \/ ShutdownIdle
  BY <1>8 DEF OnStop, OnFileError, OnReloadTimer, ShutdownIdle, BeginShutdown
<1>9. CASE OnServeError \/ ShutdownClean \/ ShutdownTimesOut
  BY <1>9 DEF OnServeError, ShutdownClean, ShutdownTimesOut, EndProcess
<1> QED
  BY <1>3, <1>4, <1>5, <1>6, <1>7, <1>8, <1>9 DEF Next, LoopStep

LEMMA AnswerPreserved ==
    ASSUME IInv, TTLStands, [Next]_vars, loop' = "ttlIdle", late' = {}
    PROVE  quiet' > TTL
<1>1. rpc \in [Requests -> ProgramPoints] /\ idleFor \in 0..(TTL + 1) /\ quiet \in 0..(TTL + 1)
  BY DEF IInv, TypeOK
<1>2. TTL \in Nat
  BY ConstantsAssumption
<1>3. ASSUME loop = "ttlIdle", late = {}, quiet' = quiet PROVE quiet' > TTL
  BY <1>3 DEF TTLStands
<1>4. ASSUME NEW r \in Requests, HandlerStep(r) PROVE quiet' > TTL
  <2>1. loop = "ttlIdle"
    BY <1>4 DEF HandlerStep, BeginRequest, StoreStart, StoreEnd, FinishRequest, OfferToken, loopVars
  <2>2. CASE BeginRequest(r)
    <3>1. late = {}
      BY <2>1, <2>2 DEF BeginRequest, Overlook
    <3> QED
      BY <1>3, <2>1, <2>2, <3>1 DEF BeginRequest, clockVars
  <2>3. CASE StoreStart(r)
    <3>1. late = {} /\ r \in InFlight
      BY <2>3 DEF StoreStart, ttlVars, InFlight, Counted
    <3> QED
      BY <2>1, <3>1 DEF TTLStands
  <2>4. CASE StoreEnd(r) \/ FinishRequest(r) \/ OfferToken(r)
    BY <1>3, <2>1, <2>4 DEF StoreEnd, FinishRequest, OfferToken, clockVars, ttlVars
  <2> QED
    BY <1>4, <2>2, <2>3, <2>4 DEF HandlerStep
<1>5. ASSUME NEW r \in Requests, ClientStep(r) PROVE quiet' > TTL
  BY <1>3, <1>5 DEF ClientStep, Connect, Arrive, CloseUnused, Hijack, HandlerReturns, Reply,
                    clockVars, loopVars, ttlVars
<1>6. CASE ReadLastActivity
  <2>1. loop = "ttlCheck" /\ idleFor > TTL /\ late = {} /\ quiet' = quiet
    BY <1>6 DEF ReadLastActivity, handlerVars, clockVars
  <2>2. \A r \in Requests : rpc[r] \notin Inside
    BY <2>1 DEF TTLStands, InFlight, Counted, Inside
  <2>3. idleFor <= quiet
    BY <2>2 DEF TTLStands
  <2> QED
    BY <1>1, <1>2, <2>1, <2>3
<1>7. CASE Tick
  <2>1. loop = "ttlIdle" /\ late = {}
    BY <1>7 DEF Tick
  <2>2. quiet > TTL /\ ~ \E r \in Requests : rpc[r] \in {"running", "hijacked"}
    BY <2>1 DEF TTLStands, InFlight, Counted
  <2>3. quiet' = quiet
    BY <1>7, <2>2 DEF Tick
  <2> QED
    BY <2>2, <2>3
<1>8. CASE ReportChange \/ ReportError \/ OnRuntimeChange \/ OnBecameIdle \/ UNCHANGED vars
  BY <1>3, <1>8 DEF ReportChange, ReportError, OnRuntimeChange, OnBecameIdle, vars, handlerVars, clockVars,
                    loopVars, ttlVars
<1>9. CASE OnStop \/ OnFileError \/ OnReloadTimer \/ OnTTLTick \/ ShutdownIdle
  BY <1>9 DEF OnStop, OnFileError, OnReloadTimer, OnTTLTick, ShutdownIdle, BeginShutdown
<1>10. CASE OnServeError \/ ShutdownClean \/ ShutdownTimesOut
  BY <1>10 DEF OnServeError, ShutdownClean, ShutdownTimesOut, EndProcess
<1> QED
  BY <1>4, <1>5, <1>6, <1>7, <1>8, <1>9, <1>10 DEF Next, LoopStep

(* README.md:167-169 -- when the TTL ends the server, no request is in     *)
(* progress and none was in the proxy handler for the TTL, but for those   *)
(* admitted after the counter was read.                                    *)
THEOREM TTLEndsQuiet == Spec => TTLEndsQuietServers
<1> DEFINE Quiet == cause' = "ttl" /\ cause # "ttl" =>
                      InFlight \subseteq late /\ (late = {} => quiet > TTL)
<1>1. Init => TTLStands
  BY DEF Init, TTLStands
<1>2. IInv /\ TTLStands /\ [Next]_vars => TTLStands'
  <2> SUFFICES ASSUME IInv, TTLStands, [Next]_vars PROVE TTLStands'
    OBVIOUS
  <2>1. ((\A r \in Requests : rpc[r] \notin Inside) => idleFor <= quiet)'
    BY ClocksPreserved DEF Inside
  <2>2. (loop \in {"ttlCheck", "ttlIdle"} => InFlight \subseteq late)'
    BY LatePreserved
  <2>3. (loop = "ttlIdle" /\ late = {} => quiet > TTL)'
    BY AnswerPreserved
  <2> QED
    BY <2>1, <2>2, <2>3 DEF TTLStands
<1>3. TTLStands /\ [Next]_vars => [Quiet]_vars
  <2> SUFFICES ASSUME TTLStands, Next, cause' = "ttl", cause # "ttl"
               PROVE  InFlight \subseteq late /\ (late = {} => quiet > TTL)
    OBVIOUS
  <2>1. ShutdownIdle
    BY DEF Next, LoopStep, HandlerStep, BeginRequest, StoreStart, StoreEnd, FinishRequest, OfferToken,
           ClientStep, Connect, Arrive, CloseUnused, Hijack, HandlerReturns, Reply, ReportChange, ReportError,
           OnStop, OnRuntimeChange, OnFileError, OnBecameIdle, OnReloadTimer, OnTTLTick, ReadLastActivity,
           OnServeError, ShutdownClean, ShutdownTimesOut, EndProcess, BeginShutdown, Tick, loopVars
  <2> QED
    BY <2>1 DEF ShutdownIdle, TTLStands
<1>4. Spec => []TTLStands
  BY <1>1, <1>2, IInvInvariant, PTL DEF Spec
<1> QED
  BY <1>3, <1>4, PTL DEF Spec, TTLEndsQuietServers

------------------------------------------------------------------------------
(* Refinement: which abstract step each step of the process is.            *)

LEMMA Unmoved ==
    ASSUME Mode' = Mode, InFlight' = InFlight, Interrupted' = Interrupted
    PROVE  [Lifecycle!LifecycleNext]_Lifecycle!lvars
  BY DEF Lifecycle!lvars

LEMMA InitRefines == Init => Lifecycle!LifecycleInit
  BY DEF Init, Mode, InFlight, Interrupted, Counted, Lifecycle!LifecycleInit

LEMMA StepRefines == IInv /\ IInv' /\ [Next]_vars => [Lifecycle!LifecycleNext]_Lifecycle!lvars
<1> SUFFICES ASSUME IInv, IInv', [Next]_vars
             PROVE [Lifecycle!LifecycleNext]_Lifecycle!lvars
  OBVIOUS
<1>0. /\ rpc \in [Requests -> ProgramPoints] /\ isDraining \in BOOLEAN
      /\ Alive <=> outcome = "running"
  BY DEF IInv, TypeOK, LoopStands
<1>1. CASE UNCHANGED vars
  <2>1. Mode' = Mode /\ InFlight' = InFlight /\ Interrupted' = Interrupted
    BY <1>1 DEF vars, handlerVars, loopVars, Mode, InFlight, Interrupted
  <2> QED
    BY <2>1, Unmoved
<1>2. ASSUME NEW r \in Requests, BeginRequest(r)
      PROVE [Lifecycle!LifecycleNext]_Lifecycle!lvars
  <2>1. Mode' = Mode /\ Interrupted' = Interrupted
    BY <1>0, <1>2 DEF BeginRequest, Mode, Interrupted, loopVars
  <2>2. CASE isDraining
    <3>1. InFlight' = InFlight
      BY <1>0, <1>2, <2>2 DEF BeginRequest, InFlight, Counted
    <3> QED
      BY <2>1, <3>1, Unmoved
  <2>3. CASE ~isDraining
    <3>1. InFlight' = InFlight \cup {r} /\ Mode = "open"
      BY <1>0, <1>2, <2>3 DEF BeginRequest, InFlight, Counted, Mode
    <3> QED
      BY <2>1, <3>1 DEF Lifecycle!LifecycleNext, Lifecycle!Admit
  <2> QED
    BY <2>2, <2>3
<1>3. ASSUME NEW r \in Requests, FinishRequest(r)
      PROVE [Lifecycle!LifecycleNext]_Lifecycle!lvars
  <2>1. Mode' = Mode /\ Interrupted' = Interrupted
    BY <1>0, <1>3 DEF FinishRequest, Mode, Interrupted, loopVars
  <2>2. r \in InFlight /\ InFlight' = InFlight \ {r}
    BY <1>0, <1>3 DEF FinishRequest, InFlight, Counted
  <2> QED
    BY <2>1, <2>2 DEF Lifecycle!LifecycleNext, Lifecycle!Complete
<1>4. ASSUME NEW r \in Requests, StoreStart(r) \/ StoreEnd(r) \/ OfferToken(r)
      PROVE [Lifecycle!LifecycleNext]_Lifecycle!lvars
  <2>1. InFlight' = InFlight /\ Interrupted' = Interrupted
    BY <1>0, <1>4 DEF StoreStart, StoreEnd, OfferToken, InFlight, Interrupted, Counted
  <2>2. Mode' = Mode
    BY <1>4 DEF StoreStart, StoreEnd, OfferToken, Mode, loopVars
  <2> QED
    BY <2>1, <2>2, Unmoved
<1>5. ASSUME NEW r \in Requests, ClientStep(r)
      PROVE [Lifecycle!LifecycleNext]_Lifecycle!lvars
  <2> USE DEF ClientStep, Connect, Arrive, CloseUnused, Hijack, HandlerReturns, Reply, Replying
  <2>1. InFlight' = InFlight /\ Interrupted' = Interrupted
    BY <1>0, <1>5 DEF InFlight, Interrupted, Counted
  <2>2. Mode' = Mode
    BY <1>5 DEF Mode, loopVars
  <2> QED
    BY <2>1, <2>2, Unmoved
<1>6. CASE ReportChange \/ ReportError \/ Tick
  <2>1. Mode' = Mode /\ InFlight' = InFlight /\ Interrupted' = Interrupted
    BY <1>6 DEF ReportChange, ReportError, Tick, handlerVars, loopVars, Mode, InFlight, Interrupted
  <2> QED
    BY <2>1, Unmoved
<1>7. CASE OnStop \/ OnFileError \/ OnRuntimeChange \/ OnBecameIdle \/ OnTTLTick
            \/ ReadLastActivity \/ ShutdownIdle
  <2>1. rpc' = rpc /\ isDraining' = isDraining /\ outcome' = outcome
    BY <1>7 DEF OnStop, OnFileError, OnRuntimeChange, OnBecameIdle, OnTTLTick, ReadLastActivity,
                ShutdownIdle,                 BeginShutdown, handlerVars
  <2>2. Mode' = Mode /\ InFlight' = InFlight /\ Interrupted' = Interrupted
    BY <2>1 DEF Mode, InFlight, Interrupted
  <2> QED
    BY <2>2, Unmoved
<1>8. CASE OnReloadTimer
  <2>1. rpc' = rpc /\ outcome' = outcome
    BY <1>8 DEF OnReloadTimer, BeginShutdown, handlerVars
  <2>2. InFlight' = InFlight /\ Interrupted' = Interrupted
    BY <2>1 DEF InFlight, Interrupted
  <2>3. CASE isDraining' = isDraining
    <3>1. Mode' = Mode
      BY <2>1, <2>3 DEF Mode
    <3> QED
      BY <2>2, <3>1, Unmoved
  <2>4. CASE BeginDrainIfIdle
    <3>1. InFlight = {}
      BY <1>8, <2>4, InFlightFinite DEF IInv, CounterIsExact, OnReloadTimer, BeginDrainIfIdle, Alive
    <3>2. Mode = "open" /\ Mode' = "draining"
      BY <1>0, <1>8, <2>1, <2>4 DEF OnReloadTimer, BeginDrainIfIdle, Mode, Alive
    <3> QED
      BY <2>2, <3>1, <3>2 DEF Lifecycle!LifecycleNext, Lifecycle!BeginReplacement
  <2> QED
    BY <1>8, <2>3, <2>4 DEF OnReloadTimer
<1>9. CASE OnServeError \/ ShutdownClean \/ ShutdownTimesOut
  <2>1. PICK how \in {"replaced", "execFailed", "timedOut", "stopped", "failed"} : EndProcess(how)
    BY <1>9 DEF OnServeError, ShutdownClean, ShutdownTimesOut
  <2>2. Mode \in {"open", "draining"}
    BY <1>0, <1>9 DEF OnServeError, ShutdownClean, ShutdownTimesOut, Mode, Alive
  <2>3. InFlight' = {}
    BY <2>1 DEF EndProcess, InFlight, Counted
  <2>4. CASE how = "replaced"
    <3>1. Mode' = "replaced" /\ isDraining' /\ isDraining' = isDraining
      BY <2>1, <2>4 DEF EndProcess, Mode, IInv, LoopStands
    <3>2. InFlight = {} /\ Interrupted = {} /\ Interrupted' = {}
      BY <3>1 DEF IInv, ReloadInterruptsNothing, InFlight, Interrupted
    <3>3. Mode = "draining"
      BY <1>0, <1>9, <3>1 DEF OnServeError, ShutdownClean, ShutdownTimesOut, Mode, Alive
    <3> QED
      BY <2>3, <3>1, <3>2, <3>3 DEF Lifecycle!LifecycleNext, Lifecycle!Replace
  <2>5. CASE how # "replaced"
    <3>1. Mode' = "exited"
      BY <2>1, <2>5 DEF EndProcess, Mode
    <3>2. \A r \in Requests : rpc[r] # "cut"
      BY <1>9 DEF OnServeError, ShutdownClean, ShutdownTimesOut, IInv, LoopStands, Alive
    <3>3. Interrupted' = InFlight
      BY <1>0, <2>1, <3>2 DEF EndProcess, Interrupted, InFlight, Counted, Replying
    <3> QED
      BY <2>2, <2>3, <3>1, <3>3 DEF Lifecycle!LifecycleNext, Lifecycle!Exit
  <2> QED
    BY <2>4, <2>5
<1> QED
  BY <1>1, <1>2, <1>3, <1>4, <1>5, <1>6, <1>7, <1>8, <1>9 DEF Next, LoopStep, HandlerStep

(* The process implements ServeLifecycle: it is only ever replaced through *)
(* a drain that began with nothing in progress, and only an exit cuts.     *)
THEOREM LifecycleImplemented == Spec => ImplementsLifecycle
<1>1. IInv /\ IInv' /\ [Next]_vars => [Lifecycle!LifecycleNext]_Lifecycle!lvars
  BY StepRefines
<1> QED
  BY InitRefines, IInvInvariant, <1>1, PTL
  DEF Spec, ImplementsLifecycle, Lifecycle!LifecycleSpec
==============================================================================
