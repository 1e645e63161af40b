------------------------------ MODULE ServeLoop ------------------------------
(***************************************************************************)
(* One `kubeconfig-proxy serve` process: the activity wrapper around the   *)
(* proxy handler (cmd/kubeconfig-proxy/activity.go), the select loop that  *)
(* decides when the process ends (serve.go, serveHTTP) and the part of     *)
(* http.Server.Shutdown the loop depends on.                               *)
(*                                                                         *)
(* Request handlers and the loop are separate goroutines.  Each critical   *)
(* section of the mutex, each atomic store and each channel operation is a *)
(* step of its own, so handlers interleave with the loop between them.     *)
(* Time is counted in ticks: the idle-delay timer and the Shutdown timeout *)
(* count down, and idleFor is the age of lastActivity, saturated just      *)
(* above the TTL.  quiet and late are history variables: what the code     *)
(* does not know of the requests when its TTL ends the server.             *)
(***************************************************************************)
EXTENDS Integers, FiniteSets

CONSTANTS
    Requests,         \* proxied requests a client may send
    Upgrades,         \* those whose connection net/http hands over (exec, attach, port-forward)
    IdleDelay,        \* runtimeReloadIdleDelay, in ticks
    ShutdownTimeout,  \* shutdownTimeout, in ticks
    UnusedAge,        \* the age at which Shutdown closes a connection without a request
    TTL,              \* proxyTTL, in ticks, of a server that has one
    MaxChanges        \* bound on the file changes reported to the loop

ASSUME ConstantsAssumption ==
    /\ IsFiniteSet(Requests)
    /\ Upgrades \subseteq Requests
    /\ IdleDelay \in Nat \ {0}
    /\ ShutdownTimeout \in Nat \ {0}
    /\ UnusedAge \in Nat \ {0}
    /\ TTL \in Nat \ {0}
    /\ MaxChanges \in Nat

VARIABLES
    rpc,           \* where each request stands in ServeHTTP
    age,           \* ticks its connection has been open without a request
    lastOut,       \* requests whose finishRequest returned true, token not yet offered
    inFlight,      \* activityHandler.inFlight
    isDraining,    \* activityHandler.isDraining
    becameIdle,    \* a token is in the channel becameIdle (capacity one)
    idleFor,       \* ticks since lastActivity was stored
    quiet,         \* ticks since a request was last inside the proxy handler
    late,          \* requests admitted since the TTL check read the counter
    changed,       \* the event in the channel runtimeChanged (capacity one), or "none"
    changes,       \* file changes reported so far
    closed,        \* the watcher has closed runtimeChanged
    loop,          \* where the select loop stands
    pending,       \* pendingRuntimeChange # nil
    armed,         \* reloadTimerCh # nil
    timer,         \* ticks until reloadTimer fires; 0 is a fired timer
    ttlCh,         \* the TTL ticker's channel: nil without a TTL, empty, or holding a tick
    cause,         \* why the loop called Shutdown
    deadline,      \* ticks left to Shutdown
    outcome        \* how the process ended, "running" until it does

clockVars == <<idleFor, quiet, age>>
handlerVars == <<rpc, lastOut, inFlight, becameIdle, clockVars>>
eventVars == <<changed, changes, closed>>
loopVars == <<loop, pending, armed, timer, cause, deadline, outcome>>
ttlVars == <<ttlCh, late>>
vars == <<handlerVars, isDraining, eventVars, loopVars, ttlVars>>

(* A request's program points.  "connected": the connection is accepted and *)
(* no header has been read; "arrived": ServeHTTP entered; "begun":          *)
(* beginRequest returned true; "running": inside the proxy handler, and     *)
(* "hijacked" there once the connection was upgraded; "returned": the       *)
(* handler returned; "stored": lastActivity stored by the deferred          *)
(* function; "leaving": finishRequest returned.  "refused" and "replying":  *)
(* ServeHTTP returned, but net/http has not sent the whole response or not  *)
(* read the whole request, and neither has a deadline (serve.go:176-180).   *)
(* "closed", "unanswered" and "cut" ended without a whole response: before  *)
(* they were admitted or refused, after ServeHTTP, and under the handler.   *)
Counted == {"begun", "running", "hijacked", "returned", "stored"}
Replying == {"refused", "replying"}
Ended == {"done", "closed", "unanswered", "cut"}
ProgramPoints ==
    {"out", "connected", "arrived", "leaving"} \cup Counted \cup Replying \cup Ended

InFlight == {r \in Requests : rpc[r] \in Counted}

(* The requests whose connection Shutdown waits for: it does not track a   *)
(* hijacked connection, it closes the ones that stayed unused, and a       *)
(* request owns its connection until its response is complete.             *)
Tracked == {r \in Requests :
              \/ rpc[r] = "connected" /\ age[r] < UnusedAge
              \/ rpc[r] \in {"arrived", "begun", "running"} \cup Replying
              \/ rpc[r] \in {"returned", "stored", "leaving"} /\ r \notin Upgrades}

TypeOK ==
    /\ rpc \in [Requests -> ProgramPoints]
    /\ lastOut \subseteq Requests
    /\ inFlight \in Int
    /\ isDraining \in BOOLEAN /\ becameIdle \in BOOLEAN
    /\ age \in [Requests -> 0..UnusedAge]
    /\ idleFor \in 0..(TTL + 1) /\ quiet \in 0..(TTL + 1)
    /\ late \subseteq Requests
    /\ changed \in {"none", "change", "error"}
    /\ changes \in 0..MaxChanges
    /\ closed \in BOOLEAN
    /\ loop \in {"select", "ttlCheck", "ttlIdle", "shutdown", "stopped"}
    /\ pending \in BOOLEAN /\ armed \in BOOLEAN /\ ttlCh \in {"nil", "empty", "full"}
    /\ timer \in 0..IdleDelay
    /\ cause \in {"none", "signal", "change", "fileError", "ttl"}
    /\ deadline \in 0..ShutdownTimeout
    /\ outcome \in {"running", "replaced", "execFailed", "timedOut", "stopped", "failed"}

Init ==
    /\ rpc = [r \in Requests |-> "out"]
    /\ lastOut = {}
    /\ inFlight = 0
    /\ isDraining = FALSE /\ becameIdle = FALSE
    /\ age = [r \in Requests |-> 0]
    /\ idleFor = 0 /\ quiet = 0 /\ late = {}
    /\ changed = "none" /\ changes = 0 /\ closed = FALSE
    /\ loop = "select"
    /\ pending = FALSE /\ armed = FALSE /\ timer = IdleDelay
    /\ ttlCh \in {"nil", "empty"}
    /\ cause = "none" /\ deadline = ShutdownTimeout /\ outcome = "running"

Alive == loop # "stopped"
------------------------------------------------------------------------------
(* The request handlers: activityHandler.ServeHTTP.                        *)

(* The listener accepts connections until Shutdown closes it.              *)
Connect(r) ==
    /\ loop \in {"select", "ttlCheck", "ttlIdle"}
    /\ rpc[r] = "out"
    /\ rpc' = [rpc EXCEPT ![r] = "connected"]
    /\ UNCHANGED <<lastOut, inFlight, isDraining, becameIdle, clockVars, eventVars, loopVars, ttlVars>>

(* The header is read and the request is not the readiness probe.          *)
Arrive(r) ==
    /\ Alive /\ rpc[r] = "connected"
    /\ rpc' = [rpc EXCEPT ![r] = "arrived"]
    /\ age' = [age EXCEPT ![r] = 0]
    /\ UNCHANGED <<lastOut, inFlight, isDraining, becameIdle, idleFor, quiet, eventVars, loopVars, ttlVars>>

(* Shutdown closes a connection that is old and has brought no request.    *)
CloseUnused(r) ==
    /\ loop = "shutdown" /\ rpc[r] = "connected" /\ age[r] = UnusedAge
    /\ rpc' = [rpc EXCEPT ![r] = "closed"]
    /\ age' = [age EXCEPT ![r] = 0]
    /\ UNCHANGED <<lastOut, inFlight, isDraining, becameIdle, idleFor, quiet, eventVars, loopVars, ttlVars>>

(* The requests a TTL check that is under way overlooks.                   *)
Overlook(r) == late' = IF loop \in {"ttlCheck", "ttlIdle"} THEN late \cup {r} ELSE late

(* Mutant: the request is counted before isDraining is looked at.          *)
BeginRequestCountsFirst(r) ==
    /\ Alive /\ rpc[r] = "arrived"
    /\ inFlight' = inFlight + 1
    /\ rpc' = [rpc EXCEPT ![r] = IF isDraining THEN "refused" ELSE "begun"]
    /\ Overlook(r)
    /\ UNCHANGED <<lastOut, isDraining, becameIdle, clockVars, eventVars, loopVars, ttlCh>>

(* Mutant: beginRequest does not look at isDraining.                       *)
BeginRequestAlways(r) ==
    /\ Alive /\ rpc[r] = "arrived"
    /\ inFlight' = inFlight + 1
    /\ rpc' = [rpc EXCEPT ![r] = "begun"]
    /\ Overlook(r)
    /\ UNCHANGED <<lastOut, isDraining, becameIdle, clockVars, eventVars, loopVars, ttlCh>>

(* beginRequest; a draining server answers 503 in place of the handler.    *)
BeginRequest(r) ==
    /\ Alive /\ rpc[r] = "arrived"
    /\ IF isDraining
         THEN /\ rpc' = [rpc EXCEPT ![r] = "refused"]
              /\ UNCHANGED <<inFlight, late>>
         ELSE /\ rpc' = [rpc EXCEPT ![r] = "begun"]
              /\ inFlight' = inFlight + 1
              /\ Overlook(r)
    /\ UNCHANGED <<lastOut, isDraining, becameIdle, clockVars, eventVars, loopVars, ttlCh>>

StoreStart(r) ==
    /\ Alive /\ rpc[r] = "begun"
    /\ rpc' = [rpc EXCEPT ![r] = "running"]
    /\ idleFor' = 0 /\ quiet' = 0
    /\ UNCHANGED <<lastOut, inFlight, isDraining, becameIdle, age, eventVars, loopVars, ttlVars>>

Hijack(r) ==
    /\ Alive /\ r \in Upgrades /\ rpc[r] = "running"
    /\ rpc' = [rpc EXCEPT ![r] = "hijacked"]
    /\ UNCHANGED <<lastOut, inFlight, isDraining, becameIdle, clockVars, eventVars, loopVars, ttlVars>>

(* The proxy handler returns when it likes: a watch may run for ever.  An  *)
(* upgrade that an upstream refuses is an ordinary request.                *)
HandlerReturns(r) ==
    /\ Alive
    /\ rpc[r] = IF r \in Upgrades THEN "hijacked" ELSE "running"
    /\ rpc' = [rpc EXCEPT ![r] = "returned"]
    /\ UNCHANGED <<lastOut, inFlight, isDraining, becameIdle, clockVars, eventVars, loopVars, ttlVars>>

(* Mutant: only the start of a request is recorded as activity.            *)
StoreEndForgotten(r) ==
    /\ Alive /\ rpc[r] = "returned"
    /\ rpc' = [rpc EXCEPT ![r] = "stored"]
    /\ UNCHANGED <<lastOut, inFlight, isDraining, becameIdle, clockVars, eventVars, loopVars, ttlVars>>

StoreEnd(r) ==
    /\ Alive /\ rpc[r] = "returned"
    /\ rpc' = [rpc EXCEPT ![r] = "stored"]
    /\ idleFor' = 0
    /\ UNCHANGED <<lastOut, inFlight, isDraining, becameIdle, quiet, age, eventVars, loopVars, ttlVars>>

(* Mutant: finishRequest compares the count from before the decrement.     *)
FinishRequestComparesFirst(r) ==
    /\ Alive /\ rpc[r] = "stored"
    /\ rpc' = [rpc EXCEPT ![r] = "leaving"]
    /\ inFlight' = inFlight - 1
    /\ lastOut' = IF inFlight = 0 THEN lastOut \cup {r} ELSE lastOut
    /\ UNCHANGED <<isDraining, becameIdle, clockVars, eventVars, loopVars, ttlVars>>

FinishRequest(r) ==
    /\ Alive /\ rpc[r] = "stored"
    /\ rpc' = [rpc EXCEPT ![r] = "leaving"]
    /\ inFlight' = inFlight - 1
    /\ lastOut' = IF inFlight' = 0 THEN lastOut \cup {r} ELSE lastOut
    /\ UNCHANGED <<isDraining, becameIdle, clockVars, eventVars, loopVars, ttlVars>>

(* The deferred function's non-blocking send: a full channel drops it.     *)
(* The connection of an upgraded request is no longer net/http's.          *)
OfferToken(r) ==
    /\ Alive /\ rpc[r] = "leaving"
    /\ rpc' = [rpc EXCEPT ![r] = IF r \in Upgrades THEN "done" ELSE "replying"]
    /\ lastOut' = lastOut \ {r}
    /\ becameIdle' = (becameIdle \/ r \in lastOut)
    /\ UNCHANGED <<inFlight, isDraining, clockVars, eventVars, loopVars, ttlVars>>

(* The client has taken the whole response and sent the whole request.     *)
Reply(r) ==
    /\ Alive /\ rpc[r] \in Replying
    /\ rpc' = [rpc EXCEPT ![r] = "done"]
    /\ UNCHANGED <<lastOut, inFlight, isDraining, becameIdle, clockVars, eventVars, loopVars, ttlVars>>
------------------------------------------------------------------------------
(* The watcher's end of runtimeChanged, as sendRuntimeFileEvent uses it.   *)

ReportChange ==
    /\ Alive /\ ~closed /\ changed = "none" /\ changes < MaxChanges
    /\ changed' = "change"
    /\ changes' = changes + 1
    /\ UNCHANGED <<handlerVars, isDraining, closed, loopVars, ttlVars>>

(* A removed or unreadable file is reported once; the channel is closed.   *)
ReportError ==
    /\ Alive /\ ~closed /\ changed = "none"
    /\ changed' = "error"
    /\ closed' = TRUE
    /\ UNCHANGED <<handlerVars, isDraining, changes, loopVars, ttlVars>>
------------------------------------------------------------------------------
(* The select loop of serveHTTP.  Only one case runs per iteration; which  *)
(* of the ready ones is select's choice.                                   *)

(* shutdownServer is called: the listener closes and the timeout starts.   *)
(* The loop is left, and its timer and pending change with it.             *)
BeginShutdown(why) ==
    /\ loop' = "shutdown"
    /\ cause' = why
    /\ deadline' = ShutdownTimeout
    /\ pending' = FALSE /\ armed' = FALSE /\ timer' = IdleDelay
    /\ UNCHANGED outcome

OnStop ==
    /\ loop = "select"
    /\ BeginShutdown("signal")
    /\ UNCHANGED <<handlerVars, isDraining, eventVars, ttlVars>>

ResetTimer == armed' = TRUE /\ timer' = IdleDelay

OnRuntimeChange ==
    /\ loop = "select" /\ changed = "change"
    /\ changed' = "none"
    /\ pending' = TRUE
    /\ ResetTimer
    /\ UNCHANGED <<handlerVars, isDraining, changes, closed, loop, cause, deadline, outcome, ttlVars>>

(* Mutant: while a reload is pending a file error is dropped.              *)
OnFileErrorUnlessPending ==
    /\ loop = "select" /\ changed = "error"
    /\ changed' = "none"
    /\ IF pending THEN UNCHANGED loopVars ELSE BeginShutdown("fileError")
    /\ UNCHANGED <<handlerVars, isDraining, changes, closed, ttlVars>>

OnFileError ==
    /\ loop = "select" /\ changed = "error"
    /\ changed' = "none"
    /\ BeginShutdown("fileError")
    /\ UNCHANGED <<handlerVars, isDraining, changes, closed, ttlVars>>

(* Mutant: the token is taken but the idle delay is not restarted.         *)
OnBecameIdleNoReset ==
    /\ loop = "select" /\ becameIdle
    /\ becameIdle' = FALSE
    /\ UNCHANGED <<rpc, lastOut, inFlight, clockVars, isDraining, eventVars, loopVars, ttlVars>>

OnBecameIdle ==
    /\ loop = "select" /\ becameIdle
    /\ becameIdle' = FALSE
    /\ IF pending THEN ResetTimer ELSE UNCHANGED <<armed, timer>>
    /\ UNCHANGED <<rpc, lastOut, inFlight, clockVars, isDraining, eventVars,
                   loop, pending, cause, deadline, outcome, ttlVars>>

(* Mutant: the drain begins whatever is in flight.                         *)
BeginDrainAnyway ==
    /\ ~isDraining
    /\ isDraining' = TRUE

BeginDrainIfIdle ==
    /\ inFlight = 0 /\ ~isDraining
    /\ isDraining' = TRUE

OnReloadTimer ==
    /\ loop = "select" /\ armed /\ timer = 0
    /\ \/ /\ pending /\ BeginDrainIfIdle
          /\ BeginShutdown("change")
       \/ /\ ~pending \/ inFlight # 0 \/ isDraining
          /\ armed' = FALSE
          /\ UNCHANGED <<isDraining, loop, cause, deadline, pending, timer, outcome>>
    /\ UNCHANGED <<handlerVars, eventVars, ttlVars>>

(* Mutant: a server that serves nothing is taken for a busy one.           *)
OnTTLTickOffByOne ==
    /\ loop = "select" /\ ttlCh = "full"
    /\ ttlCh' = "empty"
    /\ loop' = IF inFlight >= 0 THEN "select" ELSE "ttlCheck"
    /\ UNCHANGED <<handlerVars, isDraining, eventVars, late, pending, armed, timer,
                   cause, deadline, outcome>>

(* isIdleFor reads inFlight under the mutex, lastActivity outside it, and  *)
(* the loop acts on the answer in a third step: requests come in between.  *)
OnTTLTick ==
    /\ loop = "select" /\ ttlCh = "full"
    /\ ttlCh' = "empty"
    /\ loop' = IF inFlight > 0 THEN "select" ELSE "ttlCheck"
    /\ UNCHANGED <<handlerVars, isDraining, eventVars, late, pending, armed, timer,
                   cause, deadline, outcome>>

ReadLastActivity ==
    /\ loop = "ttlCheck"
    /\ \/ idleFor > TTL /\ loop' = "ttlIdle" /\ UNCHANGED late
       \/ idleFor <= TTL /\ loop' = "select" /\ late' = {}
    /\ UNCHANGED <<handlerVars, isDraining, eventVars, pending, armed, timer,
                   cause, deadline, outcome, ttlCh>>

ShutdownIdle ==
    /\ loop = "ttlIdle"
    /\ BeginShutdown("ttl")
    /\ late' = {}
    /\ UNCHANGED <<handlerVars, isDraining, eventVars, ttlCh>>

(* The process ends: whatever is still being served ends with it, and what *)
(* only its memory held is gone.                                           *)
EndProcess(how) ==
    /\ loop' = "stopped"
    /\ outcome' = how
    /\ rpc' = [r \in Requests |->
                 CASE rpc[r] \in Counted -> "cut"
                   [] rpc[r] \in Replying -> "unanswered"
                   [] rpc[r] \in {"connected", "arrived", "leaving"} -> "closed"
                   [] OTHER -> rpc[r]]
    /\ age' = [r \in Requests |-> 0]
    /\ lastOut' = {} /\ inFlight' = 0 /\ becameIdle' = FALSE
    /\ idleFor' = 0 /\ quiet' = 0
    /\ pending' = FALSE /\ armed' = FALSE /\ timer' = IdleDelay /\ deadline' = ShutdownTimeout
    /\ UNCHANGED <<isDraining, eventVars, cause, ttlVars>>

(* Accept failed for good: errCh is not ErrServerClosed and serveHTTP      *)
(* returns it without calling Shutdown.                                    *)
OnServeError == loop = "select" /\ EndProcess("failed")

(* Shutdown returned nil: runServeState replaces the process image after a *)
(* change (exec may fail) and returns the other causes.                    *)
ShutdownClean ==
    /\ loop = "shutdown" /\ Tracked = {}
    /\ CASE cause = "change" -> EndProcess("replaced") \/ EndProcess("execFailed")
         [] cause = "fileError" -> EndProcess("failed")
         [] OTHER -> EndProcess("stopped")

(* Shutdown returned its context's error, which shutdownAfterRuntimeChange *)
(* returns in place of the change: the process exits and is not replaced.  *)
ShutdownTimesOut ==
    /\ loop = "shutdown" /\ deadline = 0 /\ Tracked # {}
    /\ EndProcess("timedOut")
------------------------------------------------------------------------------
(* One tick of time.  Without a TTL nobody asks how long ago a request was. *)
Tick ==
    /\ Alive
    /\ IF ttlCh = "nil"
         THEN UNCHANGED <<ttlCh, idleFor, quiet>>
         ELSE /\ ttlCh' = "full"
              /\ idleFor' = IF idleFor > TTL THEN idleFor ELSE idleFor + 1
              /\ quiet' = CASE \E r \in Requests : rpc[r] \in {"running", "hijacked"} -> 0
                            [] quiet > TTL -> quiet
                            [] OTHER -> quiet + 1
    /\ age' = [r \in Requests |->
                 IF rpc[r] = "connected" /\ age[r] < UnusedAge THEN age[r] + 1 ELSE age[r]]
    /\ timer' = IF armed /\ timer > 0 THEN timer - 1 ELSE timer
    /\ deadline' = IF loop = "shutdown" /\ deadline > 0 THEN deadline - 1 ELSE deadline
    /\ UNCHANGED <<rpc, lastOut, inFlight, becameIdle, isDraining, eventVars,
                   loop, pending, armed, cause, outcome, late>>

(* The steps a handler takes without waiting for a client or an upstream.  *)
HandlerStep(r) ==
    \/ BeginRequest(r) \/ StoreStart(r) \/ StoreEnd(r)
    \/ FinishRequest(r) \/ OfferToken(r)

ClientStep(r) ==
    \/ Connect(r) \/ Arrive(r) \/ CloseUnused(r)
    \/ Hijack(r) \/ HandlerReturns(r) \/ Reply(r)

LoopStep ==
    \/ OnStop \/ OnRuntimeChange \/ OnFileError \/ OnBecameIdle \/ OnReloadTimer
    \/ OnTTLTick \/ ReadLastActivity \/ ShutdownIdle \/ OnServeError
    \/ ShutdownClean \/ ShutdownTimesOut

Next ==
    \/ \E r \in Requests : HandlerStep(r) \/ ClientStep(r)
    \/ ReportChange \/ ReportError
    \/ LoopStep
    \/ Tick

Spec == Init /\ [][Next]_vars

(* Goroutines are scheduled and time passes.  select picks uniformly among *)
(* its ready cases, so a case that is ready again and again is taken; no   *)
(* client, upstream, signal or file change is assumed to happen.           *)
Fairness ==
    /\ \A r \in Requests : WF_vars(HandlerStep(r))
    /\ SF_vars(OnRuntimeChange) /\ SF_vars(OnFileError)
    /\ SF_vars(OnBecameIdle) /\ SF_vars(OnReloadTimer) /\ SF_vars(OnTTLTick)
    /\ WF_vars(ReadLastActivity) /\ WF_vars(ShutdownIdle)
    /\ WF_vars(ShutdownClean) /\ WF_vars(ShutdownTimesOut)
    /\ WF_vars(Tick)

FairSpec == Spec /\ Fairness
------------------------------------------------------------------------------
(* Correctness.                                                            *)

(* activity.go:61-86 -- the counter is exactly the number of requests      *)
(* between beginRequest and finishRequest, so the drain decision taken on  *)
(* it is taken on the requests themselves.                                 *)
CounterIsExact == Alive => inFlight = Cardinality(InFlight)

(* serve.go:223-227, README "they are never interrupted by it": from the   *)
(* moment the server drains no proxied request is in progress, and none    *)
(* was cut by the process that was replaced.                               *)
ReloadInterruptsNothing ==
    isDraining => \A r \in Requests : rpc[r] \notin Counted \cup {"cut"}

(* serve.go:205-227 -- no lost wake-up: a pending change always has        *)
(* something that will bring the loop back to it: the armed timer, a       *)
(* token, a handler about to offer one, or a request still in progress.    *)
NoLostReload ==
    loop \in {"select", "ttlCheck", "ttlIdle"} /\ pending =>
        armed \/ becameIdle \/ lastOut # {} \/ InFlight # {}

(* README.md:167-169 "if no proxied Kubernetes API requests are active for *)
(* that duration", serve.go:228-232 -- the TTL ends a server only after    *)
(* the TTL has passed without a request in the proxy handler, however long *)
(* the last one ran, and under no request; except for what was admitted    *)
(* after isIdleFor had read the counter, which the code cannot see.        *)
TTLEndsQuietServers ==
    [][cause' = "ttl" /\ cause # "ttl" =>
         /\ InFlight \subseteq late
         /\ late = {} => quiet > TTL]_vars

(* The loop and the wrapper implement the abstract lifecycle.              *)
Mode ==
    CASE outcome = "replaced" -> "replaced"
      [] outcome = "running" -> IF isDraining THEN "draining" ELSE "open"
      [] OTHER -> "exited"

Interrupted == {r \in Requests : rpc[r] = "cut"}

Lifecycle ==
    INSTANCE ServeLifecycle WITH
        mode <- Mode, serving <- InFlight, interrupted <- Interrupted

ImplementsLifecycle == Lifecycle!LifecycleSpec

(* serve.go:205-227 -- if requests eventually stop for good, a pending     *)
(* change stops the server.                                                *)
PendingReloadHappens ==
    <>[](InFlight = {}) => (pending ~> loop \in {"shutdown", "stopped"})

(* serve.go:228-232 -- with a TTL, a server left alone ends by itself.     *)
IdleServerEnds ==
    ttlCh # "nil" /\ <>[](InFlight = {}) => <>(loop = "stopped")

(* serve.go:217, main_test.go:1238 -- a removed or unreadable file stops   *)
(* the server whatever is pending and however many requests run.           *)
FileErrorStops == (changed = "error") ~> (loop = "stopped")

(* serve.go:256-264, ARCHITECTURE.md:209-211 -- a drained server is        *)
(* replaced; only exec itself may fail.  Connections that never came to an *)
(* answer are left aside here.                                             *)
DrainedServerIsReplaced ==
    isDraining /\ (\A r \in Requests : rpc[r] # "closed") =>
        outcome \notin {"timedOut", "stopped", "failed"}
==============================================================================
