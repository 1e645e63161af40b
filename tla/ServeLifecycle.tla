--------------------------- MODULE ServeLifecycle ---------------------------
(***************************************************************************)
(* What one serve process promises the clients of its listener, whatever   *)
(* its select loop, its timers and net/http do: it may exit at any moment  *)
(* and cut what it is serving, but it is replaced for a configuration      *)
(* change only through a drain that begins with nothing being served and   *)
(* admits nothing afterwards.                                              *)
(***************************************************************************)
CONSTANTS Requests

VARIABLES
    mode,          \* "open", "draining", "replaced" or "exited"
    serving,       \* the requests admitted and not finished
    interrupted    \* the admitted requests the process ended under

lvars == <<mode, serving, interrupted>>

LifecycleInit == mode = "open" /\ serving = {} /\ interrupted = {}

Admit(r) ==
    /\ mode = "open"
    /\ serving' = serving \cup {r}
    /\ UNCHANGED <<mode, interrupted>>

Complete(r) ==
    /\ r \in serving
    /\ serving' = serving \ {r}
    /\ UNCHANGED <<mode, interrupted>>

BeginReplacement ==
    /\ mode = "open"
    /\ serving = {}
    /\ mode' = "draining"
    /\ UNCHANGED <<serving, interrupted>>

Replace ==
    /\ mode = "draining"
    /\ mode' = "replaced"
    /\ UNCHANGED <<serving, interrupted>>

Exit ==
    /\ mode \in {"open", "draining"}
    /\ mode' = "exited"
    /\ interrupted' = serving
    /\ serving' = {}

LifecycleNext ==
    \/ \E r \in Requests : Admit(r) \/ Complete(r)
    \/ BeginReplacement
    \/ Replace
    \/ Exit

LifecycleSpec == LifecycleInit /\ [][LifecycleNext]_lvars
=============================================================================
