---------------------------- MODULE MCContextFiles ----------------------------
(* A TLC instance of ContextFiles.                                         *)
EXTENDS ContextFiles

CONSTANTS c1, c2

ThreeNames == 1..3
TwoProxyNames == {2, 3}
TwoCommands == {c1, c2}

(* All contexts; one listed, others matched, with a primary among them.    *)
TwoOptions ==
    {[names |-> <<>>, hasRegexp |-> FALSE, regexp |-> {}, primary |-> None],
     [names |-> <<1>>, hasRegexp |-> TRUE, regexp |-> {1, 3}, primary |-> 1]}

(* The user has one context, or a second whose name a proxy may be given.  *)
TwoSources ==
    {[contexts |-> [n \in ThreeNames |-> IF n \in own THEN "user" ELSE "none"],
      entries |-> [n \in ThreeNames |-> None], current |-> 1] : own \in {{1}, {1, 2}}}

(* interfered is never reset and nothing is claimed once it is set.        *)
Undisturbed == ~interfered
==============================================================================
