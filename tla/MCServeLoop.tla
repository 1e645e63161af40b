----------------------------- MODULE MCServeLoop ------------------------------
(* TLC instances of ServeLoop.                                             *)
EXTENDS ServeLoop

CONSTANTS r1, r2

(* A plain request and one whose connection is upgraded.                   *)
TwoRequests == {r1, r2}
OneUpgrade == {r1}
==============================================================================
