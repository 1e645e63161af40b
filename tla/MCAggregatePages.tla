--------------------------- MODULE MCAggregatePages ---------------------------
(* TLC instances of AggregatePages.                                        *)
EXTENDS AggregatePages

CONSTANTS a, b

TwoContexts == {a, b}

(* A new state file may turn the order round or drop a context.            *)
ThreeLists == {<<a, b>>, <<b, a>>, <<a>>}
OneList == {<<a, b>>}
JustA == {a}
==============================================================================
