--------------------------- MODULE MCAggregateWatch ---------------------------
(* TLC instances of AggregateWatch.                                        *)
EXTENDS AggregateWatch

CONSTANTS a, b

TwoTargets == {a, b}

Vectors == [Targets -> 0..1]

(* Every form of version, on named and collection watches; an aggregate    *)
(* vector that names no version of some target is among them.              *)
AllRequests ==
    [named : BOOLEAN,
     version : [form : {"absent", "malformed"}]
               \cup [form : {"plain"}, of : {1}]
               \cup [form : {"aggregate"}, of : Vectors]]

NamedResumes ==
    [named : {TRUE}, version : [form : {"aggregate"}, of : {[t \in Targets |-> 1]}]]
==============================================================================
