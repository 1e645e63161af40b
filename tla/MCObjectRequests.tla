--------------------------- MODULE MCObjectRequests ---------------------------
(* TLC instances of ObjectRequests.                                        *)
EXTENDS ObjectRequests

CONSTANTS a, b, Stranger

(* The primary is not the first configured context.                        *)
TwoInOrder == <<a, b>>
AllNames == {a, b, Stranger}

Unrouted == [list |-> <<>>, single |-> FALSE]
ToPrimary == [list |-> <<>>, single |-> TRUE]
Listed(names) == [list |-> names, single |-> FALSE]

TwoWishes == {Unrouted, Listed(<<a>>)}

Sent(method, path, wishes) ==
    [authorized |-> TRUE, readOnly |-> FALSE, helmMode |-> FALSE, timeout |-> TRUE,
     method |-> method, path |-> path, watch |-> FALSE, helmOwner |-> FALSE,
     json |-> TRUE, wishes |-> wishes, identity |-> Absent]

ReviewNames == {"subjectaccessreviews"}

InNamespace(n, rest) == <<"namespaces", n>> \o rest
Pods == <<"api", "v1">> \o InNamespace("x", <<"pods">>)
Pod == Pods \o <<"p">>

(* The identity the primary's object had when the client read it.          *)
PrimaryIdentity == [uid |-> <<Primary, 1>>, version |-> 1]
Put(wishes) == [Sent("PUT", Pod, wishes) EXCEPT !.identity = PrimaryIdentity]

(* Mutations with every kind of body.                                      *)
Mutations ==
    {Put(Unrouted), Put(Listed(<<b, a>>)),
     Sent("PATCH", Pod, Unrouted), Sent("DELETE", Pod, Unrouted),
     Sent("DELETE", Pods, ToPrimary), Sent("POST", Pods, Unrouted),
     Sent("POST", Pods, Listed(<<a, Stranger>>))}

(* Every shape of path.                                                    *)
Rests ==
    {<<>>, <<"namespaces">>, <<"namespaces", "x">>, <<"namespaces", "x", "status">>,
     <<"subjectaccessreviews">>, <<"nodes", "n", "status">>}
      \cup UNION {{rest, InNamespace("x", rest)} :
                    rest \in {<<"pods">>, <<"pods", "p">>, <<"pods", "p", "log">>, <<"secrets">>}}
      \cup {InNamespace("x", <<"serviceaccounts", "s", "token">>),
            InNamespace("subjectaccessreviews", <<"pods">>)}
Paths ==
    {prefix \o rest : prefix \in {<<"api", "v1">>, <<"apis", "apps", "v1">>}, rest \in Rests}
      \cup {<<>>, <<"api">>, <<"apis">>, <<"apis", "apps">>, <<"version">>, <<"metrics">>,
            <<"healthz", "etcd">>}

(* Reads of every path, in every mode of the proxy; POSTs and DELETEs      *)
(* where the Kubernetes API has them.                                      *)
Reads ==
    {[Sent("GET", path, Unrouted) EXCEPT !.authorized = ok, !.readOnly = ro, !.helmMode = helm,
                                         !.watch = watch, !.helmOwner = owner] :
       path \in Paths \cup {<<"api", "v1", "nodes", "n", "proxy", "metrics">>}, ok \in BOOLEAN, ro \in BOOLEAN, helm \in BOOLEAN,
       watch \in BOOLEAN, owner \in BOOLEAN}
Writes ==
    {[Sent(method, path, Unrouted) EXCEPT !.authorized = ok, !.readOnly = ro, !.helmMode = helm] :
       method \in {"POST", "DELETE"}, path \in Paths,
       ok \in BOOLEAN, ro \in BOOLEAN, helm \in BOOLEAN}

(* At a proxy without a request timeout.                                   *)
Unlimited == {[r EXCEPT !.timeout = FALSE] :
                r \in {Sent("GET", Pod, Unrouted), Sent("DELETE", Pods, ToPrimary)}}

EveryArrival == Mutations \cup Reads \cup Writes \cup Unlimited

(* What a client sends that read the object from the primary: as JSON, or  *)
(* in a form the proxy does not rewrite.                                   *)
Puts == {Put(Unrouted), [Put(Unrouted) EXCEPT !.json = FALSE]}

NoWishes == {Unrouted}
==============================================================================
