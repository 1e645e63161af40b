-------------------------------- MODULE Routing --------------------------------
(***************************************************************************)
(* Which handler a request gets (internal/proxy/routing.go), and which one *)
(* the precedence table of ROUTING.md gives it.  A path is the sequence of *)
(* its segments: a segment the code knows is its string, any other string  *)
(* is a name, a group, a version or a resource.                            *)
(***************************************************************************)
EXTENDS Integers, Sequences, Functions

CONSTANT Reviews   \* the segments in which "selfsubjectreview", "accessreview"
                   \* or "tokenreviews" occurs

Classes == {"primary", "watch", "podStream", "namedGet", "list", "mutation"}
Methods == {"GET", "POST", "PUT", "PATCH", "DELETE"}

(* parseResourcePath: the number of segments up to the resource, 0 for     *)
(* what is no resource path.                                               *)
Base(path) ==
    CASE Len(path) >= 3 /\ path[1] = "api" ->
           IF Len(path) >= 5 /\ path[3] = "namespaces" THEN 5 ELSE 3
      [] Len(path) >= 4 /\ path[1] = "apis" ->
           IF Len(path) >= 6 /\ path[4] = "namespaces" THEN 6 ELSE 4
      [] OTHER -> 0

ParseResourcePath(path) ==
    LET base == Base(path)
    IN [isResource   |-> base # 0,
        isCollection |-> base # 0 /\ Len(path) = base,
        isObject     |-> base # 0 /\ Len(path) > base,
        isPod        |-> base # 0 /\ path[base] = "pods",
        subresource  |-> IF base # 0 /\ Len(path) > base + 1 THEN path[base + 2] ELSE ""]

IsMutation(method) == method \in Methods \ {"GET"}
IsWatch(r) == r.method = "GET" /\ r.watch
IsPodConnection(subresource) == subresource \in {"log", "exec", "attach", "portforward"}

IsDiscoveryPath(path) ==
    path # <<>> /\ \/ path = <<"version">>
                   \/ path[1] \in {"openapi", "swagger", "healthz", "livez", "readyz"}
                   \/ path[1] = "api" /\ Len(path) <= 2
                   \/ path[1] = "apis" /\ Len(path) <= 3

(* The review is found anywhere in the path, so in a name as well.         *)
IsRequestResponseAPI(r) ==
    r.method = "POST" /\ \/ Range(r.path) \cap Reviews # {}
                         \/ /\ r.path # <<>> /\ r.path[Len(r.path)] = "token"
                            /\ \E i \in 1..Len(r.path) - 1 : r.path[i] = "serviceaccounts"

(* helmOwner: the label selector contains owner=helm.                      *)
IsHelmStorageList(r) ==
    /\ r.method = "GET" /\ r.helmOwner
    /\ ParseResourcePath(r.path).isCollection
    /\ r.path[Len(r.path)] \in {"secrets", "configmaps"}

IsPrimaryRequest(r, helmMode) ==
    IsDiscoveryPath(r.path) \/ IsRequestResponseAPI(r) \/ (helmMode /\ IsHelmStorageList(r))

(* Mutant: watches are recognised before the Helm storage.                 *)
ClassifyWatchesFirst(r, helmMode) ==
    LET resource == ParseResourcePath(r.path)
    IN CASE IsWatch(r) /\ resource.isResource -> "watch"
         [] IsPrimaryRequest(r, helmMode) -> "primary"
         [] r.method = "GET" /\ resource.isPod /\ IsPodConnection(resource.subresource) -> "podStream"
         [] r.method = "GET" /\ resource.isObject /\ resource.subresource = "" -> "namedGet"
         [] r.method = "GET" /\ resource.isCollection -> "list"
         [] IsMutation(r.method) /\ resource.isResource -> "mutation"
         [] OTHER -> "primary"

(* The code asks in this order and takes the first class that fits.        *)
ClassifyRequest(r, helmMode) ==
    LET resource == ParseResourcePath(r.path)
    IN IF IsPrimaryRequest(r, helmMode) THEN "primary"
       ELSE IF IsWatch(r) /\ resource.isResource THEN "watch"
       ELSE IF r.method = "GET" /\ resource.isPod /\ IsPodConnection(resource.subresource) THEN "podStream"
       ELSE IF r.method = "GET" /\ resource.isObject /\ resource.subresource = "" THEN "namedGet"
       ELSE IF r.method = "GET" /\ resource.isCollection THEN "list"
       ELSE IF IsMutation(r.method) /\ resource.isResource THEN "mutation"
       ELSE "primary"
------------------------------------------------------------------------------
(* The contract: the shapes of paths of ROUTING.md and its table of rows,  *)
(* of which the first that matches decides.                                *)

ApiRoots == {<<"api", "version">>, <<"apis", "group", "version">>}
Collections == {<<"resource">>, <<"namespaces", "name", "resource">>}
Objects == {c \o <<"name">> : c \in Collections}
Subresources == {o \o <<"subresource">> : o \in Objects}

(* A path has a shape when it agrees with it in length and in every        *)
(* segment that is not a placeholder.                                      *)
Placeholders == {"version", "group", "name", "resource", "subresource"}
Fits(path, shape) ==
    Len(path) = Len(shape) /\ \A i \in DOMAIN shape : shape[i] \in Placeholders \/ path[i] = shape[i]
Shaped(path, shapes) == \E p \in ApiRoots, s \in shapes : Fits(path, p \o s)

(* namespaces/x/pods is a collection, and no subresource of a namespace.   *)
NamesCollection(path) == Shaped(path, Collections)
NamesObject(path) == Shaped(path, Objects)
NamesSubresource(path) == Shaped(path, Subresources) /\ ~NamesCollection(path)
NamesResource(path) == NamesCollection(path) \/ NamesObject(path) \/ NamesSubresource(path)

Discovery == {<<"api">>, <<"api", "version">>, <<"apis">>, <<"apis", "group">>,
              <<"apis", "group", "version">>}
BeginsWith(path, names) == path # <<>> /\ path[1] \in names
EndsIn(path, names) == path # <<>> /\ path[Len(path)] \in names
PodPath(path) == path[Len(path) - 2] = "pods"

(* Row n of the table matches.  The proxy itself answers rows 1 and 2.     *)
Row(r, helmMode, n) ==
    CASE n = 3 -> \/ r.path = <<"version">> \/ \E shape \in Discovery : Fits(r.path, shape)
                  \/ BeginsWith(r.path, {"openapi", "swagger", "healthz", "livez", "readyz"})
      [] n = 4 -> IsRequestResponseAPI(r)
      [] n = 5 -> /\ helmMode /\ r.method = "GET" /\ r.helmOwner
                  /\ NamesCollection(r.path) /\ EndsIn(r.path, {"secrets", "configmaps"})
      [] n = 6 -> r.method = "GET" /\ r.watch /\ NamesResource(r.path)
      [] n = 7 -> /\ r.method = "GET" /\ NamesSubresource(r.path) /\ PodPath(r.path)
                  /\ EndsIn(r.path, {"log", "exec", "attach", "portforward"})
      [] n = 8 -> r.method = "GET" /\ NamesObject(r.path)
      [] n = 9 -> r.method = "GET" /\ NamesCollection(r.path)
      [] n = 10 -> r.method # "GET" /\ NamesResource(r.path)
      [] n = 11 -> TRUE

RowHandler == [n \in 3..11 |->
    CASE n = 6 -> "watch" [] n = 7 -> "podStream" [] n = 8 -> "namedGet"
      [] n = 9 -> "list" [] n = 10 -> "mutation" [] OTHER -> "primary"]

Documented(r, helmMode) ==
    RowHandler[CHOOSE n \in 3..11 : Row(r, helmMode, n) /\ \A k \in 3..n - 1 : ~Row(r, helmMode, k)]

(* Of these the table does not say which row is meant: what a namespace    *)
(* has below its name reads as a collection in it, and no shape goes below *)
(* a subresource.                                                          *)
IsUndecided(path) ==
    \/ Shaped(path, {<<"namespaces", "name", s>> : s \in {"status", "finalize"}})
    \/ Base(path) # 0 /\ Len(path) > Base(path) + 2
==============================================================================
