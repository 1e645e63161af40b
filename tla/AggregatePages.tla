---------------------------- MODULE AggregatePages -----------------------------
(***************************************************************************)
(* Listing a collection across clusters (internal/proxy/aggregate.go).     *)
(* Without a limit every cluster is asked at once and the answers are      *)
(* merged.  With one, the proxy first records every cluster's resource     *)
(* version and then reads the clusters one after the other, page by page;  *)
(* it keeps nothing between two pages: all of the listing's state travels  *)
(* in the continuation token the client sends back.                        *)
(*                                                                         *)
(* Meanwhile the clusters change and compact their histories, the serve    *)
(* process is replaced by one with other targets, and answers get lost.    *)
(***************************************************************************)
EXTENDS Integers, Sequences, SequencesExt

CONSTANTS
    Contexts,      \* every context that may be configured
    TargetLists,   \* the target lists a serve process may be configured with
    Keys,          \* the objects of the collection, numbers in listing order
    Limits,        \* the positive limits a client sends
    IgnoresLimit,  \* the clusters whose API server ignores a limit
    MaxVersion,    \* bound on the versions of a cluster
    MaxLosses,     \* bound on the lost answers
    None

ASSUME PagesAssumption ==
    /\ TargetLists # {} /\ TargetLists \subseteq Seq(Contexts)
    /\ \A list \in TargetLists : list # <<>> /\ IsInjective(list)
    /\ Keys \subseteq Nat \ {0} /\ IsFiniteSet(Keys)
    /\ Limits \subseteq Nat \ {0}
    /\ IgnoresLimit \subseteq Contexts
    /\ MaxVersion \in Nat \ {0} /\ MaxLosses \in Nat

VARIABLES
    history,   \* each cluster's collection at every version so far
    oldest,    \* its oldest version not compacted
    targets,   \* p.targets of the running serve process
    client,    \* where the client stands
    token,     \* the continuation token it holds, or None
    pages,     \* what the answers it received hold: entries, in order
    listing,   \* history: targets and versions of its first answer, or None
    losses,    \* answers lost so far
    handler,   \* where the handler stands
    limit,     \* the request's limit; 0 for a list without pages
    cursor,    \* the decoded pageCursor
    versions,  \* the resource versions of this listing, 0 where not known
    index,     \* the position in targets being read
    items,     \* the entries read for this answer
    answer     \* the answer on its way to the client, or None

clusterVars == <<history, oldest>>
clientVars == <<client, token, pages, listing, losses>>
handlerVars == <<handler, limit, cursor, versions, index, items, answer>>
vars == <<clusterVars, targets, clientVars, handlerVars>>

(* Versions are numbered 1, 2, ...; 0 is the missing one.                  *)
VersionVector == [Contexts -> 0..MaxVersion]
NoVersions == [t \in Contexts |-> 0]
Entry == Contexts \X Keys

(* A continue token of one cluster: where that cluster's list goes on.     *)
Continue == [issuer : Contexts, version : 1..MaxVersion, after : Keys]

Cursor ==
    [target : Nat \ {0}, continue : Continue \cup {None},
     targets : Seq(Contexts), versions : VersionVector]

AnswerType ==
    [status : {"ok", "rejected", "failed"}, entries : Seq(Entry),
     token : Cursor \cup {None}, versions : VersionVector]
Listing == [targets : TargetLists, versions : VersionVector]

ASSUME NoneAssumption == None \notin Continue \cup Cursor \cup AnswerType \cup Listing

TypeOK ==
    /\ history \in [Contexts -> Seq(SUBSET Keys)] /\ oldest \in [Contexts -> Nat]
    /\ \A t \in Contexts :
         Len(history[t]) \in 1..MaxVersion /\ oldest[t] \in 1..Len(history[t])
    /\ targets \in TargetLists
    /\ client \in {"idle", "waiting", "complete", "failed"}
    /\ token \in Cursor \cup {None}
    /\ pages \in Seq(Entry)
    /\ listing \in Listing \cup {None}
    /\ losses \in 0..MaxLosses
    /\ handler \in {"idle", "asking", "reading", "listing"}
    /\ limit \in Limits \cup {0}
    /\ cursor \in Cursor \cup {None}
    /\ versions \in VersionVector
    /\ index \in 1..Len(targets)
    /\ items \in Seq(Entry)
    /\ answer \in AnswerType \cup {None}

Init ==
    /\ history \in [Contexts -> {<<S>> : S \in SUBSET Keys}]
    /\ oldest = [t \in Contexts |-> 1]
    /\ targets \in TargetLists
    /\ client = "idle" /\ token = None /\ pages = <<>> /\ listing = None /\ losses = 0
    /\ handler = "idle" /\ limit = 0 /\ cursor = None /\ versions = NoVersions
    /\ index = 1 /\ items = <<>> /\ answer = None
------------------------------------------------------------------------------
(* The clusters.                                                           *)

Current(t) == Len(history[t])

ClusterChanges(t) ==
    /\ Current(t) < MaxVersion
    /\ \E k \in Keys :
         LET now == history[t][Current(t)]
         IN history' = [history EXCEPT ![t] =
                          Append(@, IF k \in now THEN now \ {k} ELSE now \cup {k})]
    /\ UNCHANGED <<oldest, targets, clientVars, handlerVars>>

(* etcd drops the versions before some later one.                          *)
Compact(t) ==
    /\ oldest[t] < Current(t)
    /\ oldest' = [oldest EXCEPT ![t] = @ + 1]
    /\ UNCHANGED <<history, targets, clientVars, handlerVars>>

(* The keys in S as a list has them.                                       *)
Ascending(S) ==
    CHOOSE s \in [1..Cardinality(S) -> S] :
        Range(s) = S /\ \A i, j \in DOMAIN s : i < j => s[i] < s[j]

Ordered(t, version, after) == Ascending({k \in history[t][version] : k > after})

Entries(t, keys) == [i \in DOMAIN keys |-> <<t, keys[i]>>]
Snapshot(t, version) == Entries(t, Ordered(t, version, 0))
------------------------------------------------------------------------------
(* The client.                                                             *)

(* Its first request, with a limit or without, and the continuation of a   *)
(* listing, perhaps with another limit; a token without a positive limit,  *)
(* or with another path or selector, can be sent by mistake.               *)
Request(how) == handler = "idle" /\ answer = None /\ client = how /\ client' = "waiting"

Respond(status, entries, next) ==
    /\ answer' = [status |-> status, entries |-> entries, token |-> next, versions |-> versions]
    /\ handler' = "idle"
    /\ items' = <<>>

Rejected ==
    /\ answer' = [status |-> "rejected", entries |-> <<>>, token |-> None, versions |-> NoVersions]
    /\ UNCHANGED <<handler, limit, cursor, versions, index, items>>

(* aggregateList without a limit; aggregateListWithoutPage, for a limit of *)
(* zero, drops the token: the client starts over.                          *)
RequestList ==
    /\ Request("idle")
    /\ token' = None /\ pages' = <<>> /\ listing' = None
    /\ handler' = "listing"
    /\ limit' = 0 /\ cursor' = None /\ versions' = NoVersions
    /\ UNCHANGED <<index, items, answer, clusterVars, targets, losses>>

(* aggregatePage: decodeCursor without a token, then pageResourceVersions. *)
RequestFirstPage ==
    /\ Request("idle") /\ token = None
    /\ limit' \in Limits
    /\ cursor' = [target |-> 1, continue |-> None, targets |-> targets, versions |-> NoVersions]
    /\ versions' = NoVersions
    /\ handler' = "asking"
    /\ UNCHANGED <<index, items, answer, clusterVars, targets, token, pages, listing, losses>>

(* Mutant: the token's target list is not compared.                        *)
RequestNextPageAnyTargets ==
    /\ Request("idle") /\ token # None
    /\ IF token.target <= Len(targets) /\ \A t \in Range(targets) : token.versions[t] # 0
         THEN /\ limit' \in Limits
              /\ cursor' = token
              /\ versions' = token.versions
              /\ index' = token.target
              /\ handler' = "reading"
              /\ UNCHANGED <<items, answer>>
         ELSE Rejected
    /\ UNCHANGED <<clusterVars, targets, token, pages, listing, losses>>

(* Mutant: the token does not carry the versions, so they are asked again. *)
RequestNextPageAsksAgain ==
    /\ Request("idle") /\ token # None
    /\ IF token.targets = targets /\ token.target <= Len(targets)
         THEN /\ limit' \in Limits
              /\ cursor' = token
              /\ versions' = NoVersions
              /\ handler' = "asking"
              /\ UNCHANGED <<index, items, answer>>
         ELSE Rejected
    /\ UNCHANGED <<clusterVars, targets, token, pages, listing, losses>>

(* decodeCursor: a token serves the target list it was made for, and the   *)
(* versions in it become those of this page.                               *)
RequestNextPage ==
    /\ Request("idle") /\ token # None
    /\ IF /\ token.targets = targets /\ token.target <= Len(targets)
          /\ \A t \in Range(targets) : token.versions[t] # 0
         THEN /\ limit' \in Limits
              /\ cursor' = token
              /\ versions' = token.versions
              /\ index' = token.target
              /\ handler' = "reading"
              /\ UNCHANGED <<items, answer>>
         ELSE Rejected
    /\ UNCHANGED <<clusterVars, targets, token, pages, listing, losses>>

(* A token sent without a limit or under another scope.                    *)
RequestMistaken ==
    /\ Request("idle") /\ token # None
    /\ Rejected
    /\ UNCHANGED <<clusterVars, targets, token, pages, listing, losses>>

(* The answer arrives: its entries join those received before.             *)
Receive ==
    /\ answer # None
    /\ answer' = None
    /\ IF answer.status = "ok"
         THEN /\ pages' = pages \o answer.entries
              /\ token' = answer.token
              /\ client' = IF answer.token = None THEN "complete" ELSE "idle"
              /\ listing' = IF listing # None THEN listing
                            ELSE [targets |-> targets, versions |-> answer.versions]
         ELSE client' = "failed" /\ UNCHANGED <<pages, token, listing>>
    /\ UNCHANGED <<clusterVars, targets, losses, handler, limit, cursor, versions, index, items>>

(* The answer is lost and the client repeats its request.                  *)
Lose ==
    /\ answer # None /\ losses < MaxLosses
    /\ answer' = None
    /\ client' = "idle"
    /\ losses' = losses + 1
    /\ UNCHANGED <<clusterVars, targets, token, pages, listing, handler, limit, cursor,
                   versions, index, items>>

(* The serve process is replaced between two requests.                     *)
Reconfigure ==
    /\ handler = "idle" /\ answer = None
    /\ targets' \in TargetLists
    /\ index' = 1
    /\ UNCHANGED <<clusterVars, clientVars, handler, limit, cursor, versions, items, answer>>
------------------------------------------------------------------------------
(* The handler.                                                            *)

HandlerKept == <<clusterVars, targets, clientVars, limit, cursor>>

Fail == Respond("failed", <<>>, None) /\ UNCHANGED <<HandlerKept, versions, index>>

(* The concurrent calls of pageResourceVersions or of an unpaged list: a   *)
(* target tells the version its list is at.                                *)
Ask(t) ==
    /\ handler \in {"asking", "listing"}
    /\ t \in Range(targets) /\ versions[t] = 0
    /\ versions' = [versions EXCEPT ![t] = Current(t)]
    /\ UNCHANGED <<HandlerKept, handler, index, items, answer>>

(* Any call may fail for good, and fails the request.                      *)
CallFails == handler # "idle" /\ Fail

(* Mutant: the calls waited for include those of unconfigured contexts.    *)
AllToldEverywhere == \A t \in Contexts : versions[t] # 0

AllTold == \A t \in Range(targets) : versions[t] # 0

VersionsKnown ==
    /\ handler = "asking" /\ AllTold
    /\ handler' = "reading"
    /\ index' = cursor.target
    /\ UNCHANGED <<HandlerKept, versions, items, answer>>

(* mergeLists: every list is the one its version names.                    *)
Merge ==
    /\ handler = "listing" /\ AllTold
    /\ Respond("ok", FlattenSeq([i \in DOMAIN targets |-> Snapshot(targets[i], versions[targets[i]])]), None)
    /\ UNCHANGED <<HandlerKept, versions, index>>

(* aggregatePageRequest: the cursor's target continues where its token     *)
(* says, any other starts at its recorded version.                         *)
Continues == index = cursor.target /\ cursor.continue # None
(* Mutant: a target is read as it is now, not as it was recorded.          *)
ReadVersionNow == IF Continues THEN cursor.continue.version ELSE Current(targets[index])

ReadVersion == IF Continues THEN cursor.continue.version ELSE versions[targets[index]]
ReadAfter == IF Continues THEN cursor.continue.after ELSE 0

(* How many entries a server returns of those that are left: at least one  *)
(* if there are any, and at most the limit unless it ignores it.           *)
Counts(t, left, asked) ==
    IF t \in IgnoresLimit THEN {left}
    ELSE {n \in 0..left : n <= asked /\ (left > 0 => n > 0)}

NextCursor(position, continue) ==
    [target |-> position, continue |-> continue, targets |-> targets, versions |-> versions]

(* Mutant: every cluster is asked for a whole page.                        *)
AskedInFull == limit

Asked == limit - Len(items)

(* Mutant: the loop does not stop at the last target.                      *)
ReadTargetPastTheEnd ==
    /\ handler = "reading"
    /\ LET t == targets[index]
           keys == Ordered(t, ReadVersion, ReadAfter)
       IN /\ ReadVersion >= oldest[t]
          /\ \E n \in Counts(t, Len(keys), Asked) :
               LET read == items \o Entries(t, SubSeq(keys, 1, n))
               IN CASE n < Len(keys) ->
                         /\ Respond("ok", read, NextCursor(index,
                              [issuer |-> t, version |-> ReadVersion, after |-> keys[n]]))
                         /\ UNCHANGED index
                    [] n = Len(keys) /\ Len(read) >= limit ->
                         Respond("ok", read, None) /\ UNCHANGED index
                    [] OTHER ->
                         /\ items' = read
                         /\ index' = index + 1
                         /\ UNCHANGED <<handler, answer>>
    /\ UNCHANGED <<HandlerKept, versions>>

(* One turn of the loop of aggregatePage: a cluster that has more ends the *)
(* page with its own token, a full page ends before the next cluster.      *)
ReadTarget ==
    /\ handler = "reading"
    /\ LET t == targets[index]
           keys == Ordered(t, ReadVersion, ReadAfter)
       IN /\ ReadVersion >= oldest[t]
          /\ \E n \in Counts(t, Len(keys), Asked) :
               LET read == items \o Entries(t, SubSeq(keys, 1, n))
               IN CASE n < Len(keys) ->
                         /\ Respond("ok", read, NextCursor(index,
                              [issuer |-> t, version |-> ReadVersion, after |-> keys[n]]))
                         /\ UNCHANGED index
                    [] n = Len(keys) /\ Len(read) = limit /\ index < Len(targets) ->
                         /\ Respond("ok", read, NextCursor(index + 1, None))
                         /\ UNCHANGED index
                    [] n = Len(keys) /\ (index = Len(targets) \/ Len(read) > limit) ->
                         Respond("ok", read, None) /\ UNCHANGED index
                    [] OTHER ->
                         /\ items' = read
                         /\ index' = index + 1
                         /\ UNCHANGED <<handler, answer>>
    /\ UNCHANGED <<HandlerKept, versions>>

(* The version to read was compacted: the server answers 410 Gone.         *)
ReadExpired ==
    /\ handler = "reading" /\ ReadVersion < oldest[targets[index]]
    /\ Fail
------------------------------------------------------------------------------
HandlerStep ==
    \/ (\E t \in Contexts : Ask(t)) \/ VersionsKnown \/ Merge \/ ReadTarget \/ ReadExpired

ClientStep == RequestList \/ RequestFirstPage \/ RequestNextPage \/ RequestMistaken

Next ==
    \/ HandlerStep \/ CallFails \/ ClientStep \/ Receive \/ Lose \/ Reconfigure
    \/ \E t \in Contexts : ClusterChanges(t) \/ Compact(t)

Spec == Init /\ [][Next]_vars

(* Calls have a timeout, and the client goes on until its list is complete *)
(* or refused.                                                             *)
FairSpec == Spec /\ WF_vars(HandlerStep) /\ WF_vars(ClientStep) /\ WF_vars(Receive)
------------------------------------------------------------------------------
(* Correctness.                                                            *)

(* aggregate.go:48-100, ARCHITECTURE.md:275-281 -- when the client's list  *)
(* is complete it holds, target after target, exactly what each cluster    *)
(* held at the version of the first answer: nothing twice, nothing missing *)
(* and nothing of a later version, whatever changed between the pages.     *)
CompleteListIsASnapshot ==
    client = "complete" =>
        pages = FlattenSeq([i \in DOMAIN listing.targets |->
                              Snapshot(listing.targets[i], listing.versions[listing.targets[i]])])

(* aggregate.go:102-113, ARCHITECTURE.md:279-281 -- every page of a        *)
(* listing carries the versions of its first page, for every target, so a  *)
(* watch may start from any of them.                                       *)
VersionsAreStable ==
    answer # None /\ answer.status = "ok" =>
        /\ \A t \in Range(targets) : answer.versions[t] # 0
        /\ listing # None => answer.versions = listing.versions

(* aggregate.go:246-263, ROUTING.md:89 -- a cluster's continue token goes  *)
(* back to that cluster only, even when the targets or their order change  *)
(* between two pages.                                                      *)
TokenReturnsToItsIssuer ==
    handler = "reading" /\ Continues => cursor.continue.issuer = targets[index]

(* aggregate.go:70-86, ROUTING.md:89 -- the limit is one for the whole     *)
(* page, however many clusters it was read from.                           *)
PageIsWithinItsLimit ==
    answer # None /\ limit > 0 => Len(answer.entries) <= limit

(* aggregate.go:48-100 -- a client that follows the tokens comes to the    *)
(* end of its list or is told that it cannot.                              *)
ListingEnds == <>(client \in {"complete", "failed"})
==============================================================================
