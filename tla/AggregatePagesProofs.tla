------------------------- MODULE AggregatePagesProofs -------------------------
(***************************************************************************)
(* What holds of a listing for any clusters, target lists and limits.  All *)
(* of it is about what travels in the tokens: the handler keeps nothing    *)
(* between two pages, so each answer must be known to continue the ones    *)
(* before it from the token alone.                                         *)
(***************************************************************************)
EXTENDS AggregatePages, SequenceFacts, SequenceTheorems, TLAPS

(* A cluster's own token in a cursor was issued by the cursor's target.    *)
Issued(cur) == cur.continue # None => cur.continue.issuer = cur.targets[cur.target]

AllIn(list, vector) == \A t \in Range(list) : vector[t] # 0

(* One request at a time.                                                  *)
OneAtATime ==
    /\ handler # "idle" => client = "waiting" /\ answer = None
    /\ answer # None => client = "waiting"

(* A listing without a token has not begun, or has ended.                  *)
TokenStands ==
    /\ token = None /\ client \in {"idle", "waiting"} => listing = None
    /\ token # None => Issued(token) /\ (listing # None => listing.versions = token.versions)

HandlerStands ==
    /\ handler \in {"asking", "listing"} => token = None
    /\ handler = "asking" => cursor.targets = targets /\ cursor.continue = None
    /\ handler = "reading" =>
         /\ cursor.targets = targets /\ Issued(cursor)
         /\ AllIn(targets, versions)
         /\ token # None => versions = token.versions

AnswerStands ==
    answer # None /\ answer.status = "ok" =>
        /\ AllIn(targets, answer.versions)
        /\ listing # None => answer.versions = listing.versions
        /\ answer.token # None => Issued(answer.token) /\ answer.token.versions = answer.versions

PInv == OneAtATime /\ TokenStands /\ HandlerStands /\ AnswerStands

LEMMA InitPInv == Init => PInv
  BY DEF Init, PInv, OneAtATime, TokenStands, HandlerStands, AnswerStands

(* What the turn of the loop answers, if it does.                          *)
LEMMA ReadTargetAnswers ==
    ASSUME ReadTarget
    PROVE  \/ UNCHANGED <<handler, answer>>
           \/ \E entries, next :
                /\ Respond("ok", entries, next)
                /\ \/ next = None
                   \/ next = NextCursor(index + 1, None)
                   \/ \E version, after :
                        next = NextCursor(index, [issuer |-> targets[index], version |-> version, after |-> after])
<1> DEFINE t == targets[index]
           keys == Ordered(t, ReadVersion, ReadAfter)
           read(n) == items \o Entries(t, SubSeq(keys, 1, n))
           token1(n) == [issuer |-> t, version |-> ReadVersion, after |-> keys[n]]
<1>1. PICK n \in Counts(t, Len(keys), Asked) :
        \/ Respond("ok", read(n), NextCursor(index, token1(n)))
        \/ Respond("ok", read(n), NextCursor(index + 1, None))
        \/ Respond("ok", read(n), None)
        \/ UNCHANGED <<handler, answer>>
  BY Zenon DEF ReadTarget
<1> HIDE DEF t, keys, read
<1> QED
  BY <1>1, Zenon DEF t

LEMMA StepPInv == PInv /\ [Next]_vars => PInv'
<1> SUFFICES ASSUME PInv, [Next]_vars PROVE PInv'
  OBVIOUS
<1> USE DEF PInv, OneAtATime, TokenStands, HandlerStands, AnswerStands
<1>1. ASSUME NEW t \in Contexts, Ask(t) PROVE PInv'
  BY <1>1 DEF Ask, HandlerKept, clusterVars, clientVars
<1>2. CASE CallFails \/ ReadExpired
  BY <1>2 DEF CallFails, ReadExpired, Fail, Respond, HandlerKept, clusterVars, clientVars
<1>3. CASE VersionsKnown
  BY <1>3 DEF VersionsKnown, AllTold, AllIn, Issued, HandlerKept, clusterVars, clientVars
<1>4. CASE Merge
  <2>1. handler = "listing" /\ AllIn(targets, versions) /\ listing = None
    BY <1>4 DEF Merge, AllTold, AllIn
  <2>2. /\ handler' = "idle" /\ UNCHANGED HandlerKept
        /\ \E entries : answer' = [status |-> "ok", entries |-> entries, token |-> None, versions |-> versions]
    BY <1>4 DEF Merge, Respond
  <2> QED
    BY <2>1, <2>2 DEF AllIn, HandlerKept, clusterVars, clientVars
<1>5. CASE ReadTarget
  <2>1. handler = "reading" /\ UNCHANGED <<HandlerKept, versions>>
    BY <1>5, Zenon DEF ReadTarget
  <2>2. CASE UNCHANGED <<handler, answer>>
    BY <2>1, <2>2 DEF HandlerKept, clientVars, Issued, AllIn
  <2>3. ASSUME NEW entries, NEW next, Respond("ok", entries, next),
               \/ next = None
               \/ next = NextCursor(index + 1, None)
               \/ \E version, after :
                    next = NextCursor(index, [issuer |-> targets[index], version |-> version, after |-> after])
        PROVE  PInv'
    <3>1. next # None => Issued(next) /\ next.versions = versions
      BY <2>3 DEF NextCursor, Issued
    <3>2. /\ answer' = [status |-> "ok", entries |-> entries, token |-> next, versions |-> versions]
          /\ handler' = "idle"
      BY <2>3 DEF Respond
    <3>3. listing # None => versions = listing.versions
      BY <2>1
    <3> QED
      BY <2>1, <3>1, <3>2, <3>3 DEF HandlerKept, clientVars, Issued, AllIn
  <2> QED
    BY <1>5, <2>2, <2>3, ReadTargetAnswers
<1>6. CASE RequestList
  BY <1>6 DEF RequestList, Request
<1>7. CASE RequestFirstPage
  BY <1>7 DEF RequestFirstPage, Request
<1>8. CASE RequestNextPage \/ RequestMistaken
  BY <1>8 DEF RequestNextPage, RequestMistaken, Request, Rejected, Issued, AllIn
<1>9. CASE Receive
  BY <1>9 DEF Receive, Issued
<1>10. CASE Lose
  BY <1>10 DEF Lose, Issued
<1>11. CASE Reconfigure
  BY <1>11 DEF Reconfigure, clientVars, Issued
<1>12. ASSUME NEW t \in Contexts, ClusterChanges(t) \/ Compact(t) PROVE PInv'
  BY <1>12 DEF ClusterChanges, Compact, clientVars, handlerVars, Issued, AllIn
<1>13. CASE UNCHANGED vars
  BY <1>13 DEF vars, clientVars, handlerVars, Issued, AllIn
<1> QED
  BY <1>1, <1>2, <1>3, <1>4, <1>5, <1>6, <1>7, <1>8, <1>9, <1>10, <1>11, <1>12, <1>13
  DEF Next, HandlerStep, ClientStep

(* aggregate.go:102-113, ARCHITECTURE.md:279-281 -- the versions recorded  *)
(* for the first page are those of every page, whatever happens to the     *)
(* clusters, the configuration and the answers in between.                 *)
THEOREM VersionsStable == Spec => []VersionsAreStable
<1>1. PInv => VersionsAreStable
  BY DEF PInv, AnswerStands, AllIn, VersionsAreStable
<1> QED
  BY <1>1, InitPInv, StepPInv, PTL DEF Spec

(* aggregate.go:246-263, ROUTING.md:89 -- no cluster is ever sent another  *)
(* cluster's continue token, for any two target lists.                     *)
THEOREM TokenReturns == Spec => []TokenReturnsToItsIssuer
<1>1. PInv => TokenReturnsToItsIssuer
  BY DEF PInv, HandlerStands, Issued, Continues, TokenReturnsToItsIssuer
<1> QED
  BY <1>1, InitPInv, StepPInv, PTL DEF Spec
------------------------------------------------------------------------------
(* Listings as values: what a cluster's collection S holds above a key, as *)
(* entries, and the first n clusters of a listing in the histories h.      *)
Above(t, S, k) == Entries(t, Ascending({l \in S : l > k}))
Whole(h, list, vector, n) ==
    FlattenSeq([i \in 1..n |-> Above(list[i], h[list[i]][vector[list[i]]], 0)])

LEMMA AscendingSorts ==
    ASSUME NEW S \in SUBSET Keys
    PROVE  /\ Cardinality(S) \in Nat
           /\ IsSorting(Ascending(S), Cardinality(S), S)
<1>1. S \in SUBSET Nat /\ IsFiniteSet(S) /\ Cardinality(S) \in Nat
  BY PagesAssumption, FS_Subset, FS_CardinalityType
<1> DEFINE n == Cardinality(S)
           Fit(s) == Range(s) = S /\ \A i, j \in DOMAIN s : i < j => s[i] < s[j]
<1>2. PICK s : IsSorting(s, n, S)
  BY <1>1, SortingExists
<1>3. s \in [1..n -> S] /\ Fit(s)
  BY <1>2 DEF IsSorting, Range
<1> HIDE DEF n
<1>4. Ascending(S) = CHOOSE t \in [1..n -> S] : Fit(t)
  BY DEF Ascending, n
<1>5. Ascending(S) \in [1..n -> S] /\ Fit(Ascending(S))
  <2> HIDE DEF Fit
  <2> QED
    BY <1>3, <1>4
<1>6. IsSorting(Ascending(S), n, S)
  BY <1>5 DEF IsSorting, Range
<1> QED
  BY <1>1, <1>6 DEF n

LEMMA AscendingLen ==
    ASSUME NEW S \in SUBSET Keys
    PROVE  /\ Ascending(S) \in Seq(Keys)
           /\ Len(Ascending(S)) = Cardinality(S)
           /\ Len(Ascending(S)) \in Nat
           /\ IsSorting(Ascending(S), Len(Ascending(S)), S)
           /\ \A i \in 1..Len(Ascending(S)) : Ascending(S)[i] \in S
<1>1. Cardinality(S) \in Nat /\ IsSorting(Ascending(S), Cardinality(S), S)
  BY AscendingSorts
<1>2. Ascending(S) \in [1..Cardinality(S) -> S]
  BY <1>1 DEF IsSorting
<1>3. Ascending(S) \in Seq(Keys) /\ Len(Ascending(S)) = Cardinality(S)
  BY <1>1, <1>2
<1> QED
  BY <1>1, <1>2, <1>3

LEMMA EntriesType ==
    ASSUME NEW t \in Contexts, NEW keys \in Seq(Keys)
    PROVE  Entries(t, keys) \in Seq(Entry) /\ Len(Entries(t, keys)) = Len(keys)
<1>1. DOMAIN keys = 1..Len(keys) /\ Len(keys) \in Nat /\ \A i \in 1..Len(keys) : keys[i] \in Keys
  OBVIOUS
<1> QED
  BY <1>1 DEF Entries, Entry

LEMMA AboveType ==
    ASSUME NEW t \in Contexts, NEW S \in SUBSET Keys, NEW k
    PROVE  Above(t, S, k) \in Seq(Entry)
<1>1. {l \in S : l > k} \in SUBSET Keys
  OBVIOUS
<1> QED
  BY <1>1, AscendingLen, EntriesType DEF Above

LEMMA ConcatIs ==
    ASSUME NEW S, NEW r \in Seq(S), NEW s \in Seq(S)
    PROVE  /\ r \o s \in Seq(S) /\ Len(r \o s) = Len(r) + Len(s)
           /\ \A i \in 1..Len(r) + Len(s) : (r \o s)[i] = IF i <= Len(r) THEN r[i] ELSE s[i - Len(r)]
  OBVIOUS

(* A server that has returned n of its keys has those above the n-th left. *)
LEMMA AboveSplits ==
    ASSUME NEW t \in Contexts, NEW S \in SUBSET Keys, NEW k \in Nat,
           NEW n \in 1..Len(Ascending({l \in S : l > k}))
    PROVE  LET keys == Ascending({l \in S : l > k})
           IN /\ keys[n] \in Keys
              /\ Above(t, S, k) = Entries(t, SubSeq(keys, 1, n)) \o Above(t, S, keys[n])
<1> DEFINE T == {l \in S : l > k}
           keys == Ascending(T)
           m == Len(keys)
<1>1. T \in SUBSET Keys /\ T \in SUBSET Nat
  BY PagesAssumption
<1>2. keys \in Seq(Keys) /\ m \in Nat /\ IsSorting(keys, m, T) /\ \A i \in 1..m : keys[i] \in T
  BY <1>1, AscendingLen
<1>3. n \in 1..m
  OBVIOUS
<1> DEFINE U == {l \in T : l > keys[n]}
           rest == [i \in 1..m - n |-> keys[i + n]]
<1> HIDE DEF T, keys, m
<1>4. IsSorting(rest, m - n, U)
  BY <1>1, <1>2, <1>3, SortingSuffix
<1>5. U \in SUBSET Keys /\ U \in SUBSET Nat
  BY <1>1
<1>6. Ascending(U) = rest
  <2>1. Cardinality(U) \in Nat /\ IsSorting(Ascending(U), Cardinality(U), U)
    BY <1>5, AscendingSorts
  <2>2. m - n \in Nat
    BY <1>2, <1>3
  <2> HIDE DEF U, rest
  <2> QED
    BY <1>4, <1>5, <2>1, <2>2, SortingUnique
<1>7. U = {l \in S : l > keys[n]}
  <2>1. keys[n] \in Nat /\ keys[n] > k
    BY <1>1, <1>2, <1>3 DEF T
  <2>2. ASSUME NEW l \in S, l > keys[n] PROVE l > k
    BY <2>1, <2>2, PagesAssumption
  <2> QED
    BY <2>2 DEF T
<1> HIDE DEF U
<1> DEFINE whole == Entries(t, keys)
           first == Entries(t, SubSeq(keys, 1, n))
           last == Entries(t, rest)
<1>8. /\ SubSeq(keys, 1, n) \in Seq(Keys) /\ Len(SubSeq(keys, 1, n)) = n
      /\ \A i \in 1..n : SubSeq(keys, 1, n)[i] = keys[i]
  BY <1>2, <1>3, m = Len(keys) DEF m
<1>9. rest \in Seq(Keys) /\ Len(rest) = m - n /\ \A i \in 1..m - n : rest[i] = keys[i + n]
  <2>1. \A i \in 1..m - n : i + n \in 1..m /\ keys[i + n] \in Keys
    <3>1. \A i \in 1..m - n : i + n \in 1..m
      BY <1>2, <1>3
    <3> QED
      BY <1>1, <1>2, <3>1
  <2>2. m - n \in Nat
    BY <1>2, <1>3
  <2> QED
    BY <2>1, <2>2
<1>10. /\ whole \in Seq(Entry) /\ Len(whole) = m /\ \A i \in 1..m : whole[i] = <<t, keys[i]>>
       /\ first \in Seq(Entry) /\ Len(first) = n /\ \A i \in 1..n : first[i] = <<t, keys[i]>>
       /\ last \in Seq(Entry) /\ Len(last) = m - n /\ \A i \in 1..m - n : last[i] = <<t, keys[i + n]>>
  <2>1. ASSUME NEW s \in Seq(Keys) PROVE \A i \in 1..Len(s) : Entries(t, s)[i] = <<t, s[i]>>
    BY DEF Entries
  <2> HIDE DEF rest
  <2>2. whole \in Seq(Entry) /\ Len(whole) = m /\ \A i \in 1..m : whole[i] = <<t, keys[i]>>
    BY <1>2, <2>1, EntriesType DEF m
  <2>3. first \in Seq(Entry) /\ Len(first) = n /\ \A i \in 1..n : first[i] = <<t, keys[i]>>
    BY <1>8, <2>1, EntriesType
  <2>4. last \in Seq(Entry) /\ Len(last) = m - n /\ \A i \in 1..m - n : last[i] = <<t, keys[i + n]>>
    BY <1>9, <2>1, EntriesType
  <2> QED
    BY <2>2, <2>3, <2>4
<1> HIDE DEF whole, first, last, rest
<1>11. whole = first \o last
  <2>1. /\ first \o last \in Seq(Entry) /\ Len(first \o last) = m
        /\ \A i \in 1..m : (first \o last)[i] = IF i <= n THEN first[i] ELSE last[i - n]
    <3>1. n \in Nat /\ n + (m - n) = m
      BY <1>2, <1>3
    <3>2. /\ first \o last \in Seq(Entry) /\ Len(first \o last) = Len(first) + Len(last)
          /\ \A i \in 1..Len(first) + Len(last) :
               (first \o last)[i] = IF i <= Len(first) THEN first[i] ELSE last[i - Len(first)]
      <4>1. first \in Seq(Entry) /\ last \in Seq(Entry)
        BY <1>10
      <4> QED
        BY <4>1, ConcatIs
    <3> QED
      BY <1>10, <3>1, <3>2
  <2>2. ASSUME NEW i \in 1..m PROVE whole[i] = (first \o last)[i]
    <3>1. CASE i <= n
      <4>1. i \in 1..n
        BY <1>2, <1>3, <3>1
      <4> QED
        BY <1>10, <2>1, <3>1, <4>1
    <3>2. CASE ~(i <= n)
      <4>1. i - n \in 1..m - n /\ (i - n) + n = i
        BY <1>2, <1>3, <3>2
      <4> QED
        BY <1>10, <2>1, <3>2, <4>1
    <3> QED
      BY <3>1, <3>2
  <2> QED
    BY <1>10, <2>1, <2>2, SeqEqual
<1>12. keys[n] \in Keys
  BY <1>1, <1>2, <1>3
<1> QED
  BY <1>6, <1>7, <1>11, <1>12 DEF Above, T, keys, whole, first, last

(* One that has returned them all has returned what is above k.            *)
LEMMA AboveWhole ==
    ASSUME NEW t \in Contexts, NEW S \in SUBSET Keys, NEW k
    PROVE  LET keys == Ascending({l \in S : l > k})
           IN Entries(t, SubSeq(keys, 1, Len(keys))) = Above(t, S, k)
<1>1. {l \in S : l > k} \in SUBSET Keys
  OBVIOUS
<1> QED
  BY <1>1, AscendingLen, SubSeqFull DEF Above

LEMMA WholeStep ==
    ASSUME NEW h, NEW list, NEW vector, NEW n \in Nat \ {0}
    PROVE  Whole(h, list, vector, n + 1) =
             Whole(h, list, vector, n) \o Above(list[n + 1], h[list[n + 1]][vector[list[n + 1]]], 0)
<1> DEFINE f == [i \in Nat |-> Above(list[i], h[list[i]][vector[list[i]]], 0)]
<1>1. \A m \in Nat : [i \in 1..m |-> f[i]] = [i \in 1..m |-> Above(list[i], h[list[i]][vector[list[i]]], 0)]
  OBVIOUS
<1>2. n + 1 \in Nat /\ f[n + 1] = Above(list[n + 1], h[list[n + 1]][vector[list[n + 1]]], 0)
  OBVIOUS
<1> HIDE DEF f
<1>3. FlattenSeq([i \in 1..n + 1 |-> f[i]]) = FlattenSeq([i \in 1..n |-> f[i]]) \o f[n + 1]
  BY FlattenStep
<1> QED
  BY <1>1, <1>2, <1>3 DEF Whole

LEMMA WholeOne ==
    ASSUME NEW h, NEW list, NEW vector
    PROVE  Whole(h, list, vector, 1) = Above(list[1], h[list[1]][vector[list[1]]], 0)
<1> DEFINE f == [i \in 1..1 |-> Above(list[i], h[list[i]][vector[list[i]]], 0)]
<1>1. f = [i \in 1..1 |-> f[i]] /\ f[1] = Above(list[1], h[list[1]][vector[list[1]]], 0)
  OBVIOUS
<1>2. FlattenSeq([i \in 1..1 |-> f[i]]) = f[1]
  BY FlattenOne
<1> HIDE DEF f
<1> QED
  BY <1>1, <1>2 DEF Whole, f

(* Histories that agree on the versions of a listing agree on the listing. *)
LEMMA WholeKept ==
    ASSUME NEW h, NEW g, NEW list, NEW vector, NEW n \in Nat,
           \A i \in 1..n : g[list[i]][vector[list[i]]] = h[list[i]][vector[list[i]]]
    PROVE  Whole(g, list, vector, n) = Whole(h, list, vector, n)
<1>1. [i \in 1..n |-> Above(list[i], g[list[i]][vector[list[i]]], 0)]
        = [i \in 1..n |-> Above(list[i], h[list[i]][vector[list[i]]], 0)]
  OBVIOUS
<1> QED
  BY <1>1 DEF Whole

LEMMA WholeType ==
    ASSUME NEW h, NEW list, NEW vector, NEW n \in Nat,
           \A i \in 1..n : list[i] \in Contexts /\ h[list[i]][vector[list[i]]] \in SUBSET Keys
    PROVE  Whole(h, list, vector, n) \in Seq(Entry)
<1> DEFINE f == [i \in 1..n |-> Above(list[i], h[list[i]][vector[list[i]]], 0)]
<1>1. \A i \in 1..n : f[i] \in Seq(Entry)
  BY AboveType
<1>2. f = [i \in 1..n |-> f[i]]
  OBVIOUS
<1> HIDE DEF f
<1>3. FlattenSeq([i \in 1..n |-> f[i]]) \in Seq(Entry)
  BY <1>1, FlattenType
<1> QED
  BY <1>2, <1>3 DEF Whole, f
------------------------------------------------------------------------------
(* Every version that is recorded anywhere exists in its cluster's history *)
(* (or is the missing one), so that reading at it is defined.              *)
KnownIn(h, vector) == \A t \in Contexts : vector[t] <= Len(h[t])
CursorIn(h, cur) ==
    /\ KnownIn(h, cur.versions)
    /\ cur.continue # None => cur.continue.version <= Len(h[cur.continue.issuer])

Recorded ==
    /\ KnownIn(history, versions)
    /\ token # None => CursorIn(history, token)
    /\ cursor # None => CursorIn(history, cursor)
    /\ answer # None =>
         /\ KnownIn(history, answer.versions)
         /\ answer.token # None => CursorIn(history, answer.token)
    /\ listing # None => KnownIn(history, listing.versions)

CursorStands ==
    /\ handler \in {"asking", "reading"} => cursor # None
    /\ handler = "asking" => cursor.target = 1

TInv == TypeOK /\ Recorded /\ CursorStands

(* What is left of a listing from a cursor on, in the cursor's own target. *)
Left(h, cur) ==
    LET t == cur.targets[cur.target]
    IN IF cur.continue # None THEN Above(t, h[t][cur.continue.version], cur.continue.after)
       ELSE Above(t, h[t][cur.versions[t]], 0)

(* got, and what is left from the cursor, is all up to the cursor's target.*)
Continued(h, got, cur) ==
    /\ cur.targets \in TargetLists /\ cur.target <= Len(cur.targets)
    /\ AllIn(cur.targets, cur.versions) /\ Issued(cur)
    /\ got \o Left(h, cur) = Whole(h, cur.targets, cur.versions, cur.target)

TokenContinues ==
    /\ token = None /\ client \in {"idle", "waiting"} => pages = <<>>
    /\ token # None =>
         /\ Continued(history, pages, token)
         /\ listing # None /\ listing.targets = token.targets

HandlerContinues ==
    /\ handler = "asking" => cursor.versions = NoVersions
    /\ handler = "reading" =>
         /\ index >= cursor.target
         /\ token # None => token.targets = targets
         /\ (pages \o items) \o Above(targets[index], history[targets[index]][ReadVersion], ReadAfter)
              = Whole(history, targets, versions, index)

AnswerContinues ==
    answer # None /\ answer.status = "ok" =>
        /\ listing # None => listing.targets = targets
        /\ answer.token = None =>
             pages \o answer.entries = Whole(history, targets, answer.versions, Len(targets))
        /\ answer.token # None =>
             /\ answer.token.targets = targets
             /\ Continued(history, pages \o answer.entries, answer.token)

ListingComplete ==
    client = "complete" =>
        /\ listing # None /\ AllIn(listing.targets, listing.versions)
        /\ pages = Whole(history, listing.targets, listing.versions, Len(listing.targets))

SInv == TokenContinues /\ HandlerContinues /\ AnswerContinues /\ ListingComplete

(* What has been read so far for this answer, and what it holds, is within *)
(* the limit, which a list without pages does not have.                    *)
LInv ==
    /\ handler # "reading" => items = <<>>
    /\ handler = "listing" => limit = 0
    /\ handler \in {"asking", "reading"} => limit > 0
    /\ limit > 0 => Len(items) <= limit
    /\ PageIsWithinItsLimit
------------------------------------------------------------------------------
LEMMA InitTInv == Init => TInv
<1> SUFFICES ASSUME Init PROVE TInv
  OBVIOUS
<1>1. history \in [Contexts -> Seq(SUBSET Keys)] /\ \A t \in Contexts : Len(history[t]) = 1
  <2>1. \A S \in SUBSET Keys : <<S>> \in Seq(SUBSET Keys) /\ Len(<<S>>) = 1
    OBVIOUS
  <2>2. \A h \in [Contexts -> {<<S>> : S \in SUBSET Keys}] : \A t \in Contexts :
          \E S \in SUBSET Keys : h[t] = <<S>>
    OBVIOUS
  <2>3. history \in [Contexts -> {<<S>> : S \in SUBSET Keys}]
    BY DEF Init
  <2>4. \A t \in Contexts : history[t] \in Seq(SUBSET Keys) /\ Len(history[t]) = 1
    BY <2>1, <2>2, <2>3
  <2> QED
    BY <2>3, <2>4
<1>2. targets \in TargetLists /\ Len(targets) \in Nat /\ 1 \in 1..Len(targets)
  BY PagesAssumption DEF Init
<1>3. versions \in VersionVector /\ \A t \in Contexts : versions[t] <= Len(history[t])
  BY <1>1, PagesAssumption DEF Init, NoVersions, VersionVector
<1>4. TypeOK
  <2>1. /\ oldest \in [Contexts -> Nat]
        /\ \A t \in Contexts : Len(history[t]) \in 1..MaxVersion /\ oldest[t] \in 1..Len(history[t])
    <3>1. oldest = [t \in Contexts |-> 1] /\ 1 \in 1..MaxVersion
      BY PagesAssumption DEF Init
    <3>2. oldest \in [Contexts -> Nat] /\ \A t \in Contexts : oldest[t] = 1
      BY <3>1
    <3>3. \A t \in Contexts : Len(history[t]) = 1
      BY <1>1
    <3>4. 1 \in 1..1
      OBVIOUS
    <3> QED
      BY <3>1, <3>2, <3>3, <3>4, Zenon
  <2>2. pages \in Seq(Entry) /\ items \in Seq(Entry) /\ losses \in 0..MaxLosses
    BY PagesAssumption DEF Init
  <2> QED
    BY <1>1, <1>2, <1>3, <2>1, <2>2, Zenon DEF Init, TypeOK
<1>5. Recorded /\ CursorStands
  BY <1>3 DEF Init, Recorded, CursorStands, KnownIn
<1> QED
  BY <1>4, <1>5 DEF TInv

(* Only a cluster changes its history, and it only adds to it.             *)
LEMMA HistoryGrows ==
    ASSUME TypeOK, [Next]_vars, NEW t \in Contexts
    PROVE  /\ Len(history[t]) \in Nat /\ Len(history'[t]) \in Nat
           /\ Len(history[t]) <= Len(history'[t])
           /\ \A v \in 1..Len(history[t]) : history'[t][v] = history[t][v]
<1>1. history[t] \in Seq(SUBSET Keys) /\ Len(history[t]) \in Nat
  BY DEF TypeOK
<1>2. CASE UNCHANGED history
  BY <1>1, <1>2
<1>3. ASSUME NEW s \in Contexts, ClusterChanges(s)
      PROVE  \/ history'[t] = history[t]
             \/ \E S : history'[t] = Append(history[t], S)
  BY <1>3 DEF ClusterChanges, TypeOK
<1>4. CASE \E S : history'[t] = Append(history[t], S)
  BY <1>1, <1>4
<1>5. UNCHANGED history \/ \E s \in Contexts : ClusterChanges(s)
  BY Zenon DEF Next, HandlerStep, ClientStep, Ask, VersionsKnown, Merge, ReadTarget, ReadExpired, CallFails,
     Fail, RequestList, RequestFirstPage, RequestNextPage, RequestMistaken, Receive, Lose, Reconfigure,
     Compact, HandlerKept, clusterVars, vars
<1> QED
  BY <1>1, <1>2, <1>3, <1>4, <1>5

(* What is being read is there.                                            *)
LEMMA ReadingStands ==
    ASSUME PInv, TInv, handler = "reading"
    PROVE  /\ targets \in Seq(Contexts) /\ Len(targets) \in Nat
           /\ index \in 1..Len(targets) /\ targets[index] \in Contexts
           /\ ReadVersion \in 1..MaxVersion
           /\ ReadVersion <= Len(history[targets[index]])
           /\ history[targets[index]][ReadVersion] \in SUBSET Keys
           /\ ReadAfter \in Nat
           /\ limit \in Nat
<1>1. /\ targets \in Seq(Contexts) /\ Len(targets) \in Nat /\ index \in 1..Len(targets)
      /\ limit \in Nat
  BY PagesAssumption DEF TInv, TypeOK
<1> DEFINE t == targets[index]
<1>2. t \in Contexts /\ t \in Range(targets)
  BY <1>1 DEF Range
<1>3. history[t] \in Seq(SUBSET Keys) /\ Len(history[t]) \in 1..MaxVersion
  BY <1>2 DEF TInv, TypeOK
<1>4. ReadVersion \in 1..MaxVersion /\ ReadVersion <= Len(history[t]) /\ ReadAfter \in Nat
  <2>1. cursor \in Cursor /\ CursorIn(history, cursor) /\ Issued(cursor) /\ cursor.targets = targets
    BY DEF TInv, TypeOK, Recorded, CursorStands, PInv, HandlerStands
  <2>2. CASE Continues
    <3>1. cursor.continue \in Continue
      BY <2>1, <2>2 DEF Continues, Cursor
    <3>2. cursor.continue.issuer = t
      BY <2>1, <2>2 DEF Continues, Issued
    <3>3. cursor.continue.version \in 1..MaxVersion /\ cursor.continue.after \in Nat
      BY <3>1, PagesAssumption DEF Continue
    <3>4. cursor.continue.version <= Len(history[t])
      BY <2>1, <2>2, <3>2 DEF Continues, CursorIn
    <3>5. ReadVersion = cursor.continue.version /\ ReadAfter = cursor.continue.after
      BY <2>2 DEF ReadVersion, ReadAfter
    <3> QED
      BY <3>3, <3>4, <3>5
  <2>3. CASE ~Continues
    <3>1. versions[t] # 0 /\ versions[t] <= Len(history[t]) /\ versions[t] \in 0..MaxVersion
      BY <1>2 DEF PInv, HandlerStands, AllIn, TInv, Recorded, KnownIn, TypeOK, VersionVector
    <3>2. versions[t] \in 1..MaxVersion
      BY <3>1, PagesAssumption
    <3>3. ReadVersion = versions[t] /\ ReadAfter = 0
      BY <2>3 DEF ReadVersion, ReadAfter
    <3> QED
      BY <3>1, <3>2, <3>3
  <2> QED
    BY <2>2, <2>3
<1>5. history[t][ReadVersion] \in SUBSET Keys
  BY <1>3, <1>4, PagesAssumption
<1> QED
  BY <1>1, <1>2, <1>4, <1>5

(* A turn of the loop: what has been read, and what is left of the target, *)
(* are still what was left of it before.                                   *)
LEMMA ReadTargetReads ==
    ASSUME PInv, TInv, ReadTarget
    PROVE  LET t == targets[index]
               left(k) == Above(t, history[t][ReadVersion], k)
           IN \E read \in Seq(Entry) :
                /\ IgnoresLimit = {} /\ Len(items) <= limit => Len(read) <= limit
                /\ \/ \E k \in Keys :
                        /\ items \o left(ReadAfter) = read \o left(k)
                        /\ UNCHANGED index
                        /\ Respond("ok", read, NextCursor(index, [issuer |-> t, version |-> ReadVersion, after |-> k]))
                   \/ /\ items \o left(ReadAfter) = read
                      /\ \/ /\ index < Len(targets) /\ UNCHANGED index
                            /\ Respond("ok", read, NextCursor(index + 1, None))
                         \/ /\ index = Len(targets) \/ Len(read) > limit
                            /\ UNCHANGED index
                            /\ Respond("ok", read, None)
                         \/ /\ index < Len(targets) /\ index' = index + 1
                            /\ items' = read /\ UNCHANGED <<handler, answer>>
<1> DEFINE t == targets[index]
           S == history[t][ReadVersion]
           left(k) == Above(t, S, k)
           keys == Ordered(t, ReadVersion, ReadAfter)
           read(n) == items \o Entries(t, SubSeq(keys, 1, n))
           continue(n) == [issuer |-> t, version |-> ReadVersion, after |-> keys[n]]
<1>1. handler = "reading"
  BY DEF ReadTarget
<1>2. /\ index \in 1..Len(targets) /\ Len(targets) \in Nat /\ t \in Contexts
      /\ S \in SUBSET Keys /\ ReadAfter \in Nat /\ limit \in Nat
  BY <1>1, ReadingStands
<1>3. PICK n \in Counts(t, Len(keys), Asked) :
        \/ n < Len(keys) /\ Respond("ok", read(n), NextCursor(index, continue(n))) /\ UNCHANGED index
        \/ /\ n = Len(keys) /\ index < Len(targets)
           /\ Respond("ok", read(n), NextCursor(index + 1, None)) /\ UNCHANGED index
        \/ /\ n = Len(keys) /\ (index = Len(targets) \/ Len(read(n)) > limit)
           /\ Respond("ok", read(n), None) /\ UNCHANGED index
        \/ /\ ~(n < Len(keys)) /\ ~(n = Len(keys) /\ (index = Len(targets) \/ Len(read(n)) > limit))
           /\ items' = read(n) /\ index' = index + 1 /\ UNCHANGED <<handler, answer>>
  BY Zenon DEF ReadTarget
<1>4. keys = Ascending({l \in S : l > ReadAfter})
  BY DEF Ordered
<1>5. keys \in Seq(Keys) /\ Len(keys) \in Nat
  <2>1. {l \in S : l > ReadAfter} \in SUBSET Keys
    BY <1>2
  <2> QED
    BY <1>4, <2>1, AscendingLen
<1> HIDE DEF keys
<1>6. /\ n \in 0..Len(keys)
      /\ n < Len(keys) => n # 0
      /\ IgnoresLimit = {} => n <= limit - Len(items)
  BY <1>5 DEF Counts, Asked
<1>7. items \in Seq(Entry) /\ Len(items) \in Nat
  BY DEF TInv, TypeOK
<1>8. Entries(t, SubSeq(keys, 1, n)) \in Seq(Entry) /\ Len(Entries(t, SubSeq(keys, 1, n))) = n
  <2>1. SubSeq(keys, 1, n) \in Seq(Keys) /\ Len(SubSeq(keys, 1, n)) = n
    BY <1>5, <1>6
  <2> QED
    BY <1>2, <2>1, EntriesType
<1>9. /\ read(n) \in Seq(Entry)
      /\ IgnoresLimit = {} /\ Len(items) <= limit => Len(read(n)) <= limit
  <2>1. read(n) \in Seq(Entry) /\ Len(read(n)) = Len(items) + n
    BY <1>7, <1>8, ConcatIs
  <2> HIDE DEF read
  <2> QED
    BY <1>2, <1>6, <1>7, <2>1
<1>10. CASE n < Len(keys)
  <2>1. n \in 1..Len(keys)
    BY <1>5, <1>6, <1>10
  <2>2. keys[n] \in Keys /\ left(ReadAfter) = Entries(t, SubSeq(keys, 1, n)) \o left(keys[n])
    BY <1>2, <1>4, <2>1, AboveSplits
  <2>3. left(keys[n]) \in Seq(Entry)
    BY <1>2, AboveType
  <2> HIDE DEF left
  <2>4. items \o left(ReadAfter) = read(n) \o left(keys[n])
    <3> DEFINE got == Entries(t, SubSeq(keys, 1, n))
    <3>1. read(n) = items \o got /\ left(ReadAfter) = got \o left(keys[n]) /\ got \in Seq(Entry)
      BY <1>8, <2>2
    <3> HIDE DEF got, read
    <3>2. (items \o got) \o left(keys[n]) = items \o (got \o left(keys[n]))
      <4>1. items \in Seq(Entry) /\ got \in Seq(Entry) /\ left(keys[n]) \in Seq(Entry)
        BY <1>7, <2>3, <3>1
      <4> QED
        BY <4>1, ConcatAssociative
    <3> QED
      BY <3>1, <3>2, Zenon
  <2>5. Respond("ok", read(n), NextCursor(index, continue(n))) /\ UNCHANGED index
    BY <1>3, <1>5, <1>6, <1>10
  <2> QED
    BY <1>9, <2>2, <2>4, <2>5 DEF left
<1>11. CASE n = Len(keys)
  <2>1. left(ReadAfter) = Entries(t, SubSeq(keys, 1, n))
    BY <1>2, <1>4, <1>11, AboveWhole
  <2> HIDE DEF left
  <2>2. items \o left(ReadAfter) = read(n)
    BY <2>1
  <2>3. ~(index = Len(targets)) => index < Len(targets)
    BY <1>2
  <2> HIDE DEF read
  <2>4. \/ index < Len(targets) /\ Respond("ok", read(n), NextCursor(index + 1, None)) /\ UNCHANGED index
        \/ /\ index = Len(targets) \/ Len(read(n)) > limit
           /\ Respond("ok", read(n), None) /\ UNCHANGED index
        \/ /\ index < Len(targets)
           /\ items' = read(n) /\ index' = index + 1 /\ UNCHANGED <<handler, answer>>
    BY <1>3, <1>5, <1>11, <2>3
  <2> QED
    BY <1>9, <2>2, <2>4 DEF left
<1>12. n < Len(keys) \/ n = Len(keys)
  BY <1>5, <1>6
<1> QED
  BY <1>10, <1>11, <1>12, Zenon

(* mergeLists joins what every target holds at the version it told.        *)
LEMMA MergedIsWhole ==
    ASSUME TInv, AllTold
    PROVE  LET entries == FlattenSeq([i \in DOMAIN targets |-> Snapshot(targets[i], versions[targets[i]])])
           IN entries = Whole(history, targets, versions, Len(targets)) /\ entries \in Seq(Entry)
<1>1. targets \in Seq(Contexts) /\ Len(targets) \in Nat /\ DOMAIN targets = 1..Len(targets)
  BY PagesAssumption DEF TInv, TypeOK
<1>2. \A t \in Contexts : \A v : Snapshot(t, v) = Above(t, history[t][v], 0)
  BY DEF Snapshot, Ordered, Above
<1>3. [i \in DOMAIN targets |-> Snapshot(targets[i], versions[targets[i]])]
        = [i \in 1..Len(targets) |-> Above(targets[i], history[targets[i]][versions[targets[i]]], 0)]
  BY <1>1, <1>2
<1>4. ASSUME NEW i \in 1..Len(targets)
      PROVE  targets[i] \in Contexts /\ history[targets[i]][versions[targets[i]]] \in SUBSET Keys
  <2>1. targets[i] \in Contexts /\ targets[i] \in Range(targets)
    BY <1>1 DEF Range
  <2>2. history[targets[i]] \in Seq(SUBSET Keys) /\ Len(history[targets[i]]) \in Nat
    <3>1. history[targets[i]] \in Seq(SUBSET Keys)
      BY <2>1 DEF TInv, TypeOK
    <3> QED
      BY <3>1
  <2>3. versions[targets[i]] \in 0..MaxVersion /\ versions[targets[i]] # 0
        /\ versions[targets[i]] <= Len(history[targets[i]])
    BY <2>1 DEF TInv, TypeOK, Recorded, KnownIn, VersionVector, AllTold
  <2>4. versions[targets[i]] \in 1..Len(history[targets[i]])
    BY <2>2, <2>3, PagesAssumption
  <2> QED
    BY <2>1, <2>2, <2>4
<1>5. Whole(history, targets, versions, Len(targets)) \in Seq(Entry)
  BY <1>1, <1>4, WholeType
<1> QED
  BY <1>3, <1>5, Zenon DEF Whole

LEMMA ClustersTyped ==
    ASSUME TypeOK, NEW t \in Contexts, ClusterChanges(t) \/ Compact(t)
    PROVE  /\ history' \in [Contexts -> Seq(SUBSET Keys)] /\ oldest' \in [Contexts -> Nat]
           /\ \A s \in Contexts : Len(history'[s]) \in 1..MaxVersion /\ oldest'[s] \in 1..Len(history'[s])
<1>1. /\ history \in [Contexts -> Seq(SUBSET Keys)] /\ oldest \in [Contexts -> Nat]
      /\ \A s \in Contexts : Len(history[s]) \in 1..MaxVersion /\ oldest[s] \in 1..Len(history[s])
  BY DEF TypeOK
<1>2. CASE ClusterChanges(t)
  <2>1. PICK k \in Keys :
          history' = [history EXCEPT ![t] =
            Append(@, IF k \in history[t][Len(history[t])] THEN history[t][Len(history[t])] \ {k}
                      ELSE history[t][Len(history[t])] \cup {k})]
    BY <1>2, Zenon DEF ClusterChanges, Current
  <2> DEFINE now == history[t][Len(history[t])]
             new == IF k \in now THEN now \ {k} ELSE now \cup {k}
  <2>2. history[t] \in Seq(SUBSET Keys) /\ Len(history[t]) \in 1..MaxVersion
        /\ Len(history[t]) < MaxVersion /\ oldest' = oldest
    BY <1>1, <1>2 DEF ClusterChanges, Current
  <2>3. now \in SUBSET Keys
    BY <2>2, PagesAssumption
  <2>4. new \in SUBSET Keys
    BY <2>3
  <2>5. history' = [history EXCEPT ![t] = Append(history[t], new)]
    BY <1>1, <2>1
  <2> HIDE DEF now, new
  <2>6. Append(history[t], new) \in Seq(SUBSET Keys) /\ Len(Append(history[t], new)) = Len(history[t]) + 1
    BY <2>2, <2>4
  <2>7. Len(history[t]) + 1 \in 1..MaxVersion
    BY <2>2, PagesAssumption
  <2>8. history' \in [Contexts -> Seq(SUBSET Keys)]
    BY <1>1, <2>5, <2>6
  <2>9. /\ history'[t] = Append(history[t], new)
        /\ \A s \in Contexts : s # t => history'[s] = history[s]
    BY <1>1, <2>5
  <2>10. ASSUME NEW s \in Contexts
         PROVE  Len(history'[s]) \in 1..MaxVersion /\ oldest'[s] \in 1..Len(history'[s])
    <3>1. CASE s = t
      <4>1. oldest[t] \in 1..Len(history[t]) + 1
        BY <1>1, <2>2, PagesAssumption
      <4> QED
        BY <2>2, <2>6, <2>7, <2>9, <3>1, <4>1
    <3>2. CASE s # t
      BY <1>1, <2>2, <2>9, <3>2
    <3> QED
      BY <3>1, <3>2
  <2> QED
    BY <1>1, <2>2, <2>8, <2>10
<1>3. CASE Compact(t)
  <2>1. oldest' = [oldest EXCEPT ![t] = oldest[t] + 1] /\ oldest[t] < Len(history[t]) /\ history' = history
    BY <1>1, <1>3 DEF Compact, Current
  <2>2. oldest[t] + 1 \in 1..Len(history[t]) /\ oldest[t] + 1 \in Nat
    BY <1>1, <2>1, PagesAssumption
  <2> QED
    BY <1>1, <2>1, <2>2
<1> QED
  BY <1>2, <1>3

LEMMA RespondTyped ==
    ASSUME TypeOK, NEW status \in {"ok", "rejected", "failed"}, NEW entries \in Seq(Entry),
           NEW next \in Cursor \cup {None}, Respond(status, entries, next)
    PROVE  /\ answer' \in AnswerType /\ answer'.versions = versions /\ answer'.token = next
           /\ handler' = "idle" /\ items' = <<>> /\ items' \in Seq(Entry)
<1>1. versions \in VersionVector
  BY DEF TypeOK
<1> QED
  BY <1>1 DEF Respond, AnswerType

LEMMA NoVersionsKnown ==
    ASSUME TypeOK
    PROVE  NoVersions \in VersionVector /\ KnownIn(history, NoVersions)
<1>1. \A t \in Contexts : Len(history[t]) \in Nat /\ 0 <= Len(history[t])
  BY PagesAssumption DEF TypeOK
<1>2. 0 \in 0..MaxVersion
  BY PagesAssumption
<1> QED
  BY <1>1, <1>2 DEF NoVersions, VersionVector, KnownIn

LEMMA StepTInv == PInv /\ TInv /\ [Next]_vars => TInv'
<1> SUFFICES ASSUME PInv, TInv, [Next]_vars PROVE TInv'
  OBVIOUS
<1> USE DEF TInv
<1>0. TypeOK /\ Recorded /\ CursorStands
  OBVIOUS
<1>1. ASSUME NEW t \in Contexts, Ask(t) PROVE TInv'
  <2>1. /\ handler \in {"asking", "listing"} /\ versions' = [versions EXCEPT ![t] = Len(history[t])]
        /\ UNCHANGED <<history, oldest, targets, client, token, pages, listing, losses, limit, cursor,
                       handler, index, items, answer>>
    BY <1>1 DEF Ask, Current, HandlerKept, clusterVars, clientVars
  <2>2. Len(history[t]) \in 0..MaxVersion /\ \A s \in Contexts : Len(history[s]) \in Nat
    <3>1. \A s \in Contexts : Len(history[s]) \in 0..MaxVersion
      BY DEF TypeOK
    <3> QED
      BY <3>1, PagesAssumption
  <2>3. versions' \in VersionVector /\ KnownIn(history, versions')
    BY <2>1, <2>2 DEF TypeOK, VersionVector, Recorded, KnownIn
  <2>4. TypeOK'
    BY <2>1, <2>3 DEF TypeOK
  <2>5. Recorded' /\ CursorStands'
    BY <2>1, <2>3 DEF Recorded, CursorStands
  <2> QED
    BY <2>4, <2>5
<1>2. CASE CallFails \/ ReadExpired
  <2>1. Respond("failed", <<>>, None) /\ UNCHANGED <<HandlerKept, versions, index>>
    BY <1>2 DEF CallFails, ReadExpired, Fail
  <2>2. <<>> \in Seq(Entry)
    OBVIOUS
  <2>3. answer' \in AnswerType /\ answer'.versions = versions /\ answer'.token = None
        /\ handler' = "idle" /\ items' \in Seq(Entry)
    BY <2>1, <2>2, RespondTyped
  <2>4. TypeOK'
    BY <2>1, <2>3 DEF TypeOK, HandlerKept, clusterVars, clientVars
  <2>5. Recorded' /\ CursorStands'
    BY <2>1, <2>3 DEF Recorded, CursorStands, HandlerKept, clusterVars, clientVars
  <2> QED
    BY <2>4, <2>5
<1>3. CASE VersionsKnown
  <2>1. handler = "asking" /\ handler' = "reading" /\ index' = cursor.target
        /\ UNCHANGED <<HandlerKept, versions, items, answer>>
    BY <1>3 DEF VersionsKnown
  <2>2. cursor # None /\ cursor.target = 1 /\ 1 \in 1..Len(targets)
    BY <2>1, PagesAssumption DEF CursorStands, TypeOK
  <2>3. TypeOK'
    BY <2>1, <2>2 DEF TypeOK, HandlerKept, clusterVars, clientVars
  <2>4. Recorded' /\ CursorStands'
    BY <2>1, <2>2 DEF Recorded, CursorStands, HandlerKept, clusterVars, clientVars
  <2> QED
    BY <2>3, <2>4
<1>4. CASE Merge
  <2> DEFINE entries == FlattenSeq([i \in DOMAIN targets |-> Snapshot(targets[i], versions[targets[i]])])
  <2>1. handler = "listing" /\ AllTold /\ Respond("ok", entries, None)
        /\ UNCHANGED <<HandlerKept, versions, index>>
    BY <1>4 DEF Merge
  <2>2. entries = Whole(history, targets, versions, Len(targets)) /\ entries \in Seq(Entry)
    BY <2>1, MergedIsWhole
  <2> HIDE DEF entries
  <2>3. answer' \in AnswerType /\ answer'.versions = versions /\ answer'.token = None
        /\ handler' = "idle" /\ items' \in Seq(Entry)
    BY <2>1, <2>2, RespondTyped
  <2>4. TypeOK'
    BY <2>1, <2>3 DEF TypeOK, HandlerKept, clusterVars, clientVars
  <2>5. Recorded' /\ CursorStands'
    BY <2>1, <2>3 DEF Recorded, CursorStands, HandlerKept, clusterVars, clientVars
  <2> QED
    BY <2>4, <2>5
<1>5. CASE ReadTarget
  <2>1. handler = "reading" /\ UNCHANGED <<HandlerKept, versions>>
    BY <1>5, Zenon DEF ReadTarget
  <2> DEFINE t == targets[index]
             continue(k) == [issuer |-> t, version |-> ReadVersion, after |-> k]
  <2>2. PICK read \in Seq(Entry) :
          \/ \E k \in Keys : UNCHANGED index /\ Respond("ok", read, NextCursor(index, continue(k)))
          \/ index < Len(targets) /\ UNCHANGED index /\ Respond("ok", read, NextCursor(index + 1, None))
          \/ UNCHANGED index /\ Respond("ok", read, None)
          \/ /\ index < Len(targets) /\ index' = index + 1
             /\ items' = read /\ UNCHANGED <<handler, answer>>
    BY <1>5, ReadTargetReads, Zenon
  <2>3. /\ index \in 1..Len(targets) /\ Len(targets) \in Nat /\ targets \in Seq(Contexts) /\ t \in Contexts
        /\ ReadVersion \in 1..MaxVersion /\ ReadVersion <= Len(history[t])
    BY <2>1, ReadingStands
  <2>4. CASE index < Len(targets) /\ index' = index + 1 /\ items' = read /\ UNCHANGED <<handler, answer>>
    <3>1. index + 1 \in 1..Len(targets)
      BY <2>3, <2>4
    <3>2. TypeOK'
      BY <2>1, <2>4, <3>1 DEF TypeOK, HandlerKept, clusterVars, clientVars
    <3>3. Recorded' /\ CursorStands'
      BY <2>1, <2>4 DEF Recorded, CursorStands, HandlerKept, clusterVars, clientVars
    <3> QED
      BY <3>2, <3>3
  <2>5. ASSUME NEW next \in Cursor \cup {None}, next # None => CursorIn(history, next),
               UNCHANGED index, Respond("ok", read, next)
        PROVE  TInv'
    <3>1. answer' \in AnswerType /\ answer'.versions = versions /\ answer'.token = next
          /\ handler' = "idle" /\ items' \in Seq(Entry)
      BY <2>5, RespondTyped
    <3>2. TypeOK'
      BY <2>1, <2>5, <3>1 DEF TypeOK, HandlerKept, clusterVars, clientVars
    <3>3. Recorded' /\ CursorStands'
      BY <2>1, <2>5, <3>1 DEF Recorded, CursorStands, HandlerKept, clusterVars, clientVars
    <3> QED
      BY <3>2, <3>3
  <2>6. ASSUME NEW k \in Keys
        PROVE  LET next == NextCursor(index, continue(k)) IN next \in Cursor /\ CursorIn(history, next)
    <3>1. index \in Nat \ {0} /\ continue(k) \in Continue /\ versions \in VersionVector
      BY <2>3 DEF Continue, TypeOK
    <3> QED
      BY <2>3, <3>1 DEF NextCursor, Cursor, CursorIn, Recorded
  <2>7. LET next == NextCursor(index + 1, None) IN next \in Cursor /\ CursorIn(history, next)
    <3>1. index + 1 \in Nat \ {0} /\ versions \in VersionVector
      BY <2>3 DEF TypeOK
    <3> QED
      BY <2>3, <3>1 DEF NextCursor, Cursor, CursorIn, Recorded
  <2> HIDE DEF continue, t
  <2> QED
    BY <2>2, <2>4, <2>5, <2>6, <2>7, Zenon
<1>6. CASE RequestList
  <2>1. TypeOK'
    BY <1>6, NoVersionsKnown DEF RequestList, Request, TypeOK, clusterVars
  <2>2. Recorded' /\ CursorStands'
    BY <1>6, NoVersionsKnown DEF RequestList, Request, Recorded, CursorStands, clusterVars
  <2> QED
    BY <2>1, <2>2
<1>7. CASE RequestFirstPage
  <2>1. /\ cursor' \in Cursor /\ cursor' # None
        /\ cursor'.target = 1 /\ cursor'.continue = None /\ cursor'.versions = NoVersions
    <3>1. targets \in Seq(Contexts) /\ NoVersions \in VersionVector
      BY NoVersionsKnown, PagesAssumption DEF TypeOK
    <3>2. cursor' \in Cursor
      BY <1>7, <3>1 DEF RequestFirstPage, Cursor
    <3> QED
      BY <1>7, <3>2, NoneAssumption DEF RequestFirstPage
  <2>2. /\ versions' = NoVersions /\ limit' \in Limits
        /\ handler' = "asking" /\ client' = "waiting"
        /\ UNCHANGED <<index, items, answer, clusterVars, targets, token, pages, listing, losses>>
    BY <1>7 DEF RequestFirstPage, Request
  <2>3. TypeOK'
    BY <2>1, <2>2, NoVersionsKnown DEF TypeOK, clusterVars
  <2>4. Recorded' /\ CursorStands'
    BY <2>1, <2>2, NoVersionsKnown DEF Recorded, CursorIn, CursorStands, clusterVars
  <2> QED
    BY <2>3, <2>4
<1>8. CASE /\ Rejected /\ client' = "waiting"
           /\ UNCHANGED <<clusterVars, targets, token, pages, listing, losses>>
  <2>1. answer' \in AnswerType /\ answer'.versions = NoVersions /\ answer'.token = None
        /\ UNCHANGED <<handler, limit, cursor, versions, index, items>>
    BY <1>8, NoVersionsKnown DEF Rejected, AnswerType
  <2>2. TypeOK'
    BY <1>8, <2>1 DEF TypeOK, clusterVars
  <2>3. Recorded' /\ CursorStands'
    BY <1>8, <2>1, NoVersionsKnown DEF Recorded, CursorStands, clusterVars
  <2> QED
    BY <2>2, <2>3
<1>9. CASE RequestNextPage \/ RequestMistaken
  <2>1. CASE Rejected
    BY <1>8, <1>9, <2>1 DEF RequestNextPage, RequestMistaken, Request
  <2>2. CASE ~Rejected
    <3>1. /\ client' = "waiting" /\ token # None /\ token.target <= Len(targets)
          /\ limit' \in Limits /\ cursor' = token /\ versions' = token.versions
          /\ index' = token.target /\ handler' = "reading"
          /\ UNCHANGED <<items, answer, clusterVars, targets, token, pages, listing, losses>>
      BY <1>9, <2>2, Zenon DEF RequestNextPage, RequestMistaken, Request
    <3>2. token \in Cursor /\ token.versions \in VersionVector /\ token.target \in Nat \ {0}
          /\ KnownIn(history, token.versions) /\ CursorIn(history, token)
      BY <3>1 DEF TypeOK, Recorded, Cursor, CursorIn
    <3>3. token.target \in 1..Len(targets)
      BY <3>1, <3>2
    <3>4. TypeOK'
      BY <3>1, <3>2, <3>3 DEF TypeOK, clusterVars
    <3>5. Recorded' /\ CursorStands'
      BY <3>1, <3>2 DEF Recorded, CursorStands, clusterVars
    <3> QED
      BY <3>4, <3>5
  <2> QED
    BY <2>1, <2>2
<1>10. CASE Receive
  <2>1. answer \in AnswerType /\ answer' = None
        /\ UNCHANGED <<clusterVars, targets, losses, handler, limit, cursor, versions, index, items>>
    BY <1>10 DEF Receive, TypeOK
  <2>2. answer.entries \in Seq(Entry) /\ answer.token \in Cursor \cup {None}
        /\ answer.versions \in VersionVector /\ KnownIn(history, answer.versions)
        /\ (answer.token # None => CursorIn(history, answer.token))
    BY <1>10, <2>1 DEF AnswerType, Receive, Recorded
  <2>3. CASE answer.status = "ok"
    <3>1. /\ pages' = pages \o answer.entries /\ token' = answer.token
          /\ client' \in {"complete", "idle"}
          /\ \/ UNCHANGED listing
             \/ listing' = [targets |-> targets, versions |-> answer.versions]
      BY <1>10, <2>3, Zenon DEF Receive
    <3>2. pages \in Seq(Entry) /\ pages' \in Seq(Entry)
      BY <2>2, <3>1 DEF TypeOK
    <3>3. TypeOK'
      <4>1. listing' \in Listing \cup {None}
        BY <2>2, <3>1 DEF TypeOK, Listing
      <4> QED
        BY <2>1, <2>2, <3>1, <3>2, <4>1 DEF TypeOK, clusterVars
    <3>4. Recorded' /\ CursorStands'
      BY <2>1, <2>2, <3>1 DEF Recorded, CursorStands, clusterVars
    <3> QED
      BY <3>3, <3>4
  <2>4. CASE answer.status # "ok"
    <3>1. client' = "failed" /\ UNCHANGED <<pages, token, listing>>
      BY <1>10, <2>4 DEF Receive
    <3>2. TypeOK'
      BY <2>1, <3>1 DEF TypeOK, clusterVars
    <3>3. Recorded' /\ CursorStands'
      BY <2>1, <3>1 DEF Recorded, CursorStands, clusterVars
    <3> QED
      BY <3>2, <3>3
  <2> QED
    BY <2>3, <2>4
<1>11. CASE Lose
  <2>1. TypeOK'
    <3>1. client' = "idle" /\ losses' \in 0..MaxLosses /\ answer' = None
      BY <1>11, PagesAssumption DEF Lose, TypeOK
    <3> QED
      BY <1>11, <3>1 DEF Lose, TypeOK, clusterVars
  <2>2. Recorded' /\ CursorStands'
    BY <1>11 DEF Lose, Recorded, CursorStands, clusterVars
  <2> QED
    BY <2>1, <2>2
<1>12. CASE Reconfigure
  <2>1. targets' \in TargetLists /\ index' = 1 /\ handler = "idle"
        /\ UNCHANGED <<clusterVars, clientVars, handler, limit, cursor, versions, items, answer>>
    BY <1>12 DEF Reconfigure
  <2>2. 1 \in 1..Len(targets')
    BY <2>1, PagesAssumption
  <2>3. TypeOK'
    BY <2>1, <2>2 DEF TypeOK, clusterVars, clientVars
  <2>4. Recorded' /\ CursorStands'
    BY <2>1 DEF Recorded, CursorStands, clusterVars, clientVars
  <2> QED
    BY <2>3, <2>4
<1>13. ASSUME NEW t \in Contexts, ClusterChanges(t) \/ Compact(t) PROVE TInv'
  <2>1. UNCHANGED <<targets, clientVars, handlerVars>>
    BY <1>13 DEF ClusterChanges, Compact
  <2>2. /\ history' \in [Contexts -> Seq(SUBSET Keys)] /\ oldest' \in [Contexts -> Nat]
        /\ \A s \in Contexts : Len(history'[s]) \in 1..MaxVersion /\ oldest'[s] \in 1..Len(history'[s])
    BY <1>13, ClustersTyped
  <2>3. TypeOK'
    BY <2>1, <2>2 DEF TypeOK, clientVars, handlerVars
  <2>4. \A s \in Contexts : Len(history[s]) <= Len(history'[s]) /\ Len(history[s]) \in Nat /\ Len(history'[s]) \in Nat
    BY HistoryGrows
  <2>5. ASSUME NEW vector \in VersionVector, KnownIn(history, vector) PROVE KnownIn(history', vector)
    BY <2>4, <2>5, PagesAssumption DEF KnownIn, VersionVector
  <2>6. ASSUME NEW cur \in Cursor, CursorIn(history, cur) PROVE CursorIn(history', cur)
    <3>1. cur.versions \in VersionVector /\ cur.continue \in Continue \cup {None}
      BY DEF Cursor
    <3>2. KnownIn(history', cur.versions)
      BY <2>5, <2>6, <3>1 DEF CursorIn
    <3>3. ASSUME cur.continue # None
          PROVE  cur.continue.version <= Len(history'[cur.continue.issuer])
      <4>1. cur.continue.issuer \in Contexts /\ cur.continue.version \in Nat
        BY <3>1, <3>3, PagesAssumption DEF Continue
      <4>2. cur.continue.version <= Len(history[cur.continue.issuer])
        BY <2>6, <3>3 DEF CursorIn
      <4> QED
        BY <2>4, <4>1, <4>2
    <3> QED
      BY <3>2, <3>3 DEF CursorIn
  <2>7. Recorded'
    <3>1. KnownIn(history', versions)
      BY <2>5 DEF TypeOK, Recorded
    <3>2. token # None => CursorIn(history', token)
      BY <2>6 DEF TypeOK, Recorded
    <3>3. cursor # None => CursorIn(history', cursor)
      BY <2>6 DEF TypeOK, Recorded
    <3>4. answer # None => /\ KnownIn(history', answer.versions)
                           /\ answer.token # None => CursorIn(history', answer.token)
      BY <2>5, <2>6 DEF TypeOK, Recorded, AnswerType
    <3>5. listing # None => KnownIn(history', listing.versions)
      BY <2>5 DEF TypeOK, Recorded, Listing
    <3> QED
      BY <2>1, <3>1, <3>2, <3>3, <3>4, <3>5 DEF Recorded, clientVars, handlerVars
  <2>8. CursorStands'
    BY <2>1 DEF CursorStands, handlerVars
  <2> QED
    BY <2>3, <2>7, <2>8
<1>14. CASE UNCHANGED vars
  <2>1. TypeOK'
    BY <1>14 DEF TypeOK, vars, clusterVars, clientVars, handlerVars
  <2>2. Recorded' /\ CursorStands'
    BY <1>14 DEF Recorded, CursorStands, vars, clusterVars, clientVars, handlerVars
  <2> QED
    BY <2>1, <2>2
<1> QED
  BY <1>1, <1>2, <1>3, <1>4, <1>5, <1>6, <1>7, <1>9, <1>10, <1>11, <1>12, <1>13, <1>14
  DEF Next, HandlerStep, ClientStep

(* The type invariant: in particular every version, token and position the *)
(* handler and the client hold is one that exists.                         *)
THEOREM TypeCorrect == Spec => []TypeOK
<1>1. TInv => TypeOK
  BY DEF TInv
<1> QED
  BY <1>1, InitPInv, StepPInv, InitTInv, StepTInv, PTL DEF Spec
------------------------------------------------------------------------------
LEMMA StepLInv ==
    ASSUME IgnoresLimit = {}, PInv, TInv, LInv, [Next]_vars
    PROVE  LInv'
<1> USE DEF LInv, PageIsWithinItsLimit
<1>0. /\ limit \in Nat /\ \A l \in Limits : l \in Nat /\ l > 0
      /\ items \in Seq(Entry) /\ Len(items) \in Nat
      /\ items = <<>> => Len(items) = 0
  <2>1. items \in Seq(Entry) /\ limit \in Limits \cup {0}
    BY DEF TInv, TypeOK
  <2>2. \A l \in Limits : l \in Nat /\ l > 0
    BY PagesAssumption
  <2> QED
    BY <2>1, <2>2
<1>1. ASSUME NEW t \in Contexts, Ask(t) PROVE LInv'
  BY <1>1 DEF Ask, HandlerKept, clusterVars, clientVars
<1>2. CASE CallFails \/ ReadExpired
  BY <1>0, <1>2 DEF CallFails, ReadExpired, Fail, Respond, HandlerKept
<1>3. CASE VersionsKnown
  BY <1>3 DEF VersionsKnown, HandlerKept
<1>4. CASE Merge
  BY <1>0, <1>4 DEF Merge, Respond, HandlerKept
<1>5. CASE ReadTarget
  <2>1. handler = "reading" /\ limit' = limit
    BY <1>5, Zenon DEF ReadTarget, HandlerKept
  <2>2. PICK read \in Seq(Entry) :
          /\ IgnoresLimit = {} /\ Len(items) <= limit => Len(read) <= limit
          /\ \/ \E next : Respond("ok", read, next)
             \/ items' = read /\ UNCHANGED <<handler, answer>>
    BY <1>5, ReadTargetReads, Zenon
  <2>3. Len(read) <= limit
    BY <2>1, <2>2
  <2>4. CASE \E next : Respond("ok", read, next)
    BY <1>0, <2>1, <2>3, <2>4 DEF Respond
  <2>5. CASE items' = read /\ UNCHANGED <<handler, answer>>
    BY <2>1, <2>3, <2>5
  <2> QED
    BY <2>2, <2>4, <2>5
<1>6. CASE RequestList
  BY <1>0, <1>6 DEF RequestList, Request
<1>7. CASE RequestFirstPage
  <2>1. items = <<>>
    BY <1>7 DEF RequestFirstPage, Request
  <2> QED
    BY <1>0, <1>7, <2>1 DEF RequestFirstPage, Request
<1>8. CASE RequestNextPage \/ RequestMistaken
  <2>1. items = <<>> /\ items' = items
    BY <1>8 DEF RequestNextPage, RequestMistaken, Rejected, Request
  <2>2. CASE Rejected
    BY <1>0, <1>8, <2>2 DEF Rejected, RequestNextPage, RequestMistaken, Request
  <2>3. CASE ~Rejected
    <3>1. limit' \in Limits /\ handler' = "reading" /\ answer' = answer /\ answer = None
      BY <1>8, <2>3, Zenon DEF RequestNextPage, RequestMistaken, Request
    <3> QED
      BY <1>0, <2>1, <3>1
  <2> QED
    BY <2>2, <2>3
<1>9. CASE Receive
  BY <1>9 DEF Receive
<1>10. CASE Lose
  BY <1>10 DEF Lose
<1>11. CASE Reconfigure
  BY <1>11 DEF Reconfigure
<1>12. ASSUME NEW t \in Contexts, ClusterChanges(t) \/ Compact(t) PROVE LInv'
  BY <1>12 DEF ClusterChanges, Compact, handlerVars
<1>13. CASE UNCHANGED vars
  BY <1>13 DEF vars, handlerVars
<1> QED
  BY <1>1, <1>2, <1>3, <1>4, <1>5, <1>6, <1>7, <1>8, <1>9, <1>10, <1>11, <1>12, <1>13
  DEF Next, HandlerStep, ClientStep

(* Whatever the clusters do, a listing at versions that exist stays what   *)
(* it is, and so does what is left of it.                                  *)
LEMMA ListingKept ==
    ASSUME TypeOK, [Next]_vars, NEW list \in TargetLists, NEW vector \in VersionVector,
           AllIn(list, vector), KnownIn(history, vector), NEW n \in Nat, n <= Len(list)
    PROVE  Whole(history', list, vector, n) = Whole(history, list, vector, n)
<1>1. ASSUME NEW i \in 1..n
      PROVE  history'[list[i]][vector[list[i]]] = history[list[i]][vector[list[i]]]
  <2>1. list \in Seq(Contexts) /\ i \in 1..Len(list)
    BY PagesAssumption
  <2>2. list[i] \in Contexts /\ list[i] \in Range(list)
    BY <2>1 DEF Range
  <2>3. vector[list[i]] \in 0..MaxVersion /\ vector[list[i]] # 0 /\ vector[list[i]] <= Len(history[list[i]])
    BY <2>2 DEF VersionVector, AllIn, KnownIn
  <2>4. Len(history[list[i]]) \in Nat
    BY <2>2, HistoryGrows
  <2>5. vector[list[i]] \in 1..Len(history[list[i]])
    BY <2>3, <2>4, PagesAssumption
  <2> QED
    BY <2>2, <2>5, HistoryGrows
<1> QED
  BY <1>1, WholeKept

LEMMA ContinuedKept ==
    ASSUME TypeOK, [Next]_vars, NEW got, NEW cur \in Cursor,
           CursorIn(history, cur), Continued(history, got, cur)
    PROVE  Continued(history', got, cur)
<1> DEFINE t == cur.targets[cur.target]
<1>1. /\ cur.targets \in TargetLists /\ cur.target <= Len(cur.targets)
      /\ AllIn(cur.targets, cur.versions) /\ Issued(cur)
      /\ got \o Left(history, cur) = Whole(history, cur.targets, cur.versions, cur.target)
  BY DEF Continued
<1>2. /\ cur.target \in Nat \ {0} /\ cur.versions \in VersionVector
      /\ cur.continue \in Continue \cup {None} /\ KnownIn(history, cur.versions)
  BY DEF Cursor, CursorIn
<1>3. t \in Contexts /\ t \in Range(cur.targets)
  <2>1. cur.targets \in Seq(Contexts) /\ cur.target \in 1..Len(cur.targets)
    BY <1>1, <1>2, PagesAssumption
  <2> QED
    BY <2>1 DEF Range
<1>4. Whole(history', cur.targets, cur.versions, cur.target) = Whole(history, cur.targets, cur.versions, cur.target)
  BY <1>1, <1>2, ListingKept
<1>5. \A v \in 1..Len(history[t]) : history'[t][v] = history[t][v]
  BY <1>3, HistoryGrows
<1>6. Left(history', cur) = Left(history, cur)
  <2>1. Len(history[t]) \in Nat
    BY <1>3, HistoryGrows
  <2>2. CASE cur.continue # None
    <3>1. cur.continue.version \in 1..MaxVersion /\ cur.continue.version <= Len(history[t])
      BY <1>1, <1>2, <2>2 DEF Continue, Issued, CursorIn
    <3>2. cur.continue.version \in 1..Len(history[t])
      BY <2>1, <3>1, PagesAssumption
    <3> QED
      BY <1>5, <2>2, <3>2 DEF Left
  <2>3. CASE cur.continue = None
    <3>1. cur.versions[t] \in 0..MaxVersion /\ cur.versions[t] # 0 /\ cur.versions[t] <= Len(history[t])
      BY <1>1, <1>2, <1>3 DEF VersionVector, AllIn, KnownIn
    <3>2. cur.versions[t] \in 1..Len(history[t])
      BY <2>1, <3>1, PagesAssumption
    <3> QED
      BY <1>5, <2>3, <3>2 DEF Left
  <2> QED
    BY <2>2, <2>3
<1> QED
  BY <1>1, <1>4, <1>6 DEF Continued

(* The next target's list follows those before it.                         *)
LEMMA NextTargetFollows ==
    ASSUME PInv, TInv, handler = "reading", index < Len(targets)
    PROVE  LET t == targets[index + 1]
           IN /\ Whole(history, targets, versions, index + 1) =
                   Whole(history, targets, versions, index) \o Above(t, history[t][versions[t]], 0)
              /\ index + 1 <= Len(targets)
<1>1. index \in Nat \ {0} /\ index + 1 <= Len(targets)
  BY ReadingStands
<1> QED
  BY <1>1, WholeStep

LEMMA EmptyBefore == ASSUME NEW S, NEW s \in Seq(S) PROVE <<>> \o s = s
  OBVIOUS

LEMMA InitSInv == Init => SInv
<1> SUFFICES ASSUME Init PROVE SInv
  OBVIOUS
<1> QED
  BY DEF Init, SInv, TokenContinues, HandlerContinues, AnswerContinues, ListingComplete

LEMMA ReadTargetSInv ==
    ASSUME IgnoresLimit = {}, PInv, TInv, LInv, SInv, ReadTarget
    PROVE  SInv'
<1> DEFINE t == targets[index]
           left(k) == Above(t, history[t][ReadVersion], k)
           continue(k) == [issuer |-> t, version |-> ReadVersion, after |-> k]
<1>1. /\ handler = "reading" /\ UNCHANGED <<HandlerKept, versions>>
  BY Zenon DEF ReadTarget
<1>2. /\ targets \in TargetLists /\ targets \in Seq(Contexts) /\ Len(targets) \in Nat
      /\ index \in 1..Len(targets) /\ t \in Contexts
      /\ ReadVersion \in 1..MaxVersion /\ limit \in Nat
      /\ history[t][ReadVersion] \in SUBSET Keys
  BY <1>1, ReadingStands DEF TInv, TypeOK
<1>3. /\ index >= cursor.target /\ cursor.target \in Nat
      /\ token # None => token.targets = targets
      /\ (pages \o items) \o left(ReadAfter) = Whole(history, targets, versions, index)
      /\ AllIn(targets, versions)
      /\ Len(items) <= limit
  BY <1>1 DEF SInv, HandlerContinues, LInv, PInv, HandlerStands, TInv, CursorStands, TypeOK, Cursor
<1>4. PICK read \in Seq(Entry) :
        /\ Len(read) <= limit
        /\ \/ \E k \in Keys :
                /\ items \o left(ReadAfter) = read \o left(k)
                /\ UNCHANGED index
                /\ Respond("ok", read, NextCursor(index, continue(k)))
           \/ /\ items \o left(ReadAfter) = read
              /\ \/ /\ index < Len(targets) /\ UNCHANGED index
                    /\ Respond("ok", read, NextCursor(index + 1, None))
                 \/ /\ index = Len(targets) \/ Len(read) > limit
                    /\ UNCHANGED index
                    /\ Respond("ok", read, None)
                 \/ /\ index < Len(targets) /\ index' = index + 1
                    /\ items' = read /\ UNCHANGED <<handler, answer>>
  BY <1>3, ReadTargetReads, Zenon
<1>5. pages \in Seq(Entry) /\ items \in Seq(Entry) /\ left(ReadAfter) \in Seq(Entry)
      /\ \A k \in Keys : left(k) \in Seq(Entry)
  BY <1>2, AboveType DEF TInv, TypeOK
<1>6. pages \o (items \o left(ReadAfter)) = Whole(history, targets, versions, index)
  <2> HIDE DEF left
  <2>1. (pages \o items) \o left(ReadAfter) = pages \o (items \o left(ReadAfter))
    BY <1>5, ConcatAssociative
  <2> QED
    BY <1>3, <2>1, Zenon
<1>7. client = "waiting" /\ answer = None /\ (token = None => listing = None)
      /\ (token # None => listing # None /\ listing.targets = targets)
  BY <1>1, <1>3 DEF PInv, OneAtATime, TokenStands, SInv, TokenContinues
<1>8. UNCHANGED <<history, targets, client, token, pages, listing, cursor, limit, versions>>
  BY <1>1 DEF HandlerKept, clusterVars, clientVars
<1>9. TokenContinues' /\ ListingComplete'
  BY <1>8 DEF SInv, TokenContinues, ListingComplete
<1>10. ASSUME NEW next, Respond("ok", read, next),
              next = None => pages \o read = Whole(history, targets, versions, Len(targets)),
              next # None => next.targets = targets /\ Continued(history, pages \o read, next)
       PROVE  SInv'
  <2>1. /\ answer' = [status |-> "ok", entries |-> read, token |-> next, versions |-> versions]
        /\ handler' = "idle"
    BY <1>10 DEF Respond
  <2>2. HandlerContinues'
    BY <2>1 DEF HandlerContinues
  <2>3. AnswerContinues'
    BY <1>7, <1>8, <1>10, <2>1 DEF AnswerContinues
  <2> QED
    BY <1>9, <2>2, <2>3 DEF SInv
<1>11. ASSUME NEW k \in Keys, items \o left(ReadAfter) = read \o left(k),
              Respond("ok", read, NextCursor(index, continue(k)))
       PROVE  SInv'
  <2> DEFINE next == NextCursor(index, continue(k))
  <2>1. /\ next.targets = targets /\ next.target = index /\ next.versions = versions
        /\ next.continue = continue(k) /\ next # None
    <3>1. continue(k) \in Continue /\ index \in Nat \ {0} /\ versions \in VersionVector
      BY <1>2 DEF Continue, TInv, TypeOK
    <3>2. next \in Cursor
      BY <1>2, <3>1 DEF NextCursor, Cursor
    <3> QED
      BY <3>2, NoneAssumption DEF NextCursor
  <2>2. continue(k) # None
    <3>1. continue(k) \in Continue
      BY <1>2 DEF Continue
    <3> QED
      BY <3>1, NoneAssumption
  <2> HIDE DEF next
  <2>3. Left(history, next) = left(k)
    BY <2>1, <2>2 DEF Left
  <2>4. Issued(next)
    BY <2>1 DEF Issued
  <2> HIDE DEF left
  <2>5. (pages \o read) \o left(k) = Whole(history, targets, versions, index)
    <3>1. (pages \o read) \o left(k) = pages \o (read \o left(k))
      <4>1. pages \in Seq(Entry) /\ read \in Seq(Entry) /\ left(k) \in Seq(Entry)
        BY <1>5
      <4> QED
        BY <4>1, ConcatAssociative
    <3> QED
      BY <1>6, <1>11, <3>1, Zenon
  <2>6. Continued(history, pages \o read, next)
    BY <1>2, <1>3, <2>1, <2>3, <2>4, <2>5 DEF Continued
  <2> QED
    BY <1>10, <1>11, <2>1, <2>6 DEF next
<1>12. ASSUME items \o left(ReadAfter) = read, index < Len(targets),
              Respond("ok", read, NextCursor(index + 1, None))
       PROVE  SInv'
  <2> DEFINE next == NextCursor(index + 1, None)
             s == targets[index + 1]
             whole == Above(s, history[s][versions[s]], 0)
  <2>1. /\ next.targets = targets /\ next.target = index + 1 /\ next.versions = versions
        /\ next.continue = None /\ next # None
    <3>1. index + 1 \in Nat \ {0} /\ versions \in VersionVector
      BY <1>2 DEF TInv, TypeOK
    <3>2. next \in Cursor
      BY <1>2, <3>1 DEF NextCursor, Cursor
    <3> QED
      BY <3>2, NoneAssumption DEF NextCursor
  <2>2. pages \o read = Whole(history, targets, versions, index)
    BY <1>6, <1>12, Zenon
  <2>3. /\ Whole(history, targets, versions, index + 1) = (pages \o read) \o whole
        /\ index + 1 <= Len(targets)
    BY <1>1, <1>12, <2>2, NextTargetFollows
  <2> HIDE DEF next
  <2>4. Left(history, next) = whole
    BY <2>1 DEF Left
  <2> HIDE DEF whole
  <2>5. Continued(history, pages \o read, next)
    BY <1>2, <1>3, <2>1, <2>3, <2>4 DEF Continued, Issued
  <2> QED
    BY <1>10, <1>12, <2>1, <2>5 DEF next
<1>13. ASSUME items \o left(ReadAfter) = read, index = Len(targets) \/ Len(read) > limit,
              Respond("ok", read, None)
       PROVE  SInv'
  <2>1. index = Len(targets)
    BY <1>2, <1>4, <1>13
  <2>2. pages \o read = Whole(history, targets, versions, Len(targets))
    BY <1>6, <1>13, <2>1, Zenon
  <2> QED
    BY <1>10, <1>13, <2>2
<1>14. ASSUME items \o left(ReadAfter) = read, index < Len(targets), index' = index + 1,
              items' = read, UNCHANGED <<handler, answer>>
       PROVE  SInv'
  <2> DEFINE s == targets[index + 1]
             whole == Above(s, history[s][versions[s]], 0)
  <2>1. pages \o read = Whole(history, targets, versions, index)
    BY <1>6, <1>14, Zenon
  <2>2. /\ Whole(history, targets, versions, index + 1) = (pages \o read) \o whole
        /\ index + 1 <= Len(targets)
    BY <1>1, <1>14, <2>1, NextTargetFollows
  <2>3. index + 1 >= cursor.target /\ index + 1 # cursor.target
    BY <1>2, <1>3
  <2>4. ReadVersion' = versions[s] /\ ReadAfter' = 0
    BY <1>8, <1>14, <2>3 DEF ReadVersion, ReadAfter, Continues
  <2>5. HandlerContinues'
    BY <1>1, <1>3, <1>8, <1>14, <2>2, <2>3, <2>4 DEF HandlerContinues
  <2>6. AnswerContinues'
    BY <1>7, <1>14 DEF AnswerContinues
  <2> QED
    BY <1>9, <2>5, <2>6 DEF SInv
<1> HIDE DEF left, continue
<1> QED
  BY <1>4, <1>11, <1>12, <1>13, <1>14

LEMMA ReadingKept ==
    ASSUME PInv, TInv, SInv, LInv, handler = "reading", [Next]_vars,
           UNCHANGED <<targets, client, token, pages, listing, handlerVars>>
    PROVE  HandlerContinues'
<1> DEFINE t == targets[index]
<1>1. /\ index \in 1..Len(targets) /\ t \in Contexts /\ targets \in TargetLists
      /\ ReadVersion \in 1..MaxVersion /\ ReadVersion <= Len(history[t])
      /\ Len(targets) \in Nat /\ index \in Nat /\ index <= Len(targets)
  <2>1. /\ index \in 1..Len(targets) /\ t \in Contexts /\ targets \in TargetLists /\ Len(targets) \in Nat
        /\ ReadVersion \in 1..MaxVersion /\ ReadVersion <= Len(history[t])
    BY ReadingStands DEF TInv, TypeOK
  <2> QED
    BY <2>1
<1>2. Len(history[t]) \in Nat /\ \A v \in 1..Len(history[t]) : history'[t][v] = history[t][v]
  BY <1>1, HistoryGrows DEF TInv
<1>3. ReadVersion \in 1..Len(history[t])
  BY <1>1, <1>2, PagesAssumption
<1>4. UNCHANGED <<pages, items, token, versions, index, cursor, handler, targets>>
      /\ ReadVersion' = ReadVersion /\ ReadAfter' = ReadAfter
  BY DEF handlerVars, ReadVersion, ReadAfter, Continues
<1>5. history'[t][ReadVersion] = history[t][ReadVersion]
  BY <1>2, <1>3
<1>6. Whole(history', targets, versions, index) = Whole(history, targets, versions, index)
  <2>1. AllIn(targets, versions) /\ KnownIn(history, versions) /\ versions \in VersionVector
    BY DEF PInv, HandlerStands, TInv, Recorded, TypeOK
  <2> QED
    BY <1>1, <2>1, ListingKept DEF TInv
<1> QED
  BY <1>4, <1>5, <1>6 DEF SInv, HandlerContinues

LEMMA StepSInv ==
    ASSUME IgnoresLimit = {}, PInv, TInv, LInv, SInv, [Next]_vars
    PROVE  SInv'
<1> USE DEF SInv
<1>0. TokenContinues /\ HandlerContinues /\ AnswerContinues /\ ListingComplete /\ TypeOK
  BY DEF TInv
<1>1. ASSUME NEW t \in Contexts, Ask(t) PROVE SInv'
  BY <1>0, <1>1 DEF Ask, HandlerKept, clusterVars, clientVars,
     TokenContinues, HandlerContinues, AnswerContinues, ListingComplete
<1>2. CASE CallFails \/ ReadExpired
  <2>1. /\ UNCHANGED <<history, targets, client, token, pages, listing>>
        /\ answer' = [status |-> "failed", entries |-> <<>>, token |-> None, versions |-> versions]
        /\ handler' = "idle"
    BY <1>2 DEF CallFails, ReadExpired, Fail, Respond, HandlerKept, clusterVars, clientVars
  <2> QED
    BY <1>0, <2>1 DEF TokenContinues, HandlerContinues, AnswerContinues, ListingComplete
<1>3. CASE VersionsKnown
  <2>1. /\ handler = "asking" /\ AllTold /\ handler' = "reading" /\ index' = cursor.target
        /\ UNCHANGED <<HandlerKept, versions, items, answer>>
    BY <1>3 DEF VersionsKnown
  <2>2. UNCHANGED <<history, targets, client, token, pages, listing, cursor, limit>>
    BY <2>1 DEF HandlerKept, clusterVars, clientVars
  <2>3. /\ client = "waiting" /\ answer = None /\ token = None /\ pages = <<>> /\ items = <<>>
        /\ cursor.target = 1 /\ cursor.continue = None /\ AllIn(targets, versions)
    BY <1>0, <2>1 DEF PInv, OneAtATime, HandlerStands, TokenContinues, LInv, TInv, CursorStands, AllTold, AllIn
  <2>4. ReadVersion' = versions[targets[1]] /\ ReadAfter' = 0 /\ index' = 1
    BY <2>1, <2>2, <2>3 DEF ReadVersion, ReadAfter, Continues
  <2> DEFINE t == targets[1]
             whole == Above(t, history[t][versions[t]], 0)
  <2>5. Whole(history, targets, versions, 1) = whole
    BY WholeOne
  <2>6. whole \in Seq(Entry)
    <3>1. targets \in Seq(Contexts) /\ 1 \in 1..Len(targets)
      BY PagesAssumption DEF TInv, TypeOK
    <3>2. t \in Contexts /\ t \in Range(targets)
      BY <3>1 DEF Range
    <3>3. versions[t] \in 0..MaxVersion /\ versions[t] # 0 /\ versions[t] <= Len(history[t])
          /\ history[t] \in Seq(SUBSET Keys)
      BY <2>3, <3>2 DEF AllIn, TInv, TypeOK, VersionVector, Recorded, KnownIn
    <3>4. history[t][versions[t]] \in SUBSET Keys
      BY <3>3, PagesAssumption
    <3> QED
      BY <3>2, <3>4, AboveType
  <2> HIDE DEF whole
  <2>7. (pages \o items) \o whole = Whole(history, targets, versions, 1)
    <3>1. pages \o items = <<>>
      BY <2>3
    <3> QED
      BY <2>5, <2>6, <3>1, EmptyBefore, Zenon
  <2>8. 1 >= 1
    OBVIOUS
  <2>9. HandlerContinues'
    BY <2>1, <2>2, <2>3, <2>4, <2>7, <2>8, Zenon DEF HandlerContinues, whole
  <2>10. TokenContinues' /\ AnswerContinues' /\ ListingComplete'
    BY <1>0, <2>1, <2>2, <2>3 DEF TokenContinues, AnswerContinues, ListingComplete
  <2> QED
    BY <2>9, <2>10
<1>4. CASE Merge
  <2> DEFINE entries == FlattenSeq([i \in DOMAIN targets |-> Snapshot(targets[i], versions[targets[i]])])
  <2>1. /\ handler = "listing" /\ AllTold /\ Respond("ok", entries, None)
        /\ UNCHANGED <<history, targets, client, token, pages, listing, versions>>
    BY <1>4 DEF Merge, HandlerKept, clusterVars, clientVars
  <2>2. entries = Whole(history, targets, versions, Len(targets)) /\ entries \in Seq(Entry)
    BY <2>1, MergedIsWhole
  <2> HIDE DEF entries
  <2>3. client = "waiting" /\ token = None /\ pages = <<>> /\ listing = None
    BY <1>0, <2>1 DEF PInv, OneAtATime, HandlerStands, TokenStands, TokenContinues
  <2>4. /\ answer' = [status |-> "ok", entries |-> entries, token |-> None, versions |-> versions]
        /\ handler' = "idle"
    BY <2>1 DEF Respond
  <2>5. pages \o entries = Whole(history, targets, versions, Len(targets))
    BY <2>2, <2>3, EmptyBefore, Zenon
  <2> QED
    BY <1>0, <2>1, <2>3, <2>4, <2>5 DEF TokenContinues, HandlerContinues, AnswerContinues, ListingComplete
<1>5. CASE ReadTarget
  BY <1>5, ReadTargetSInv
<1>6. CASE RequestList
  BY <1>0, <1>6 DEF RequestList, Request, TokenContinues, HandlerContinues, AnswerContinues, ListingComplete
<1>7. CASE RequestFirstPage
  BY <1>0, <1>7 DEF RequestFirstPage, Request, clusterVars,
     TokenContinues, HandlerContinues, AnswerContinues, ListingComplete
<1>8. CASE RequestNextPage \/ RequestMistaken
  <2>1. /\ client = "idle" /\ client' = "waiting" /\ answer = None /\ handler = "idle" /\ token # None
        /\ UNCHANGED <<history, targets, token, pages, listing>>
    BY <1>8 DEF RequestNextPage, RequestMistaken, Request, clusterVars
  <2>2. TokenContinues' /\ ListingComplete'
    BY <1>0, <2>1 DEF TokenContinues, ListingComplete
  <2>3. CASE Rejected
    BY <1>0, <2>1, <2>2, <2>3 DEF Rejected, HandlerContinues, AnswerContinues
  <2>4. CASE ~Rejected
    <3>1. /\ token.targets = targets
          /\ cursor' = token /\ versions' = token.versions /\ index' = token.target
          /\ handler' = "reading" /\ UNCHANGED <<items, answer>>
      BY <1>8, <2>4, Zenon DEF RequestNextPage, RequestMistaken
    <3>2. token \in Cursor /\ Continued(history, pages, token) /\ items = <<>> /\ pages \in Seq(Entry)
      BY <1>0, <2>1 DEF TokenContinues, LInv, TypeOK
    <3> DEFINE t == targets[token.target]
    <3>3. Above(t, history'[t][ReadVersion'], ReadAfter') = Left(history, token)
      <4>1. Continues' <=> token.continue # None
        BY <3>1 DEF Continues
      <4>2. CASE token.continue # None
        BY <2>1, <3>1, <4>1, <4>2 DEF ReadVersion, ReadAfter, Left
      <4>3. CASE token.continue = None
        BY <2>1, <3>1, <4>1, <4>3 DEF ReadVersion, ReadAfter, Left
      <4> QED
        BY <4>2, <4>3
    <3>4. pages \o items = pages /\ token.target >= token.target
      BY <3>2 DEF Cursor
    <3>5. pages \o Left(history, token) = Whole(history, targets, token.versions, token.target)
      BY <3>1, <3>2 DEF Continued
    <3>6. HandlerContinues'
      BY <2>1, <3>1, <3>3, <3>4, <3>5, Zenon DEF HandlerContinues
    <3>7. AnswerContinues'
      BY <2>1, <3>1 DEF AnswerContinues
    <3> QED
      BY <2>2, <3>6, <3>7
  <2> QED
    BY <2>3, <2>4
<1>9. CASE Receive
  <2>1. /\ answer # None /\ answer' = None /\ client = "waiting" /\ handler = "idle"
        /\ UNCHANGED <<history, targets, handler>>
    BY <1>9 DEF Receive, PInv, OneAtATime, clusterVars
  <2>2. HandlerContinues' /\ AnswerContinues'
    BY <2>1 DEF HandlerContinues, AnswerContinues
  <2>3. CASE answer.status # "ok"
    BY <1>0, <1>9, <2>1, <2>2, <2>3 DEF Receive, TokenContinues, ListingComplete
  <2>4. CASE answer.status = "ok"
    <3>1. /\ pages' = pages \o answer.entries /\ token' = answer.token
          /\ client' = IF answer.token = None THEN "complete" ELSE "idle"
          /\ listing' = IF listing # None THEN listing ELSE [targets |-> targets, versions |-> answer.versions]
      BY <1>9, <2>4, Zenon DEF Receive
    <3>2. /\ AllIn(targets, answer.versions)
          /\ listing # None => listing.targets = targets /\ listing.versions = answer.versions
      BY <1>0, <2>1, <2>4 DEF AnswerContinues, PInv, AnswerStands
    <3>3. [targets |-> targets, versions |-> answer.versions] # None
      BY <1>0, <2>1, NoneAssumption DEF TypeOK, AnswerType, Listing
    <3>4. listing' # None /\ listing'.targets = targets /\ listing'.versions = answer.versions
      BY <3>1, <3>2, <3>3
    <3>5. CASE answer.token = None
      <4>1. pages' = Whole(history, targets, answer.versions, Len(targets))
        BY <1>0, <2>1, <2>4, <3>1, <3>5 DEF AnswerContinues
      <4> QED
        BY <2>1, <2>2, <3>1, <3>2, <3>4, <3>5, <4>1 DEF TokenContinues, ListingComplete
    <3>6. CASE answer.token # None
      <4>1. Continued(history, pages', answer.token) /\ answer.token.targets = targets
        BY <1>0, <2>1, <2>4, <3>1, <3>6 DEF AnswerContinues
      <4> QED
        BY <2>1, <2>2, <3>1, <3>4, <3>6, <4>1 DEF TokenContinues, ListingComplete
    <3> QED
      BY <3>5, <3>6
  <2> QED
    BY <2>3, <2>4
<1>10. CASE Lose
  <2>1. /\ client = "waiting" /\ client' = "idle" /\ answer' = None /\ handler = "idle"
        /\ UNCHANGED <<history, targets, token, pages, listing, handler>>
    BY <1>10 DEF Lose, PInv, OneAtATime, clusterVars
  <2> QED
    BY <1>0, <2>1 DEF TokenContinues, HandlerContinues, AnswerContinues, ListingComplete
<1>11. CASE Reconfigure
  <2>1. /\ handler = "idle" /\ answer = None
        /\ UNCHANGED <<history, client, token, pages, listing, handler, answer>>
    BY <1>11 DEF Reconfigure, clusterVars, clientVars
  <2> QED
    BY <1>0, <2>1 DEF TokenContinues, HandlerContinues, AnswerContinues, ListingComplete
<1>12. ASSUME NEW t \in Contexts, ClusterChanges(t) \/ Compact(t) PROVE SInv'
  <2>1. UNCHANGED <<targets, client, token, pages, listing, handlerVars>>
    BY <1>12 DEF ClusterChanges, Compact, clientVars
  <2>2. token' = token /\ client' = client /\ pages' = pages /\ listing' = listing
        /\ answer' = answer /\ handler' = handler /\ targets' = targets /\ cursor' = cursor
    BY <2>1 DEF handlerVars
  <2>3. TokenContinues'
    <3>1. token # None => Continued(history', pages, token)
      BY <1>0, ContinuedKept DEF TokenContinues, TypeOK, TInv, Recorded
    <3> QED
      BY <1>0, <2>2, <3>1 DEF TokenContinues
  <2>4. HandlerContinues'
    <3>1. CASE handler = "reading"
      BY <2>1, <3>1, ReadingKept
    <3>2. CASE handler # "reading"
      BY <1>0, <2>2, <3>2 DEF HandlerContinues
    <3> QED
      BY <3>1, <3>2
  <2>5. AnswerContinues'
    <3> SUFFICES ASSUME answer # None, answer.status = "ok" PROVE AnswerContinues'
      BY <2>2 DEF AnswerContinues
    <3>1. /\ answer.versions \in VersionVector /\ KnownIn(history, answer.versions)
          /\ AllIn(targets, answer.versions) /\ targets \in TargetLists
          /\ answer.token \in Cursor \cup {None}
          /\ answer.token # None => CursorIn(history, answer.token)
      BY DEF TInv, TypeOK, Recorded, AnswerType, PInv, AnswerStands
    <3>2. Len(targets) \in Nat /\ Len(targets) <= Len(targets)
      BY <3>1, PagesAssumption
    <3>3. Whole(history', targets, answer.versions, Len(targets)) = Whole(history, targets, answer.versions, Len(targets))
      BY <1>0, <3>1, <3>2, ListingKept
    <3>4. answer.token # None => Continued(history', pages \o answer.entries, answer.token)
      BY <1>0, <3>1, ContinuedKept DEF AnswerContinues
    <3> QED
      BY <1>0, <2>2, <3>3, <3>4 DEF AnswerContinues
  <2>6. ListingComplete'
    <3> SUFFICES ASSUME client = "complete" PROVE ListingComplete'
      BY <2>2 DEF ListingComplete
    <3>1. /\ listing # None /\ AllIn(listing.targets, listing.versions)
          /\ listing.targets \in TargetLists /\ listing.versions \in VersionVector
          /\ KnownIn(history, listing.versions)
      BY <1>0 DEF ListingComplete, TypeOK, TInv, Recorded, Listing
    <3>2. Len(listing.targets) \in Nat /\ Len(listing.targets) <= Len(listing.targets)
      BY <3>1, PagesAssumption
    <3>3. Whole(history', listing.targets, listing.versions, Len(listing.targets))
            = Whole(history, listing.targets, listing.versions, Len(listing.targets))
      BY <1>0, <3>1, <3>2, ListingKept
    <3> QED
      BY <1>0, <2>2, <3>1, <3>3 DEF ListingComplete
  <2> QED
    BY <2>3, <2>4, <2>5, <2>6
<1>13. CASE UNCHANGED vars
  <2>1. UNCHANGED <<history, targets, client, token, pages, listing, handlerVars>>
    BY <1>13 DEF vars, clusterVars, clientVars
  <2>2. HandlerContinues'
    BY <1>0, <2>1 DEF HandlerContinues, handlerVars, ReadVersion, ReadAfter, Continues
  <2> QED
    BY <1>0, <2>1, <2>2 DEF handlerVars, TokenContinues, AnswerContinues, ListingComplete
<1> QED
  BY <1>1, <1>2, <1>3, <1>4, <1>5, <1>6, <1>7, <1>8, <1>9, <1>10, <1>11, <1>12, <1>13
  DEF Next, HandlerStep, ClientStep

LEMMA InitLInv == Init => LInv
<1> SUFFICES ASSUME Init PROVE LInv
  OBVIOUS
<1>1. items = <<>> /\ limit = 0 /\ handler = "idle" /\ answer = None
  BY DEF Init
<1> QED
  BY <1>1 DEF LInv, PageIsWithinItsLimit

(* aggregate.go:70-86, ROUTING.md:89 -- for any clusters, each returning   *)
(* as few of its entries as it likes but never more than it is asked for,  *)
(* no page is over the limit its request set for all of them together.     *)
THEOREM PageLimited ==
    ASSUME IgnoresLimit = {}
    PROVE  Spec => []PageIsWithinItsLimit
<1>1. LInv => PageIsWithinItsLimit
  BY DEF LInv
<1>2. PInv /\ TInv /\ LInv /\ [Next]_vars => LInv'
  BY StepLInv
<1> QED
  BY <1>1, <1>2, InitPInv, StepPInv, InitTInv, StepTInv, InitLInv, PTL DEF Spec

(* aggregate.go:48-100, ARCHITECTURE.md:275-281 -- for any clusters that   *)
(* keep to the limit, any target lists and any limits, changing from page  *)
(* to page: a list that is complete is, target after target, the snapshot  *)
(* its first answer named.                                                 *)
THEOREM SnapshotComplete ==
    ASSUME IgnoresLimit = {}
    PROVE  Spec => []CompleteListIsASnapshot
<1>1. ASSUME TInv, SInv PROVE CompleteListIsASnapshot
  <2> SUFFICES ASSUME client = "complete" PROVE CompleteListIsASnapshot
    BY DEF CompleteListIsASnapshot
  <2> DEFINE list == listing.targets
             vector == listing.versions
  <2>1. pages = Whole(history, list, vector, Len(list)) /\ list \in TargetLists
    BY <1>1 DEF SInv, ListingComplete, TInv, TypeOK, Listing
  <2>2. DOMAIN list = 1..Len(list)
    BY <2>1, PagesAssumption
  <2>3. \A i : Snapshot(list[i], vector[list[i]]) = Above(list[i], history[list[i]][vector[list[i]]], 0)
    BY DEF Snapshot, Ordered, Above
  <2>4. [i \in DOMAIN list |-> Snapshot(list[i], vector[list[i]])]
          = [i \in 1..Len(list) |-> Above(list[i], history[list[i]][vector[list[i]]], 0)]
    BY <2>2, <2>3
  <2> QED
    BY <2>1, <2>4, Zenon DEF Whole, CompleteListIsASnapshot
<1>2. PInv /\ TInv /\ LInv /\ [Next]_vars => LInv'
  BY StepLInv
<1>3. PInv /\ TInv /\ LInv /\ SInv /\ [Next]_vars => SInv'
  BY StepSInv
<1>4. TInv /\ SInv => CompleteListIsASnapshot
  BY <1>1
<1> QED
  BY <1>2, <1>3, <1>4, InitPInv, StepPInv, InitTInv, StepTInv, InitLInv, InitSInv, PTL DEF Spec
==============================================================================
