----------------------------- MODULE SequenceFacts -----------------------------
(***************************************************************************)
(* Facts about natural numbers and sequences that several proofs need and  *)
(* the library does not have.  Each is an induction, written as a proof by *)
(* least counterexample: the library's induction theorems have an operator *)
(* as a parameter, WFMin has a set.                                        *)
(***************************************************************************)
EXTENDS Integers, Sequences, SequencesExt, FiniteSetTheorems, WellFoundedInduction, TLAPS

(* The least-number principle, for sets.                                   *)
LEMMA LeastExists ==
    ASSUME NEW T \in SUBSET Nat, T # {}
    PROVE  \E n \in T : \A m \in T : n <= m
<1>1. IsWellFoundedOn(OpToRel(<, Nat), Nat)
  BY NatLessThanWellFounded
<1>2. PICK n \in T : \A m \in T : ~(<<m, n>> \in OpToRel(<, Nat))
  BY <1>1, WFMin
<1>3. \A m \in T : ~(m < n)
  BY <1>2 DEF OpToRel
<1> QED
  BY <1>3
------------------------------------------------------------------------------
(* FlattenSeq: g[i] joins the first i of the n sequences in s.             *)
IsFlattening(g, s, n) ==
    /\ g = [i \in 1..n |-> g[i]]
    /\ \A i \in 1..n : g[i] = IF i = 1 THEN s[i] ELSE g[i - 1] \o s[i]

LEMMA FlatteningExists ==
    ASSUME NEW s, NEW n \in Nat
    PROVE  \E g : IsFlattening(g, s, n)
<1> DEFINE T == {m \in Nat : ~\E g : IsFlattening(g, s, m)}
<1> SUFFICES ASSUME T # {} PROVE FALSE
  OBVIOUS
<1>1. PICK m \in T : \A k \in T : m <= k
  BY LeastExists
<1>2. m # 0
  <2>1. IsFlattening([i \in 1..0 |-> <<>>], s, 0)
    BY DEF IsFlattening
  <2> QED
    BY <2>1, <1>1
<1>3. m \in Nat /\ m - 1 \in Nat /\ m - 1 \notin T
  BY <1>1, <1>2
<1>4. PICK g : IsFlattening(g, s, m - 1)
  BY <1>3
<1> DEFINE h == [i \in 1..m |-> IF i = m THEN (IF m = 1 THEN s[m] ELSE g[m - 1] \o s[m]) ELSE g[i]]
<1>5. ASSUME NEW i \in 1..m
      PROVE  h[i] = IF i = 1 THEN s[i] ELSE h[i - 1] \o s[i]
  <2>1. CASE i = m
    BY <1>3, <2>1
  <2>2. CASE i # m
    <3>1. i \in 1..(m - 1) /\ (i # 1 => i - 1 \in 1..m /\ i - 1 # m)
      BY <1>3, <2>2
    <3>2. g[i] = IF i = 1 THEN s[i] ELSE g[i - 1] \o s[i]
      BY <1>4, <3>1 DEF IsFlattening
    <3> QED
      BY <2>2, <3>1, <3>2
  <2> QED
    BY <2>1, <2>2
<1>6. IsFlattening(h, s, m)
  <2>1. h = [i \in 1..m |-> h[i]]
    OBVIOUS
  <2> HIDE DEF h
  <2> QED
    BY <1>5, <2>1 DEF IsFlattening
<1> QED
  BY <1>6, <1>1

LEMMA FlatteningUnique ==
    ASSUME NEW s, NEW n \in Nat, NEW m \in Nat, m <= n,
           NEW g, IsFlattening(g, s, n), NEW h, IsFlattening(h, s, m)
    PROVE  \A i \in 1..m : g[i] = h[i]
<1> DEFINE T == {i \in 1..m : g[i] # h[i]}
<1> SUFFICES ASSUME T # {} PROVE FALSE
  OBVIOUS
<1>1. PICK i \in T : \A k \in T : i <= k
  <2>1. T \in SUBSET Nat
    OBVIOUS
  <2> QED
    BY <2>1, LeastExists
<1>2. /\ g[i] = IF i = 1 THEN s[i] ELSE g[i - 1] \o s[i]
      /\ h[i] = IF i = 1 THEN s[i] ELSE h[i - 1] \o s[i]
  <2>1. i \in 1..m /\ i \in 1..n
    OBVIOUS
  <2> QED
    BY <2>1, Zenon DEF IsFlattening
<1>3. i # 1 => i - 1 \in 1..m /\ i - 1 \notin T
  BY <1>1
<1> QED
  BY <1>1, <1>2, <1>3

LEMMA FlattenIs ==
    ASSUME NEW f, NEW n \in Nat \ {0}, NEW m \in Nat, m <= n,
           NEW h, IsFlattening(h, f, n)
    PROVE  m # 0 => FlattenSeq([i \in 1..m |-> f[i]]) = h[m]
<1> SUFFICES ASSUME m # 0 PROVE FlattenSeq([i \in 1..m |-> f[i]]) = h[m]
  OBVIOUS
<1> DEFINE s == [i \in 1..m |-> f[i]]
           IsIt(g) == g = [i \in 1..m |-> IF i = 1 THEN s[i] ELSE g[i - 1] \o s[i]]
<1>1. Len(s) = m
  OBVIOUS
<1>2. FlattenSeq(s) = (CHOOSE g : IsIt(g))[m]
  <2> HIDE DEF s
  <2> QED
    BY <1>1 DEF FlattenSeq
<1>3. ASSUME NEW g PROVE IsIt(g) <=> IsFlattening(g, f, m)
  <2> DEFINE k == [i \in 1..m |-> IF i = 1 THEN s[i] ELSE g[i - 1] \o s[i]]
  <2>1. \A i \in 1..m : k[i] = IF i = 1 THEN f[i] ELSE g[i - 1] \o f[i]
    OBVIOUS
  <2>2. k = [i \in 1..m |-> k[i]] /\ (IsIt(g) <=> g = k)
    OBVIOUS
  <2> HIDE DEF k, IsIt
  <2>3. IsIt(g) => IsFlattening(g, f, m)
    BY <2>1, <2>2 DEF IsFlattening
  <2>4. ASSUME IsFlattening(g, f, m) PROVE g = k
    <3>1. \A i \in 1..m : g[i] = k[i]
      BY <2>1, <2>4 DEF IsFlattening
    <3>2. g = [i \in 1..m |-> g[i]]
      BY <2>4 DEF IsFlattening
    <3> QED
      BY <2>2, <3>1, <3>2
  <2> QED
    BY <2>2, <2>3, <2>4
<1> HIDE DEF s, IsIt
<1>4. PICK g : IsIt(g) /\ FlattenSeq(s) = g[m]
  BY <1>2, <1>3, FlatteningExists
<1>5. g[m] = h[m]
  BY <1>3, <1>4, FlatteningUnique
<1> QED
  BY <1>4, <1>5 DEF s

(* Joining one sequence more.                                              *)
LEMMA FlattenNone == ASSUME NEW f PROVE FlattenSeq([i \in 1..0 |-> f[i]]) = <<>>
  BY DEF FlattenSeq

LEMMA FlattenOne == ASSUME NEW f PROVE FlattenSeq([i \in 1..1 |-> f[i]]) = f[1]
<1>1. PICK h : IsFlattening(h, f, 1)
  BY FlatteningExists
<1>2. h[1] = f[1]
  BY <1>1 DEF IsFlattening
<1>3. 1 \in Nat \ {0} /\ 1 <= 1 /\ 1 # 0
  OBVIOUS
<1> QED
  BY <1>1, <1>2, <1>3, FlattenIs, Zenon

LEMMA FlattenStep ==
    ASSUME NEW f, NEW n \in Nat \ {0}
    PROVE  FlattenSeq([i \in 1..n + 1 |-> f[i]]) = FlattenSeq([i \in 1..n |-> f[i]]) \o f[n + 1]
<1>1. PICK h : IsFlattening(h, f, n + 1)
  BY FlatteningExists
<1>2. h[n + 1] = h[n] \o f[n + 1]
  <2>1. n + 1 \in 1..n + 1 /\ n + 1 # 1 /\ (n + 1) - 1 = n
    OBVIOUS
  <2>2. h[n + 1] = IF n + 1 = 1 THEN f[n + 1] ELSE h[(n + 1) - 1] \o f[n + 1]
    BY <1>1, <2>1, Zenon DEF IsFlattening
  <2> QED
    BY <2>1, <2>2, Zenon
<1>3. FlattenSeq([i \in 1..n + 1 |-> f[i]]) = h[n + 1] /\ FlattenSeq([i \in 1..n |-> f[i]]) = h[n]
  BY <1>1, FlattenIs
<1> QED
  BY <1>2, <1>3

(* The join of the first m sequences of f, one sequence at a time.         *)
Flattened(f) == [m \in Nat |-> FlattenSeq([i \in 1..m |-> f[i]])]

LEMMA FlattenedSteps ==
    ASSUME NEW f
    PROVE  /\ Flattened(f)[0] = <<>> /\ Flattened(f)[1] = f[1]
           /\ \A m \in Nat \ {0} : Flattened(f)[m + 1] = Flattened(f)[m] \o f[m + 1]
           /\ \A m \in Nat : Flattened(f)[m] = FlattenSeq([i \in 1..m |-> f[i]])
<1> DEFINE Flat == Flattened(f)
<1>1. /\ Flat[0] = <<>> /\ Flat[1] = f[1]
      /\ \A m \in Nat \ {0} : Flat[m + 1] = Flat[m] \o f[m + 1]
  <2>1. \A m \in Nat : Flat[m] = FlattenSeq([i \in 1..m |-> f[i]])
    BY DEF Flattened
  <2>2. 0 \in Nat /\ 1 \in Nat /\ \A m \in Nat \ {0} : m \in Nat /\ m + 1 \in Nat
    OBVIOUS
  <2> HIDE DEF Flat
  <2>3. Flat[0] = <<>> /\ Flat[1] = f[1]
    <3>1. Flat[0] = FlattenSeq([i \in 1..0 |-> f[i]])
      BY <2>1, <2>2, Zenon
    <3>2. Flat[1] = FlattenSeq([i \in 1..1 |-> f[i]])
      BY <2>1, <2>2, Zenon
    <3>3. FlattenSeq([i \in 1..0 |-> f[i]]) = <<>>
      BY FlattenNone, Zenon
    <3>4. FlattenSeq([i \in 1..1 |-> f[i]]) = f[1]
      BY FlattenOne, Zenon
    <3> QED
      BY <3>1, <3>2, <3>3, <3>4, Zenon
  <2>4. ASSUME NEW m \in Nat \ {0} PROVE Flat[m + 1] = Flat[m] \o f[m + 1]
    BY <2>1, <2>2, FlattenStep, Zenon
  <2> QED
    BY <2>3, <2>4, Zenon
<1>2. \A m \in Nat : Flat[m] = FlattenSeq([i \in 1..m |-> f[i]])
  BY DEF Flattened
<1> QED
  BY <1>1, <1>2, Zenon

(* A flattening of sequences over S is one.                                *)
LEMMA FlattenType ==
    ASSUME NEW S, NEW f, NEW n \in Nat, \A i \in 1..n : f[i] \in Seq(S)
    PROVE  FlattenSeq([i \in 1..n |-> f[i]]) \in Seq(S)
<1> DEFINE Flat == Flattened(f)
           T == {m \in Nat : m <= n /\ Flat[m] \notin Seq(S)}
<1>1. /\ Flat[0] = <<>> /\ Flat[1] = f[1]
      /\ \A m \in Nat \ {0} : Flat[m + 1] = Flat[m] \o f[m + 1]
  BY FlattenedSteps
<1>2. Flat[n] = FlattenSeq([i \in 1..n |-> f[i]])
  BY FlattenedSteps
<1> HIDE DEF Flat
<1> SUFFICES ASSUME T # {} PROVE FALSE
  BY <1>2
<1>3. PICK m \in T : \A k \in T : m <= k
  <2>1. T \in SUBSET Nat
    OBVIOUS
  <2> QED
    BY <2>1, LeastExists
<1>4. m \in Nat /\ m <= n /\ Flat[m] \notin Seq(S)
  OBVIOUS
<1>5. m # 0
  <2>1. <<>> \in Seq(S)
    OBVIOUS
  <2> QED
    BY <1>1, <1>4, <2>1
<1>6. m # 1
  BY <1>1, <1>4
<1>7. m - 1 \in Nat \ {0} /\ m - 1 \notin T /\ m \in 1..n /\ (m - 1) + 1 = m
  BY <1>3, <1>4, <1>5, <1>6
<1>8. Flat[m - 1] \in Seq(S) /\ f[m] \in Seq(S)
  BY <1>4, <1>7
<1>9. Flat[m] = Flat[m - 1] \o f[m]
  BY <1>1, <1>7
<1> QED
  BY <1>4, <1>8, <1>9

(* Two joined sequences have the elements of both.                         *)
LEMMA JoinedElements ==
    ASSUME NEW S, NEW r \in Seq(S), NEW s \in Seq(S)
    PROVE  r \o s \in Seq(S) /\ Range(r \o s) = Range(r) \cup Range(s)
<1>1. /\ Len(r) \in Nat /\ Len(s) \in Nat /\ r \o s \in Seq(S) /\ Len(r \o s) = Len(r) + Len(s)
      /\ DOMAIN r = 1..Len(r) /\ DOMAIN s = 1..Len(s) /\ DOMAIN (r \o s) = 1..Len(r) + Len(s)
      /\ \A i \in 1..Len(r) + Len(s) : (r \o s)[i] = IF i <= Len(r) THEN r[i] ELSE s[i - Len(r)]
  OBVIOUS
<1> DEFINE q == r \o s
<1> HIDE DEF q
<1>2. ASSUME NEW i \in 1..Len(r) PROVE r[i] \in Range(q)
  <2>1. i \in 1..Len(r) + Len(s) /\ i <= Len(r)
    BY <1>1
  <2> QED
    BY <1>1, <2>1 DEF Range, q
<1>3. ASSUME NEW i \in 1..Len(s) PROVE s[i] \in Range(q)
  <2>1. Len(r) + i \in 1..Len(r) + Len(s) /\ ~(Len(r) + i <= Len(r)) /\ (Len(r) + i) - Len(r) = i
    BY <1>1
  <2>2. q[Len(r) + i] = s[i]
    BY <1>1, <2>1 DEF q
  <2> QED
    BY <1>1, <2>1, <2>2 DEF Range, q
<1>4. ASSUME NEW i \in 1..Len(r) + Len(s) PROVE q[i] \in Range(r) \cup Range(s)
  <2>1. CASE i <= Len(r)
    <3>1. i \in 1..Len(r)
      BY <1>1, <2>1
    <3> QED
      BY <1>1, <2>1, <3>1 DEF Range, q
  <2>2. CASE ~(i <= Len(r))
    <3>1. i - Len(r) \in 1..Len(s)
      BY <1>1, <2>2
    <3> QED
      BY <1>1, <2>2, <3>1 DEF Range, q
  <2> QED
    BY <2>1, <2>2
<1>5. Range(q) = {q[i] : i \in 1..Len(r) + Len(s)}
  BY <1>1 DEF Range, q
<1>6. Range(r) = {r[i] : i \in 1..Len(r)} /\ Range(s) = {s[i] : i \in 1..Len(s)}
  BY <1>1 DEF Range
<1>7. Range(q) \subseteq Range(r) \cup Range(s)
  BY <1>4, <1>5
<1>8. Range(r) \cup Range(s) \subseteq Range(q)
  BY <1>2, <1>3, <1>6
<1>9. Range(q) = Range(r) \cup Range(s)
  BY <1>7, <1>8
<1> QED
  BY <1>1, <1>9 DEF q

(* A joined sequence has the elements of those joined.                     *)
LEMMA FlattenElements ==
    ASSUME NEW S, NEW f, NEW n \in Nat, \A i \in 1..n : f[i] \in Seq(S)
    PROVE  \A e : e \in Range(FlattenSeq([i \in 1..n |-> f[i]])) <=> \E i \in 1..n : e \in Range(f[i])
<1> DEFINE Flat == Flattened(f)
           T == {m \in Nat : m <= n /\ ~\A e : e \in Range(Flat[m]) <=> \E i \in 1..m : e \in Range(f[i])}
<1>1. /\ Flat[0] = <<>> /\ Flat[1] = f[1]
      /\ \A m \in Nat \ {0} : Flat[m + 1] = Flat[m] \o f[m + 1]
      /\ \A m \in Nat : Flat[m] = FlattenSeq([i \in 1..m |-> f[i]])
  BY FlattenedSteps
<1>2. \A m \in Nat : m <= n => Flat[m] \in Seq(S)
  <2> SUFFICES ASSUME NEW m \in Nat, m <= n PROVE Flat[m] \in Seq(S)
    OBVIOUS
  <2>1. \A i \in 1..m : f[i] \in Seq(S)
    OBVIOUS
  <2> QED
    <3>1. FlattenSeq([i \in 1..m |-> f[i]]) \in Seq(S)
      BY <2>1, FlattenType
    <3> HIDE DEF Flat
    <3> QED
      BY <1>1, <3>1
<1> HIDE DEF Flat
<1>3. T = {}
  <2> SUFFICES ASSUME T # {} PROVE FALSE
    OBVIOUS
  <2>1. PICK m \in T : \A k \in T : m <= k
    <3>1. T \in SUBSET Nat
      OBVIOUS
    <3> QED
      BY <3>1, LeastExists
  <2>2. m # 0
    <3>1. Range(<<>>) = {}
      BY DEF Range
    <3> QED
      BY <1>1, <2>1, <3>1
  <2>3. m # 1
    <3>1. 1..1 = {1}
      OBVIOUS
    <3> QED
      BY <1>1, <2>1, <3>1
  <2>4. m - 1 \in Nat \ {0} /\ (m - 1) + 1 = m /\ m - 1 <= n /\ m - 1 \notin T /\ m \in 1..n
        /\ 1..m = 1..m - 1 \cup {m}
    <3>1. m \in Nat /\ m <= n
      BY <2>1
    <3>2. m - 1 \in Nat \ {0} /\ (m - 1) + 1 = m /\ m - 1 <= n /\ m \in 1..n /\ ~(m <= m - 1)
      BY <2>2, <2>3, <3>1
    <3>3. 1..m = 1..m - 1 \cup {m}
      BY <2>2, <3>1
    <3> QED
      BY <2>1, <3>2, <3>3
  <2>5. \A e : e \in Range(Flat[m - 1]) <=> \E i \in 1..m - 1 : e \in Range(f[i])
    BY <2>4
  <2>6. Flat[m] = Flat[m - 1] \o f[m] /\ Flat[m - 1] \in Seq(S) /\ f[m] \in Seq(S)
    BY <1>1, <1>2, <2>4
  <2>7. Range(Flat[m]) = Range(Flat[m - 1]) \cup Range(f[m])
    BY <2>6, JoinedElements
  <2>8. \A e : e \in Range(Flat[m]) <=> \E i \in 1..m : e \in Range(f[i])
    BY <2>4, <2>5, <2>7
  <2> QED
    BY <2>1, <2>8
<1>4. ~(n \in Nat /\ n <= n /\ ~\A e : e \in Range(Flat[n]) <=> \E i \in 1..n : e \in Range(f[i]))
  BY <1>3
<1>5. n <= n /\ Flat[n] = FlattenSeq([i \in 1..n |-> f[i]])
  BY <1>1
<1> QED
  BY <1>4, <1>5, Zenon
------------------------------------------------------------------------------
(* s lists the n numbers in S in ascending order.                          *)
IsSorting(s, n, S) ==
    /\ s \in [1..n -> S]
    /\ \A k \in S : \E i \in 1..n : s[i] = k
    /\ \A i, j \in 1..n : i < j => s[i] < s[j]

LEMMA SortingExists ==
    ASSUME NEW S \in SUBSET Nat, IsFiniteSet(S)
    PROVE  \E s : IsSorting(s, Cardinality(S), S)
<1> DEFINE Counter == {n \in Nat : \E R \in SUBSET Nat : IsFiniteSet(R) /\ Cardinality(R) = n
                                                        /\ ~\E s : IsSorting(s, n, R)}
<1> SUFFICES ASSUME Counter # {} PROVE FALSE
  BY FS_CardinalityType
<1>1. PICK n \in Counter : \A k \in Counter : n <= k
  <2>1. Counter \in SUBSET Nat
    OBVIOUS
  <2> QED
    BY <2>1, LeastExists
<1>2. PICK R \in SUBSET Nat : IsFiniteSet(R) /\ Cardinality(R) = n /\ ~\E s : IsSorting(s, n, R)
  OBVIOUS
<1>3. R # {}
  <2> SUFFICES ASSUME R = {} PROVE FALSE
    OBVIOUS
  <2>1. n = 0
    BY <1>2, FS_EmptySet
  <2>2. IsSorting([i \in 1..0 |-> 0], 0, {})
    BY DEF IsSorting
  <2> QED
    BY <1>2, <2>1, <2>2
<1>4. PICK k \in R : \A l \in R : k <= l
  BY <1>3, LeastExists
<1>5. IsFiniteSet(R \ {k}) /\ Cardinality(R \ {k}) = n - 1 /\ n - 1 \in Nat
  <2>1. IsFiniteSet(R \ {k}) /\ Cardinality(R \ {k}) = Cardinality(R) - 1
    BY <1>2, FS_RemoveElement
  <2>2. Cardinality(R \ {k}) \in Nat
    BY <2>1, FS_CardinalityType
  <2> QED
    BY <1>2, <2>1, <2>2
<1>6. n - 1 \notin Counter
  BY <1>1
<1>7. PICK s : IsSorting(s, n - 1, R \ {k})
  BY <1>5, <1>6
<1> DEFINE t == [i \in 1..n |-> IF i = 1 THEN k ELSE s[i - 1]]
<1>8. n \in Nat /\ n >= 1 /\ \A i \in 1..n : i # 1 => i - 1 \in 1..n - 1
  BY <1>5
<1>9. t \in [1..n -> R]
  BY <1>7, <1>8 DEF IsSorting
<1>10. ASSUME NEW l \in R PROVE \E i \in 1..n : t[i] = l
  <2>1. CASE l = k
    BY <1>8, <2>1
  <2>2. CASE l # k
    <3>1. PICK i \in 1..n - 1 : s[i] = l
      BY <1>7, <2>2 DEF IsSorting
    <3>2. i + 1 \in 1..n /\ i + 1 # 1 /\ (i + 1) - 1 = i
      BY <1>8
    <3>3. t[i + 1] = l
      BY <3>1, <3>2
    <3> QED
      BY <3>2, <3>3
  <2> QED
    BY <2>1, <2>2
<1>11. ASSUME NEW i \in 1..n, NEW j \in 1..n, i < j PROVE t[i] < t[j]
  <2>1. j - 1 \in 1..n - 1 /\ t[j] = s[j - 1]
    BY <1>8, <1>11
  <2>2. s[j - 1] \in R \ {k}
    BY <1>7, <2>1 DEF IsSorting
  <2>3. CASE i = 1
    <3>1. t[i] = k
      BY <2>3
    <3>2. k \in Nat /\ s[j - 1] \in Nat /\ k <= s[j - 1] /\ s[j - 1] # k
      BY <1>4, <2>2
    <3> HIDE DEF t
    <3> QED
      BY <2>1, <3>1, <3>2
  <2>4. CASE i # 1
    <3>1. i - 1 \in 1..n - 1 /\ t[i] = s[i - 1] /\ i - 1 < j - 1
      BY <1>8, <1>11, <2>4
    <3> QED
      BY <1>7, <2>1, <3>1 DEF IsSorting
  <2> QED
    BY <2>3, <2>4
<1>12. IsSorting(t, n, R)
  <2> HIDE DEF t
  <2> QED
    BY <1>9, <1>10, <1>11 DEF IsSorting
<1> QED
  BY <1>2, <1>12

LEMMA SortingAgrees ==
    ASSUME NEW S \in SUBSET Nat, NEW n \in Nat, NEW m \in Nat, NEW s, NEW t,
           IsSorting(s, n, S), IsSorting(t, m, S), n <= m
    PROVE  \A i \in 1..n : s[i] = t[i]
<1> DEFINE T == {i \in 1..n : s[i] # t[i]}
<1> SUFFICES ASSUME T # {} PROVE FALSE
  OBVIOUS
<1>1. PICK i \in T : \A k \in T : i <= k
  <2>1. T \in SUBSET Nat
    OBVIOUS
  <2> QED
    BY <2>1, LeastExists
<1>2. i \in 1..n /\ i \in 1..m /\ s[i] # t[i]
  OBVIOUS
<1>3. s[i] \in S /\ t[i] \in S /\ s[i] \in Nat /\ t[i] \in Nat
  BY <1>2 DEF IsSorting
<1>4. PICK j \in 1..m : t[j] = s[i]
  BY <1>3 DEF IsSorting
<1>5. PICK k \in 1..n : s[k] = t[i]
  BY <1>3 DEF IsSorting
<1>6. ~(j < i)
  <2> SUFFICES ASSUME j < i PROVE FALSE
    OBVIOUS
  <2>1. j \in 1..n /\ j \notin T
    BY <1>1, <1>2
  <2>2. s[j] = s[i] /\ s[j] < s[i]
    BY <1>2, <1>4, <2>1 DEF IsSorting
  <2> QED
    BY <1>3, <2>2
<1>7. ~(k < i)
  <2> SUFFICES ASSUME k < i PROVE FALSE
    OBVIOUS
  <2>1. k \notin T /\ k \in 1..m
    BY <1>1, <1>2
  <2>2. t[k] = t[i] /\ t[k] < t[i]
    BY <1>2, <1>5, <2>1 DEF IsSorting
  <2> QED
    BY <1>3, <2>2
<1>8. j # i /\ k # i
  BY <1>2, <1>4, <1>5
<1>9. i < j /\ i < k
  BY <1>2, <1>6, <1>7, <1>8
<1>10. t[i] < s[i] /\ s[i] < t[i]
  BY <1>2, <1>4, <1>5, <1>9 DEF IsSorting
<1> QED
  BY <1>3, <1>10

LEMMA SortingNotLonger ==
    ASSUME NEW S \in SUBSET Nat, NEW n \in Nat, NEW m \in Nat, NEW s, NEW t,
           IsSorting(s, n, S), IsSorting(t, m, S), n < m
    PROVE  FALSE
<1>1. \A i \in 1..n : s[i] = t[i]
  BY SortingAgrees
<1>2. n + 1 \in 1..m /\ t[n + 1] \in S
  BY DEF IsSorting
<1>3. PICK i \in 1..n : s[i] = t[n + 1]
  BY <1>2 DEF IsSorting
<1>4. i \in 1..m /\ i < n + 1
  OBVIOUS
<1>5. t[i] < t[n + 1] /\ t[i] = t[n + 1] /\ t[i] \in Nat
  BY <1>1, <1>2, <1>3, <1>4 DEF IsSorting
<1> QED
  BY <1>5

(* There is one ascending order.                                           *)
LEMMA SortingUnique ==
    ASSUME NEW S \in SUBSET Nat, NEW n \in Nat, NEW m \in Nat, NEW s, NEW t,
           IsSorting(s, n, S), IsSorting(t, m, S)
    PROVE  n = m /\ s = t
<1>1. n = m
  <2>1. ~(n < m)
    BY SortingNotLonger
  <2>2. ~(m < n)
    BY SortingNotLonger
  <2> QED
    BY <2>1, <2>2
<1>2. \A i \in 1..n : s[i] = t[i]
  BY <1>1, SortingAgrees
<1>3. s \in [1..n -> S] /\ t \in [1..n -> S]
  BY <1>1 DEF IsSorting
<1> QED
  BY <1>1, <1>2, <1>3

(* What follows a position of a sorting sorts what is greater.             *)
LEMMA SortingSuffix ==
    ASSUME NEW S \in SUBSET Nat, NEW n \in Nat, NEW s, IsSorting(s, n, S), NEW k \in 1..n
    PROVE  IsSorting([i \in 1..n - k |-> s[i + k]], n - k, {l \in S : l > s[k]})
<1> DEFINE t == [i \in 1..n - k |-> s[i + k]]
           T == {l \in S : l > s[k]}
<1>1. n - k \in Nat /\ \A i \in 1..n - k : i + k \in 1..n /\ k < i + k
  OBVIOUS
<1>2. t \in [1..n - k -> T]
  <2>1. \A i \in 1..n - k : s[i + k] \in S /\ s[i + k] \in Nat /\ s[k] \in Nat /\ s[k] < s[i + k]
    BY <1>1 DEF IsSorting
  <2> QED
    BY <2>1
<1>3. ASSUME NEW l \in T PROVE \E i \in 1..n - k : t[i] = l
  <2>1. PICK j \in 1..n : s[j] = l
    BY DEF IsSorting
  <2>2. s[k] < s[j] /\ s[k] \in Nat /\ s[j] \in Nat
    BY <2>1 DEF IsSorting
  <2>3. ~(j < k) /\ j # k
    <3>1. j < k => s[j] < s[k]
      BY DEF IsSorting
    <3> QED
      BY <2>2, <3>1
  <2>4. j - k \in 1..n - k /\ (j - k) + k = j
    BY <2>3
  <2>5. t[j - k] = l
    BY <2>1, <2>4
  <2> QED
    BY <2>4, <2>5
<1>4. ASSUME NEW i \in 1..n - k, NEW j \in 1..n - k, i < j PROVE t[i] < t[j]
  <2>1. i + k \in 1..n /\ j + k \in 1..n /\ i + k < j + k
    BY <1>1, <1>4
  <2> QED
    BY <2>1 DEF IsSorting
<1> HIDE DEF t, T
<1>5. IsSorting(t, n - k, T)
  BY <1>2, <1>3, <1>4 DEF IsSorting
<1> QED
  BY <1>5 DEF t, T
==============================================================================
