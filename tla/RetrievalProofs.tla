--------------------------- MODULE RetrievalProofs ---------------------------
(***************************************************************************)
(* That pages add up, that a context is a best part of what was found and  *)
(* that the parts of a summary agree, for every value of the constants.    *)
(*                                                                         *)
(* The orders and the recursive functions of Retrieval are over data, so   *)
(* the induction they need is brought in first, in the one form that has   *)
(* no operator for a parameter: a set of numbers that is not empty has a   *)
(* least one.                                                              *)
(***************************************************************************)
EXTENDS Retrieval, FiniteSetTheorems, SequenceTheorems, WellFoundedInduction, TLAPS

-----------------------------------------------------------------------------
(* Induction over the numbers, and recursive functions *)

\* Every set of numbers that is not empty has a least one.
LEMMA LeastNumber ==
    ASSUME NEW T \in SUBSET Nat, T # {}
    PROVE  \E n \in T : \A m \in T : n <= m
<1> DEFINE R == {ss \in Nat \X Nat : ss[1] < ss[2]}
<1>1. IsWellFoundedOn(R, Nat)
  BY NatLessThanWellFounded DEF OpToRel
<1> HIDE DEF R
<1>2. PICK n \in T : \A m \in T : ~ (<<m, n>> \in R)
  BY <1>1, WFMin
<1>3. \A m \in T : ~ (m < n)
  BY <1>2 DEF R
<1> QED
  BY <1>3

\* Induction over the numbers, for a set in place of a predicate.
LEMMA AllNumbers ==
    ASSUME NEW T, 0 \in T, \A n \in Nat : n \in T => n + 1 \in T
    PROVE  \A n \in Nat : n \in T
<1> SUFFICES ASSUME Nat \ T # {} PROVE FALSE
  OBVIOUS
<1>1. PICK n \in Nat \ T : \A m \in Nat \ T : n <= m
  BY LeastNumber
<1>2. n # 0 /\ n - 1 \in Nat
  BY <1>1
<1> QED
  BY <1>1, <1>2

\* A function on 0 .. n that starts with first and takes each step.
Follows(f, n, first, Steps) ==
    f[0] = first /\ \A i \in 0 .. n - 1 : f[i + 1] = Steps[i + 1][f[i]]

\* There is one for every first value and all steps.
LEMMA StepByStep ==
    ASSUME NEW n \in Nat, NEW V, NEW first \in V, NEW Steps \in [1 .. n -> [V -> V]]
    PROVE  \E f \in [0 .. n -> V] : Follows(f, n, first, Steps)
<1> DEFINE Good(k, f) == f[0] = first /\ \A i \in 0 .. k - 1 : f[i + 1] = Steps[i + 1][f[i]]
           T == {k \in Nat : k <= n => \E f \in [0 .. k -> V] : Good(k, f)}
<1>1. 0 \in T
  <2>1. Good(0, [i \in 0 .. 0 |-> first])
    OBVIOUS
  <2> QED
    BY <2>1
<1>2. ASSUME NEW k \in Nat, k \in T PROVE k + 1 \in T
  <2> SUFFICES ASSUME k + 1 <= n PROVE \E f \in [0 .. k + 1 -> V] : Good(k + 1, f)
    OBVIOUS
  <2>1. PICK f \in [0 .. k -> V] : Good(k, f)
    BY <1>2
  <2> DEFINE g == [i \in 0 .. k + 1 |-> IF i = k + 1 THEN Steps[k + 1][f[k]] ELSE f[i]]
  <2>2. f[k] \in V /\ Steps[k + 1] \in [V -> V]
    OBVIOUS
  <2>3. g \in [0 .. k + 1 -> V]
    BY <2>2
  <2>4. g[0] = first
    BY <2>1
  <2>5. ASSUME NEW i \in 0 .. k PROVE g[i + 1] = Steps[i + 1][g[i]]
    <3>1. CASE i = k
      BY <3>1
    <3>2. CASE i \in 0 .. k - 1
      <4>1. i + 1 \in 0 .. k + 1 /\ i + 1 # k + 1 /\ i # k + 1 /\ i \in 0 .. k + 1
        BY <3>2
      <4>2. g[i + 1] = f[i + 1] /\ g[i] = f[i]
        BY <4>1
      <4> QED
        BY <2>1, <3>2, <4>2
    <3> QED
      BY <3>1, <3>2
  <2>6. Good(k + 1, g)
    <3>1. (k + 1) - 1 = k
      OBVIOUS
    <3> HIDE DEF g
    <3> QED
      BY <2>4, <2>5, <3>1
  <2> HIDE DEF g, Good
  <2> QED
    BY <2>3, <2>6
<1>3. n \in T
  <2> HIDE DEF T
  <2> QED
    BY <1>1, <1>2, AllNumbers
<1> QED
  BY <1>3 DEF Follows

-----------------------------------------------------------------------------
(* The rows of a table in the order of a time *)

\* How many of S come before x where a greater f comes first.
Before(S, f, x) == Cardinality({y \in S : f[y] > f[x]})

\* A count of those before an element is a number below the size of the set.
LEMMA BeforeIsCount ==
    ASSUME NEW S, IsFiniteSet(S), NEW f \in [S -> Int], NEW x \in S
    PROVE  /\ Cardinality(S) \in Nat
           /\ Before(S, f, x) \in Nat /\ Before(S, f, x) < Cardinality(S)
<1> DEFINE A == {y \in S : f[y] > f[x]}
<1>1. A \in SUBSET S /\ x \notin A
  OBVIOUS
<1> HIDE DEF A
<1>2. /\ IsFiniteSet(A) /\ Cardinality(A) <= Cardinality(S)
      /\ Cardinality(S) = Cardinality(A) => S = A
  BY <1>1, FS_Subset
<1>3. Cardinality(A) \in Nat /\ Cardinality(S) \in Nat
  BY <1>2, FS_CardinalityType
<1>4. Cardinality(A) < Cardinality(S)
  BY <1>1, <1>2, <1>3
<1> QED
  BY <1>3, <1>4 DEF A, Before

\* An order of a set has each of its elements once.
LEMMA RankedIsOrder ==
    ASSUME NEW S, IsFiniteSet(S), NEW value, NEW order \in Ranked(S, value)
    PROVE  /\ Cardinality(S) \in Nat /\ order \in Seq(S) /\ Len(order) = Cardinality(S)
           /\ \A i, j \in 1 .. Len(order) : order[i] = order[j] => i = j
           /\ \A i, j \in 1 .. Len(order) : i < j => value[order[i]] >= value[order[j]]
           /\ \A x \in S : \E i \in 1 .. Len(order) : order[i] = x
<1> DEFINE n == Cardinality(S)
<1>1. n \in Nat /\ IsFiniteSet(1 .. n) /\ Cardinality(1 .. n) = n
  <2>1. n \in Nat
    BY FS_CardinalityType
  <2> HIDE DEF n
  <2>2. IsFiniteSet(1 .. n)
    BY <2>1, FS_Interval
  <2>3. Cardinality(1 .. n) = n
    BY <2>1, FS_Interval
  <2> QED
    BY <2>1, <2>2, <2>3
<1>2. /\ order \in [1 .. n -> S]
      /\ \A i, j \in 1 .. n : i < j => order[i] # order[j] /\ value[order[i]] >= value[order[j]]
  BY DEF Ranked
<1>3. \A i, j \in 1 .. n : order[i] = order[j] => i = j
  <2> SUFFICES ASSUME NEW i \in 1 .. n, NEW j \in 1 .. n, i # j PROVE order[i] # order[j]
    OBVIOUS
  <2>1. i < j \/ j < i
    BY <1>1
  <2> QED
    BY <1>2, <2>1
<1>4. order \in Seq(S) /\ Len(order) = n
  BY <1>1, <1>2
<1>5. order \in Injection(1 .. n, S)
  BY <1>2, <1>3 DEF Injection, IsInjective
<1>6. order \in Surjection(1 .. n, S)
  BY <1>1, <1>5, FS_Injection
<1> QED
  BY <1>1, <1>2, <1>3, <1>4, <1>6 DEF Surjection

\* An element that shares its f with no other has the place of its count in
\* every order.
LEMMA PlaceOfOne ==
    ASSUME NEW S, IsFiniteSet(S), NEW f \in [S -> Int], NEW order \in Ranked(S, f),
           NEW x \in S, \A y \in S : f[y] = f[x] => y = x
    PROVE  /\ Before(S, f, x) \in Nat /\ Before(S, f, x) + 1 \in 1 .. Len(order)
           /\ order[Before(S, f, x) + 1] = x
<1> DEFINE n == Len(order)
           A == {y \in S : f[y] > f[x]}
<1>1. /\ order \in Seq(S) /\ n \in Nat
      /\ \A i, j \in 1 .. n : order[i] = order[j] => i = j
      /\ \A i, j \in 1 .. n : i < j => f[order[i]] >= f[order[j]]
      /\ \A y \in S : \E i \in 1 .. n : order[i] = y
  <2>1. order \in Seq(S) /\ Len(order) \in Nat
    BY RankedIsOrder
  <2> QED
    BY <2>1, RankedIsOrder, SMTT(60)
<1>2. PICK k \in 1 .. n : order[k] = x
  BY <1>1
<1> DEFINE h == [i \in 1 .. k - 1 |-> order[i]]
<1>3. \A i \in 1 .. n : order[i] \in S /\ f[order[i]] \in Int
  <2>1. \A i \in 1 .. n : order[i] \in S
    BY <1>1
  <2> HIDE DEF n, h, A
  <2> QED
    BY <2>1
<1> HIDE DEF n
<1>4. ASSUME NEW i \in 1 .. k - 1 PROVE i \in 1 .. n /\ h[i] = order[i] /\ h[i] \in A
  <2>1. i \in 1 .. n /\ i < k
    BY <1>1, <1>2
  <2>2. order[i] # x /\ f[order[i]] >= f[x]
    BY <1>1, <1>2, <2>1
  <2>3. f[order[i]] # f[x]
    BY <1>3, <2>1, <2>2
  <2> QED
    BY <1>2, <1>3, <2>1, <2>2, <2>3
<1>5. ASSUME NEW y \in A PROVE \E i \in 1 .. k - 1 : h[i] = y
  <2>1. PICK i \in 1 .. n : order[i] = y
    BY <1>1
  <2>2. ~ (k < i) /\ k # i
    BY <1>1, <1>2, <1>3, <2>1
  <2> QED
    BY <1>1, <1>2, <2>1, <2>2
<1>6. h \in [1 .. k - 1 -> A] /\ \A i, j \in 1 .. k - 1 : h[i] = h[j] => i = j
  BY <1>1, <1>4
<1>7. k - 1 \in Nat /\ IsFiniteSet(1 .. k - 1) /\ Cardinality(1 .. k - 1) = k - 1
  <2>1. k - 1 \in Nat
    BY <1>1, <1>2
  <2> QED
    BY <2>1, FS_Interval
<1> HIDE DEF h, A
<1>8. h \in Bijection(1 .. k - 1, A)
  <2>1. h \in Injection(1 .. k - 1, A)
    BY <1>6 DEF Injection, IsInjective
  <2>2. h \in Surjection(1 .. k - 1, A)
    BY <1>5, <1>6 DEF Surjection
  <2> QED
    BY <2>1, <2>2 DEF Bijection
<1>9. Cardinality(A) = k - 1
  <2>1. ExistsBijection(1 .. k - 1, A)
    BY <1>8 DEF ExistsBijection
  <2> QED
    BY <1>7, <2>1, FS_Bijection
<1>10. Before(S, f, x) = k - 1
  BY <1>9 DEF Before, A
<1> QED
  BY <1>1, <1>2, <1>7, <1>10 DEF n

\* A page is the rows from its offset up to its limit or the end of the list.
LEMMA PageIsPart ==
    ASSUME NEW S, NEW list \in Seq(S), NEW limit \in Nat, NEW from \in Nat
    PROVE  /\ Page(list, limit, from) \in Seq(S)
           /\ Len(Page(list, limit, from)) =
                IF from >= Len(list) THEN 0
                ELSE Smaller(from + limit, Len(list)) - from
           /\ \A i \in 1 .. Len(Page(list, limit, from)) :
                Page(list, limit, from)[i] = list[from + i]
<1> DEFINE to == Smaller(from + limit, Len(list))
<1>1. Len(list) \in Nat
  OBVIOUS
<1>2. to \in Nat /\ to <= Len(list) /\ to <= from + limit
  BY <1>1 DEF Smaller
<1>3. \A i \in from + 1 .. to : list[i] \in S
  BY <1>1, <1>2
<1>4. /\ SubSeq(list, from + 1, to) \in Seq(S)
      /\ Len(SubSeq(list, from + 1, to)) = IF from + 1 <= to THEN to - (from + 1) + 1 ELSE 0
      /\ \A i \in 1 .. to - (from + 1) + 1 :
           SubSeq(list, from + 1, to)[i] = list[from + 1 + i - 1]
  BY <1>2, <1>3, SubSeqProperties
<1>5. IF from >= Len(list) THEN to <= from ELSE to >= from
  BY <1>1 DEF Smaller
<1> DEFINE page == SubSeq(list, from + 1, to)
<1>6. Page(list, limit, from) = page
  BY DEF Page
<1>7. to = Smaller(from + limit, Len(list))
  OBVIOUS
<1> HIDE DEF page, to
<1>8. page \in Seq(S) /\ Len(page) = IF from + 1 <= to THEN to - (from + 1) + 1 ELSE 0
  BY <1>4 DEF page
<1>9. Len(page) = IF from >= Len(list) THEN 0 ELSE to - from
  BY <1>1, <1>2, <1>5, <1>8
<1>10. \A i \in 1 .. Len(page) : page[i] = list[from + i]
  <2> SUFFICES ASSUME NEW i \in 1 .. Len(page) PROVE page[i] = list[from + i]
    OBVIOUS
  <2>1. i \in 1 .. to - (from + 1) + 1 /\ from + 1 + i - 1 = from + i
    BY <1>2, <1>8
  <2> QED
    BY <1>4, <2>1 DEF page
<1> QED
  BY <1>6, <1>7, <1>8, <1>9, <1>10

-----------------------------------------------------------------------------
(* The hits of the wanted types *)

Files == DOMAIN FileType

IsWanted(types, file) == types = {} \/ FileType[file] \in types

\* f[i] is what the filter leaves of the first i hits.
Filters(f, hits, types) ==
    /\ f \in [0 .. Len(hits) -> Seq(Files)] /\ f[0] = <<>>
    /\ \A i \in 0 .. Len(hits) - 1 :
         f[i + 1] = IF IsWanted(types, hits[i + 1]) THEN Append(f[i], hits[i + 1]) ELSE f[i]

\* The recursion of Wanted has a value, and that value is all the filter leaves.
LEMMA WantedIsFiltered ==
    ASSUME NEW hits \in Seq(Files), NEW types
    PROVE  \E f : Filters(f, hits, types) /\ Wanted(hits, types) = f[Len(hits)]
<1> DEFINE n == Len(hits)
           nil == <<>>
           Steps == [i \in 1 .. n |-> [s \in Seq(Files) |->
                      IF IsWanted(types, hits[i]) THEN Append(s, hits[i]) ELSE s]]
           Body(f) == [i \in 0 .. n |->
                        IF i = 0 THEN <<>>
                        ELSE IF types = {} \/ FileType[hits[i]] \in types
                        THEN Append(f[i - 1], hits[i]) ELSE f[i - 1]]
<1>1. n \in Nat /\ nil \in Seq(Files) /\ \A i \in 1 .. n : hits[i] \in Files
  OBVIOUS
<1>2. Steps \in [1 .. n -> [Seq(Files) -> Seq(Files)]]
  BY <1>1, AppendProperties
<1>3. PICK f \in [0 .. n -> Seq(Files)] :
        f[0] = nil /\ \A i \in 0 .. n - 1 : f[i + 1] = Steps[i + 1][f[i]]
  <2> DEFINE V == Seq(Files)
  <2>1. n \in Nat /\ nil \in V /\ Steps \in [1 .. n -> [V -> V]]
    BY <1>1, <1>2
  <2> HIDE DEF Steps, n, nil, V
  <2>2. \E f \in [0 .. n -> V] : Follows(f, n, nil, Steps)
    BY <2>1, StepByStep
  <2> QED
    BY <2>2 DEF V, Follows
<1>4. ASSUME NEW i \in 0 .. n - 1
      PROVE  f[i + 1] = IF IsWanted(types, hits[i + 1]) THEN Append(f[i], hits[i + 1]) ELSE f[i]
  <2>1. i \in 0 .. n /\ i + 1 \in 1 .. n
    BY <1>1
  <2>2. f[i] \in Seq(Files)
    BY <1>3, <2>1
  <2>3. f[i + 1] = Steps[i + 1][f[i]]
    BY <1>3
  <2> HIDE DEF n
  <2> QED
    BY <2>1, <2>2, <2>3
<1>5. Filters(f, hits, types)
  BY <1>3, <1>4 DEF Filters
<1>6. ASSUME NEW g, NEW i \in 0 .. n - 1
      PROVE  /\ i \in 0 .. n /\ i + 1 \in 0 .. n
             /\ Body(g)[i + 1] = IF IsWanted(types, hits[i + 1])
                                 THEN Append(g[i], hits[i + 1]) ELSE g[i]
  <2>1. i + 1 \in 0 .. n /\ i + 1 # 0 /\ (i + 1) - 1 = i /\ i \in 0 .. n
    BY <1>1
  <2> HIDE DEF n
  <2> QED
    BY <2>1 DEF IsWanted
<1>7. \A g : Body(g)[0] = nil /\ DOMAIN Body(g) = 0 .. n /\ Body(g) = [i \in 0 .. n |-> Body(g)[i]]
  BY <1>1
<1> HIDE DEF Steps, Body, nil
<1>8. ASSUME NEW g, DOMAIN g = 0 .. n, g = [i \in 0 .. n |-> g[i]], g[0] = nil,
             \A i \in 0 .. n - 1 : g[i + 1] = IF IsWanted(types, hits[i + 1])
                                              THEN Append(g[i], hits[i + 1]) ELSE g[i]
      PROVE  f = g
  <2> DEFINE T == {i \in Nat : i <= n => f[i] = g[i]}
  <2> HIDE DEF n
  <2>1. 0 \in T
    BY <1>3, <1>8
  <2>2. ASSUME NEW i \in Nat, i \in T PROVE i + 1 \in T
    <3> SUFFICES ASSUME i + 1 <= n PROVE f[i + 1] = g[i + 1]
      OBVIOUS
    <3>1. f[i] = g[i] /\ i \in 0 .. n - 1
      BY <1>1, <2>2
    <3> QED
      BY <1>4, <1>8, <3>1
  <2> HIDE DEF T
  <2>3. \A i \in Nat : i \in T
    BY <2>1, <2>2, AllNumbers
  <2>4. \A i \in 0 .. n : f[i] = g[i]
    BY <1>1, <2>3 DEF T
  <2>5. f = [i \in 0 .. n |-> f[i]]
    BY <1>3
  <2> QED
    BY <1>8, <2>4, <2>5
<1>9. f = Body(f)
  <2> HIDE DEF n
  <2>1. ASSUME NEW i \in 0 .. n PROVE f[i] = Body(f)[i]
    <3>1. CASE i = 0
      BY <1>3, <1>7, <3>1
    <3>2. CASE i # 0
      <4> DEFINE k == i - 1
      <4>1. k \in 0 .. n - 1 /\ k + 1 = i
        BY <1>1, <3>2
      <4> HIDE DEF k
      <4>2. f[k + 1] = Body(f)[k + 1]
        BY <1>4, <1>6, <4>1
      <4> QED
        BY <4>1, <4>2
    <3> QED
      BY <3>1, <3>2
  <2>2. f = [i \in 0 .. n |-> f[i]]
    BY <1>3
  <2> QED
    BY <1>7, <2>1, <2>2
<1> DEFINE u == CHOOSE g : g = Body(g)
<1>10. u = Body(u)
  BY <1>9
<1>11. Wanted(hits, types) = u[n]
  BY DEF Wanted, Body
<1> HIDE DEF u
<1>12. u[0] = nil /\ DOMAIN u = 0 .. n /\ u = [i \in 0 .. n |-> u[i]]
  BY <1>7, <1>10
<1>13. f = u
  BY <1>6, <1>8, <1>10, <1>12
<1> QED
  BY <1>5, <1>11, <1>13

\* What is appended to the second of two sequences comes last in both.
LEMMA AppendedLast ==
    \A s, t \in Seq(Files) : \A e \in Files : Append(s \o t, e) = s \o Append(t, e)
<1> SUFFICES ASSUME NEW s \in Seq(Files), NEW t \in Seq(Files), NEW e \in Files
             PROVE  Append(s \o t, e) = s \o Append(t, e)
  OBVIOUS
<1> DEFINE one == <<e>>
<1>1. s \o t \in Seq(Files) /\ one \in Seq(Files)
  BY ConcatProperties
<1>2. Append(s \o t, e) = (s \o t) \o one /\ Append(t, e) = t \o one
  BY <1>1, AppendIsConcat
<1> HIDE DEF one
<1>3. (s \o t) \o one = s \o (t \o one)
  BY <1>1, ConcatAssociative
<1> QED
  BY <1>2, <1>3

\* What is left of adjacent parts of a ranking adds up.
LEMMA WantedAddsUp ==
    ASSUME NEW s \in Seq(Files), NEW types, NEW b \in 0 .. Len(s), NEW a \in 0 .. b
    PROVE  /\ Wanted(SubSeq(s, a + 1, b), types) \in Seq(Files)
           /\ Wanted(SubSeq(s, 1, b), types) =
                Wanted(SubSeq(s, 1, a), types) \o Wanted(SubSeq(s, a + 1, b), types)
<1> DEFINE whole == SubSeq(s, 1, b)
           head  == SubSeq(s, 1, a)
           tail  == SubSeq(s, a + 1, b)
           d     == b - a
<1>1. /\ a \in Nat /\ b \in Nat /\ d \in Nat /\ a <= b /\ b <= Len(s) /\ a + d = b
      /\ \A i \in 1 .. b : s[i] \in Files
  OBVIOUS
<1>2. whole \in Seq(Files) /\ Len(whole) = b /\ \A i \in 1 .. b : whole[i] = s[i]
  BY <1>1, SubSeqProperties
<1>3. head \in Seq(Files) /\ Len(head) = a /\ \A i \in 1 .. a : head[i] = s[i]
  BY <1>1, SubSeqProperties
<1>4. tail \in Seq(Files) /\ Len(tail) = d /\ \A i \in 1 .. d : tail[i] = s[a + i]
  BY <1>1, SubSeqProperties
<1> HIDE DEF whole, head, tail, d
<1>5. PICK f : Filters(f, whole, types) /\ Wanted(whole, types) = f[b]
  BY <1>2, WantedIsFiltered
<1>6. PICK g : Filters(g, head, types) /\ Wanted(head, types) = g[a]
  BY <1>3, WantedIsFiltered
<1>7. PICK h : Filters(h, tail, types) /\ Wanted(tail, types) = h[d]
  BY <1>4, WantedIsFiltered
<1>8. \A i \in Nat : i <= a => g[i] = f[i]
  <2> DEFINE T == {i \in Nat : i <= a => g[i] = f[i]}
  <2>1. 0 \in T
    BY <1>5, <1>6 DEF Filters
  <2>2. ASSUME NEW i \in Nat, i \in T PROVE i + 1 \in T
    <3> SUFFICES ASSUME i + 1 <= a PROVE g[i + 1] = f[i + 1]
      OBVIOUS
    <3>1. g[i] = f[i] /\ i \in 0 .. a - 1 /\ i \in 0 .. b - 1 /\ i + 1 \in 1 .. a /\ i + 1 \in 1 .. b
      BY <1>1, <2>2
    <3>2. head[i + 1] = whole[i + 1]
      BY <1>2, <1>3, <3>1
    <3>3. f[i + 1] = IF IsWanted(types, whole[i + 1]) THEN Append(f[i], whole[i + 1]) ELSE f[i]
      BY <1>2, <1>5, <3>1 DEF Filters
    <3>4. g[i + 1] = IF IsWanted(types, head[i + 1]) THEN Append(g[i], head[i + 1]) ELSE g[i]
      BY <1>3, <1>6, <3>1 DEF Filters
    <3> QED
      BY <3>1, <3>2, <3>3, <3>4
  <2> HIDE DEF T
  <2>3. \A i \in Nat : i \in T
    BY <2>1, <2>2, AllNumbers
  <2> QED
    BY <2>3 DEF T
<1> DEFINE F == [i \in 0 .. d |-> f[a + i]]
<1>9. /\ F[0] = f[a] /\ F[d] = f[b] /\ f[a] \in Seq(Files)
      /\ \A i \in 0 .. d - 1 : F[i + 1] = IF IsWanted(types, tail[i + 1])
                                          THEN Append(F[i], tail[i + 1]) ELSE F[i]
  <2>1. a + 0 = a /\ a + d = b /\ 0 \in 0 .. d /\ d \in 0 .. d /\ a \in 0 .. b
    BY <1>1
  <2>2. F[0] = f[a] /\ F[d] = f[b]
    BY <2>1
  <2>3. ASSUME NEW i \in 0 .. d - 1
        PROVE  F[i + 1] = IF IsWanted(types, tail[i + 1])
                          THEN Append(F[i], tail[i + 1]) ELSE F[i]
    <3> DEFINE j == a + i
               k == i + 1
    <3>1. /\ i \in 0 .. d /\ k \in 0 .. d /\ k \in 1 .. d
          /\ j \in 0 .. b - 1 /\ j + 1 \in 1 .. b /\ a + k = j + 1
      BY <1>1
    <3>2. F[i] = f[j] /\ F[k] = f[a + k]
      BY <3>1
    <3>3. tail[k] = s[a + k] /\ whole[j + 1] = s[j + 1]
      BY <1>2, <1>4, <3>1
    <3> HIDE DEF F, j, k
    <3>4. f[j + 1] = IF IsWanted(types, whole[j + 1]) THEN Append(f[j], whole[j + 1]) ELSE f[j]
      BY <1>2, <1>5, <3>1 DEF Filters
    <3>5. F[k] = IF IsWanted(types, tail[k]) THEN Append(F[i], tail[k]) ELSE F[i]
      BY <3>1, <3>2, <3>3, <3>4
    <3> QED
      BY <3>5 DEF k
  <2>4. f[a] \in Seq(Files)
    BY <1>2, <1>5, <2>1 DEF Filters
  <2> QED
    BY <2>2, <2>3, <2>4
<1> HIDE DEF F
<1>10. f[b] = f[a] \o h[d]
  <2> DEFINE G == [i \in 0 .. d |-> f[a] \o h[i]]
             T == {i \in Nat : i <= d => F[i] = G[i]}
  <2>0. G[0] = f[a] \o h[0] /\ \A i \in 0 .. d : G[i] = f[a] \o h[i]
    <3>1. 0 \in 0 .. d
      BY <1>1
    <3> DEFINE z == 0
    <3> HIDE DEF z
    <3>2. z \in 0 .. d => G[z] = f[a] \o h[z]
      OBVIOUS
    <3> QED
      BY <3>1, <3>2 DEF z
  <2> HIDE DEF G
  <2>1. 0 \in T
    <3>1. h[0] = <<>> /\ f[a] \o <<>> = f[a]
      BY <1>7, <1>9, ConcatEmptySeq DEF Filters
    <3> QED
      BY <1>9, <2>0, <3>1
  <2>2. ASSUME NEW i \in Nat, i \in T PROVE i + 1 \in T
    <3> SUFFICES ASSUME i + 1 <= d PROVE F[i + 1] = G[i + 1]
      OBVIOUS
    <3>1. /\ F[i] = G[i] /\ i \in 0 .. d - 1 /\ i \in 0 .. d
          /\ i + 1 \in 1 .. d /\ i + 1 \in 0 .. d
      BY <1>1, <2>2
    <3> DEFINE e == tail[i + 1]
    <3>2. e \in Files
      BY <1>4, <3>1
    <3>3. F[i + 1] = IF IsWanted(types, e) THEN Append(F[i], e) ELSE F[i]
      BY <1>9, <3>1
    <3>4. /\ h[i + 1] = IF IsWanted(types, e) THEN Append(h[i], e) ELSE h[i]
          /\ h[i] \in Seq(Files)
      BY <1>4, <1>7, <3>1 DEF Filters
    <3> HIDE DEF e
    <3>5. Append(f[a] \o h[i], e) = f[a] \o Append(h[i], e)
      BY <1>9, <3>2, <3>4, AppendedLast, Zenon
    <3>6. G[i] = f[a] \o h[i] /\ G[i + 1] = f[a] \o h[i + 1]
      BY <2>0, <3>1
    <3> QED
      BY <3>1, <3>3, <3>4, <3>5, <3>6
  <2> HIDE DEF T
  <2>3. d \in T
    BY <1>1, <2>1, <2>2, AllNumbers
  <2>4. F[d] = G[d] /\ d \in 0 .. d
    BY <1>1, <2>3 DEF T
  <2> QED
    BY <1>9, <2>0, <2>4
<1>11. h[d] \in Seq(Files) /\ g[a] = f[a]
  BY <1>1, <1>4, <1>7, <1>8 DEF Filters
<1> QED
  BY <1>5, <1>6, <1>7, <1>10, <1>11 DEF whole, head, tail

\* A page of a search is what is left of the hits after its offset.
LEMMA SearchPageIs ==
    ASSUME ranking \in Seq(Files), NEW limit \in Nat, NEW from \in Nat, NEW types,
           from <= Len(ranking)
    PROVE  LET to == Smaller(from + limit, Len(ranking))
           IN  /\ to \in from .. Len(ranking)
               /\ SearchPage(limit, from, types) =
                    [results |-> Wanted(SubSeq(ranking, from + 1, to), types), total |-> to]
<1> DEFINE to == Smaller(from + limit, Len(ranking))
           top == Page(ranking, from + limit, 0)
<1>1. Len(ranking) \in Nat /\ to \in from .. Len(ranking) /\ to \in Nat
  BY DEF Smaller
<1>2. top = SubSeq(ranking, 1, to)
  BY <1>1 DEF Page, Smaller
<1> HIDE DEF to, top
<1>3. \A i \in 1 .. to : ranking[i] \in Files
  BY <1>1
<1>4. top \in Seq(Files) /\ Len(top) = to /\ \A i \in 1 .. to : top[i] = ranking[i]
  BY <1>1, <1>2, <1>3, SubSeqProperties
<1>5. SubSeq(top, from + 1, to) = SubSeq(ranking, from + 1, to)
  <2> DEFINE x == SubSeq(top, from + 1, to)
             y == SubSeq(ranking, from + 1, to)
             n == IF from + 1 <= to THEN to - (from + 1) + 1 ELSE 0
  <2>1. \A i \in from + 1 .. to : top[i] \in Files /\ ranking[i] \in Files /\ top[i] = ranking[i]
    BY <1>1, <1>3, <1>4
  <2>2. /\ x \in Seq(Files) /\ Len(x) = n
        /\ \A i \in 1 .. to - (from + 1) + 1 : x[i] = top[from + 1 + i - 1]
    BY <1>1, <2>1, SubSeqProperties
  <2>3. /\ y \in Seq(Files) /\ Len(y) = n
        /\ \A i \in 1 .. to - (from + 1) + 1 : y[i] = ranking[from + 1 + i - 1]
    BY <1>1, <2>1, SubSeqProperties
  <2> HIDE DEF x, y
  <2>4. \A i \in 1 .. n : x[i] = y[i]
    BY <1>1, <2>1, <2>2, <2>3
  <2> HIDE DEF n
  <2>5. x = y
    BY <2>2, <2>3, <2>4, SeqEqual
  <2> QED
    BY <2>5 DEF x, y
<1>6. SearchPage(limit, from, types) =
        [results |-> Wanted(SubSeq(ranking, from + 1, to), types), total |-> to]
  BY <1>4, <1>5 DEF SearchPage, top
<1> QED
  BY <1>1, <1>6 DEF to

\* A page of a search holds files.
LEMMA SearchIsTyped ==
    ASSUME ranking \in Seq(Files), NEW limit \in Nat, NEW from \in Nat, NEW types
    PROVE  SearchPage(limit, from, types).results \in Seq(Files)
<1> DEFINE top  == Page(ranking, from + limit, 0)
           part == SubSeq(top, from + 1, Len(top))
<1>1. top \in Seq(Files)
  BY PageIsPart
<1> HIDE DEF top
<1>2. Len(top) \in Nat /\ \A i \in from + 1 .. Len(top) : top[i] \in Files
  BY <1>1
<1>3. part \in Seq(Files)
  BY <1>2, SubSeqProperties
<1> HIDE DEF part
<1>4. PICK f : Filters(f, part, types) /\ Wanted(part, types) = f[Len(part)]
  BY <1>3, WantedIsFiltered
<1>5. Wanted(part, types) \in Seq(Files)
  <2>1. Len(part) \in 0 .. Len(part) /\ f \in [0 .. Len(part) -> Seq(Files)]
    BY <1>3, <1>4 DEF Filters
  <2>2. f[Len(part)] \in Seq(Files)
    BY <2>1
  <2> QED
    BY <1>4, <2>2
<1> QED
  BY <1>5 DEF SearchPage, part, top

-----------------------------------------------------------------------------
(* The tables *)

Rows == [id : Ids, created : Nat, updated : Nat, version : {1, 2}]

\* Each memory has at most one row, and none while its save waits to insert one.
TablesOK ==
    /\ ranking \in Rankings
    /\ memories \subseteq Rows /\ IsFiniteSet(memories)
    /\ stamped \in [Ids -> Nat \cup {-1}]
    /\ vectors \subseteq Ids /\ IsFiniteSet(vectors)
    /\ IsFiniteSet(sessions) /\ observations \in Seq(sessions)
    /\ clock \in Nat
    /\ \A x, y \in memories : x.id = y.id => x = y
    /\ \A x \in memories : stamped[x.id] = -1

LEMMA TablesStart == Init => TablesOK
<1>1. Init => IsFiniteSet(memories) /\ IsFiniteSet(vectors) /\ IsFiniteSet(sessions)
  BY FS_EmptySet DEF Init
<1> QED
  BY <1>1 DEF Init, TablesOK


\* The row of a memory that is there.
LEMMA RowIsThere ==
    ASSUME TablesOK, NEW m \in There
    PROVE  Row(m) \in memories /\ Row(m).id = m
  BY DEF There, Row

\* What each statement that writes leaves in the tables.
LEMMA TablesStep ==
    ASSUME TablesOK, [Next]_vars
    PROVE  TablesOK'
<1>1. CASE Publish
  BY <1>1 DEF Publish, TablesOK
<1>2. ASSUME NEW m \in Ids, Stamp(m) PROVE TablesOK'
  <2>1. clock' \in Nat /\ stamped' = [stamped EXCEPT ![m] = clock']
    BY <1>2 DEF Stamp, Now, TablesOK
  <2> QED
    BY <1>2, <2>1 DEF Stamp, TablesOK, Rows
<1>3. ASSUME NEW m \in Ids, Insert(m) PROVE TablesOK'
  <2> DEFINE new == [id |-> m, created |-> stamped[m], updated |-> stamped[m], version |-> 1]
  <2>1. /\ memories' = memories \cup {new} /\ stamped' = [stamped EXCEPT ![m] = -1]
        /\ stamped[m] > 0 /\ UNCHANGED <<ranking, vectors, sessions, observations, clock>>
    BY <1>3 DEF Insert
  <2>2. stamped[m] \in Nat
    BY <2>1 DEF TablesOK
  <2>3. new \in Rows /\ new.id = m
    BY <2>2 DEF Rows
  <2>4. \A x \in memories : x.id # m
    BY <2>1 DEF TablesOK
  <2>5. IsFiniteSet(memories')
    BY <2>1, FS_AddElement DEF TablesOK
  <2> HIDE DEF new
  <2>6. \A x, y \in memories' : x.id = y.id => x = y
    BY <2>1, <2>3, <2>4 DEF TablesOK
  <2>7. \A x \in memories' : stamped'[x.id] = -1
    BY <2>1, <2>3 DEF TablesOK, Rows
  <2> QED
    BY <2>1, <2>3, <2>5, <2>6, <2>7 DEF TablesOK
<1>4. ASSUME NEW m \in Ids, StoreVector(m) PROVE TablesOK'
  <2>1. vectors' = vectors \cup {m} /\ IsFiniteSet(vectors')
    BY <1>4, FS_AddElement DEF StoreVector, TablesOK
  <2> QED
    BY <1>4, <2>1 DEF StoreVector, TablesOK
<1>5. ASSUME NEW m \in Ids, Update(m) PROVE TablesOK'
  <2> DEFINE old == Row(m)
             new == [id |-> m, created |-> old.created, updated |-> clock', version |-> 2]
  <2>1. old \in memories /\ old.id = m /\ old \in Rows /\ clock' \in Nat
    BY <1>5, RowIsThere DEF Update, Now, TablesOK
  <2>2. /\ memories' = (memories \ {old}) \cup {new}
        /\ UNCHANGED <<ranking, stamped, vectors, sessions, observations>>
    BY <1>5 DEF Update
  <2> HIDE DEF old
  <2>3. new \in Rows /\ new.id = m
    BY <2>1 DEF Rows
  <2>4. IsFiniteSet(memories')
    BY <2>2, FS_AddElement, FS_RemoveElement DEF TablesOK
  <2> HIDE DEF new
  <2>5. \A x, y \in memories' : x.id = y.id => x = y
    BY <2>1, <2>2, <2>3 DEF TablesOK
  <2>6. \A x \in memories' : stamped'[x.id] = -1
    BY <2>1, <2>2, <2>3 DEF TablesOK
  <2> QED
    BY <2>1, <2>2, <2>3, <2>4, <2>5, <2>6 DEF TablesOK
<1>6. ASSUME NEW m \in Ids, Delete(m) PROVE TablesOK'
  <2>1. memories' = memories \ {Row(m)} /\ IsFiniteSet(memories')
    BY <1>6, FS_RemoveElement DEF Delete, TablesOK
  <2> QED
    BY <1>6, <2>1 DEF Delete, TablesOK
<1>7. ASSUME NEW m \in Ids, DeleteVector(m) PROVE TablesOK'
  <2>1. vectors' = vectors \ {m} /\ IsFiniteSet(vectors')
    BY <1>7, FS_RemoveElement DEF DeleteVector, TablesOK
  <2> QED
    BY <1>7, <2>1 DEF DeleteVector, TablesOK
<1>8. ASSUME NEW s \in Sessions, StartSession(s) PROVE TablesOK'
  <2>1. sessions' = sessions \cup {s} /\ IsFiniteSet(sessions')
    BY <1>8, FS_AddElement DEF StartSession, TablesOK
  <2>2. observations' \in Seq(sessions')
    BY <1>8, <2>1, SeqMonotonic DEF StartSession, TablesOK
  <2> QED
    BY <1>8, <2>1, <2>2 DEF StartSession, TablesOK
<1>9. ASSUME NEW s \in Sessions, SaveObservation(s) PROVE TablesOK'
  BY <1>9, AppendProperties DEF SaveObservation, TablesOK
<1>10. CASE UNCHANGED tables
  BY <1>10 DEF tables, TablesOK
<1>11. ASSUME NEW q \in Asks, Read(q) PROVE UNCHANGED tables
  BY <1>11 DEF Read, Ask, RejectAsk, Search, SearchSymbols, SearchPanics, ListMemories,
     GetMemory, Keyword, Similar, LookUp, LookUpFails, Rank, CountMemories, RecentMemories,
     SessionStats, RecentObservations, StatementFails
<1>12. UNCHANGED vars => UNCHANGED tables
  BY DEF vars, tables
<1> QED
  BY <1>1, <1>2, <1>3, <1>4, <1>5, <1>6, <1>7, <1>8, <1>9, <1>10, <1>11, <1>12 DEF Next, Write

-----------------------------------------------------------------------------
(* The requests *)

Kinds   == {"publish", "insert", "vector", "update", "delete", "start", "observe"}
Ranks   == {"context", "memory"}
Places  == {"idle", "read", "similar", "lookup", "rank", "recent", "stats", "observations",
            "done", "err", "lost"}
Results == [id : Ids, tokens : Nat, score : Int, source : {"keyword", "hybrid", "vector"}]

\* The program's places and the variables' values, reply apart.
RequestsOK ==
    /\ ask \in [Asks -> AskMenu \cup {NoAsk}] /\ step \in [Asks -> Places]
    /\ offset \in [Asks -> Nat] /\ seen \in [Asks -> Seq(Files \cup Ids)]
    /\ found \in [Asks -> SUBSET Results] /\ weight \in [Asks -> Nat \ {0}]
    /\ todo \in [Asks -> SUBSET Ids] /\ DOMAIN reply = Asks
    /\ since \in [Asks -> SUBSET Kinds] /\ through \in [Asks -> SUBSET Ids]
    /\ \A q \in Asks :
         /\ step[q] = "idle" => offset[q] = 0 /\ seen[q] = <<>>
         /\ IsFiniteSet(found[q])
         /\ step[q] \in {"similar", "lookup", "rank"} => ask[q].op \in Ranks
         /\ step[q] \in {"recent", "stats", "observations"} => ask[q].op = "summary"

Counted == {"search", "symbols", "list", "memory"}

\* What a request asks for, and what the tool works with, is counted in numbers.
LEMMA AskIsCounted ==
    ASSUME RequestsOK, NEW q \in Asks
    PROVE  /\ ask[q].op \in Counted =>
                ask[q].limit \in Nat /\ Limit(ask[q]) \in Nat /\ ask[q].wire \in BOOLEAN
           /\ Offset(q) \in Nat
           /\ ask[q].op \in Ranks => Budget(ask[q]) \in Nat /\ FetchLimit(ask[q]) \in Nat
<1>1. ask[q] \in AskMenu \/ ask[q].op = "none"
  BY DEF RequestsOK, NoAsk
<1>2. ask[q].op \in Counted => ask[q].limit \in Nat
  BY <1>1, AskAssumption DEF Counted
<1>3. ask[q].op = "context" => ask[q].budget \in Nat
  BY <1>1, AskAssumption
<1>4. TokensPerHit \in Nat /\ FetchFloor \in Nat
  BY LimitsAssumption
<1>5. ask[q].op \in Counted \cup Ranks =>
        ask[q].wire \in BOOLEAN /\ Defaults[ask[q].op] \in Nat
  BY <1>1, AskAssumption, DefaultsAssumption DEF Counted, Ranks
<1>6. ask[q].op \in Counted => Limit(ask[q]) \in Nat
  BY <1>2, <1>5 DEF Limit, Given
<1>7. ask[q].op = "memory" => Limit(ask[q]) * TokensPerHit \in Nat
  BY <1>4, <1>6 DEF Counted
<1>8. ask[q].op = "context" => Given(ask[q], ask[q].budget) \in Nat
  BY <1>3, <1>5 DEF Given, Ranks
<1>9. ask[q].op \in Ranks => Budget(ask[q]) \in Nat
  BY <1>7, <1>8 DEF Budget, Ranks
<1>10. Offset(q) \in Nat
  BY DEF Offset, RequestsOK
<1> QED
  BY <1>2, <1>4, <1>5, <1>6, <1>9, <1>10 DEF FetchLimit

\* A request leaves the tables and every other request alone.
LEMMA ReadFrame ==
    ASSUME RequestsOK, NEW r \in Asks, Read(r)
    PROVE  /\ UNCHANGED tables /\ UNCHANGED since
           /\ \A q \in Asks \ {r} :
                /\ ask'[q] = ask[q] /\ step'[q] = step[q] /\ offset'[q] = offset[q]
                /\ seen'[q] = seen[q] /\ found'[q] = found[q] /\ weight'[q] = weight[q]
                /\ todo'[q] = todo[q] /\ reply'[q] = reply[q] /\ through'[q] = through[q]
<1>1. CASE Ask(r) \/ RejectAsk(r)
  BY <1>1 DEF Ask, RejectAsk, RequestsOK, Goto, tables, history
<1>2. CASE Search(r) \/ SearchSymbols(r) \/ SearchPanics(r) \/ ListMemories(r) \/ GetMemory(r)
  BY <1>2 DEF Search, SearchSymbols, SearchPanics, ListMemories, GetMemory, RequestsOK, Goto,
     Answer, tables, history
<1>3. CASE Keyword(r) \/ Similar(r) \/ LookUp(r) \/ LookUpFails(r) \/ Rank(r)
  BY <1>3 DEF Keyword, Similar, LookUp, LookUpFails, LookedUp, Rank, RequestsOK, Goto, Answer,
     tables, history
<1>4. CASE CountMemories(r) \/ RecentMemories(r) \/ SessionStats(r) \/ RecentObservations(r)
  BY <1>4 DEF CountMemories, RecentMemories, SessionStats, RecentObservations, RequestsOK,
     Goto, Answer, tables, history
<1>5. CASE StatementFails(r)
  BY <1>5 DEF StatementFails, RequestsOK, Goto, tables, history
<1> QED
  BY <1>1, <1>2, <1>3, <1>4, <1>5 DEF Read

\* A statement that writes leaves the requests alone, and is noted in those under way.
LEMMA WriteFrame ==
    ASSUME RequestsOK, Write
    PROVE  /\ UNCHANGED request /\ since' \in [Asks -> SUBSET Kinds]
           /\ through' \in [Asks -> SUBSET Ids]
           /\ \A q \in Asks : since[q] \subseteq since'[q] /\ through'[q] \subseteq through[q]
<1>1. ASSUME NEW kind \in Kinds, Noted(kind)
      PROVE  /\ UNCHANGED request /\ since' \in [Asks -> SUBSET Kinds]
             /\ \A q \in Asks : since[q] \subseteq since'[q]
  BY <1>1 DEF Noted, RequestsOK
<1>2. CASE Publish
  BY <1>1, <1>2 DEF Publish, Wrote, Kinds, RequestsOK
<1>3. ASSUME NEW m \in Ids, Stamp(m) \/ Insert(m) \/ Update(m)
      PROVE  /\ UNCHANGED <<request, through>> /\ since' \in [Asks -> SUBSET Kinds]
             /\ \A q \in Asks : since[q] \subseteq since'[q]
  BY <1>1, <1>3 DEF Stamp, Insert, Update, Wrote, Kinds, RequestsOK, history
<1>4. ASSUME NEW m \in Ids, StoreVector(m) \/ DeleteVector(m)
      PROVE  /\ UNCHANGED <<request, through>> /\ since' \in [Asks -> SUBSET Kinds]
             /\ \A q \in Asks : since[q] \subseteq since'[q]
  BY <1>1, <1>4 DEF StoreVector, DeleteVector, Kinds
<1>5. ASSUME NEW m \in Ids, Delete(m)
      PROVE  /\ UNCHANGED request /\ since' \in [Asks -> SUBSET Kinds]
             /\ \A q \in Asks : since[q] \subseteq since'[q]
             /\ through' = [q \in Asks |-> through[q] \ {m}]
  BY <1>1, <1>5 DEF Delete, Wrote, Kinds
<1>6. ASSUME NEW s \in Sessions, StartSession(s) \/ SaveObservation(s)
      PROVE  /\ UNCHANGED <<request, through>> /\ since' \in [Asks -> SUBSET Kinds]
             /\ \A q \in Asks : since[q] \subseteq since'[q]
  BY <1>1, <1>6 DEF StartSession, SaveObservation, Wrote, Kinds
<1>7. \A m \in Ids : through' = [q \in Asks |-> through[q] \ {m}] =>
        /\ through' \in [Asks -> SUBSET Ids] /\ \A q \in Asks : through'[q] \subseteq through[q]
  BY DEF RequestsOK
<1>8. through' = through => through' \in [Asks -> SUBSET Ids]
  BY DEF RequestsOK
<1> QED
  BY <1>2, <1>3, <1>4, <1>5, <1>6, <1>7, <1>8 DEF Write

\* The values of a function on a finite set are finite.
LEMMA ImageIsFinite ==
    ASSUME NEW S, IsFiniteSet(S), NEW f, DOMAIN f = S, f = [x \in S |-> f[x]]
    PROVE  IsFiniteSet({f[x] : x \in S})
<1> DEFINE T == {f[x] : x \in S}
<1>1. f \in [S -> T] /\ \A t \in T : \E x \in S : f[x] = t
  OBVIOUS
<1> HIDE DEF T
<1>2. f \in Surjection(S, T)
  BY <1>1 DEF Surjection
<1>3. IsFiniteSet(T)
  BY <1>2, FS_Surjection
<1> QED
  BY <1>3 DEF T

LEMMA RequestsStart == Init => RequestsOK
<1>1. Init => \A q \in Asks : IsFiniteSet(found[q])
  BY FS_EmptySet DEF Init
<1> QED
  BY <1>1 DEF Init, RequestsOK, Places

\* The hits of the keywords are results, and a finite number of them.
LEMMA KeywordHits ==
    ASSUME TablesOK, RequestsOK, NEW q \in Asks, Keyword(q)
    PROVE  /\ found'[q] \in SUBSET Results /\ IsFiniteSet(found'[q])
           /\ weight'[q] \in Nat \ {0}
<1> DEFINE S == {x \in Of(ask[q].category) : Matches(x)}
<1>0. PICK list \in Ranked(S, Updated(S)) :
        LET hits == Page(list, FetchLimit(ask[q]), 0)
            n    == Len(hits)
        IN  /\ found' = [found EXCEPT ![q] =
                 {[id |-> hits[i].id, tokens |-> Tokens(hits[i]),
                   score |-> 2 * Scale * (2 * n - (i - 1)), source |-> "keyword"] : i \in 1 .. n}]
            /\ weight' = [weight EXCEPT ![q] = IF n = 0 THEN 1 ELSE n]
  BY DEF Keyword
<1> DEFINE hits == Page(list, FetchLimit(ask[q]), 0)
           n == Len(hits)
           hit == [i \in 1 .. n |->
                     [id |-> hits[i].id, tokens |-> Tokens(hits[i]),
                      score |-> 2 * Scale * (2 * n - (i - 1)), source |-> "keyword"]]
<1>1. ask[q].op \in Ranks
  BY DEF Keyword, Asking, Ranks
<1>2. found'[q] = {hit[i] : i \in 1 .. n} /\ weight'[q] = IF n = 0 THEN 1 ELSE n
  BY <1>0 DEF RequestsOK
<1>3. S \in SUBSET memories /\ IsFiniteSet(memories) /\ memories \subseteq Rows
  BY DEF TablesOK, Of
<1>4. list \in Ranked(S, Updated(S))
  OBVIOUS
<1> HIDE DEF S
<1>5. IsFiniteSet(S)
  BY <1>3, FS_Subset
<1>6. list \in Seq(S)
  BY <1>4, <1>5, RankedIsOrder
<1>7. FetchLimit(ask[q]) \in Nat
  BY <1>1, AskIsCounted
<1>8. hits \in Seq(S)
  BY <1>6, <1>7, PageIsPart
<1> HIDE DEF hits
<1>9. n \in Nat /\ \A i \in 1 .. n : hits[i] \in S
  BY <1>8
<1> HIDE DEF n
<1>10. \A i \in 1 .. n : hits[i].id \in Ids /\ Tokens(hits[i]) \in Nat
  BY <1>3, <1>9, TokensAssumption DEF Rows, Tokens
<1>11. \A i \in 1 .. n : 2 * Scale * (2 * n - (i - 1)) \in Int
  <2>1. Scale \in Int /\ 2 * Scale \in Int
    BY ScoresAssumption
  <2>2. \A k \in Int : 2 * Scale * k \in Int
    BY <2>1
  <2>3. \A i \in 1 .. n : 2 * n - (i - 1) \in Int
    BY <1>9
  <2> QED
    BY <2>2, <2>3
<1>12. \A i \in 1 .. n : hit[i] \in Results
  BY <1>10, <1>11 DEF Results
<1>13. DOMAIN hit = 1 .. n /\ hit = [i \in 1 .. n |-> hit[i]]
  OBVIOUS
<1> HIDE DEF hit
<1>14. IsFiniteSet(1 .. n)
  BY <1>9, FS_Interval
<1>15. IsFiniteSet({hit[i] : i \in 1 .. n})
  BY <1>13, <1>14, ImageIsFinite
<1> QED
  BY <1>2, <1>9, <1>12, <1>15

\* The nearest vectors change scores and leave some to look up.
LEMMA SimilarHits ==
    ASSUME TablesOK, RequestsOK, NEW q \in Asks, Similar(q)
    PROVE  /\ found'[q] \in SUBSET Results /\ IsFiniteSet(found'[q])
           /\ todo'[q] \in SUBSET Ids
<1>1. ask[q].op \in Ranks /\ FetchLimit(ask[q]) \in Nat
  BY AskIsCounted DEF Similar, RequestsOK
<1>2. PICK order \in Ranked(vectors, Similarity) :
        LET near == Range(Page(order, FetchLimit(ask[q]), 0))
        IN  /\ found' = [found EXCEPT ![q] =
                 {IF x.id \notin near THEN x
                  ELSE [x EXCEPT !.score  = (x.score + 4 * weight[q] * Similarity[x.id]) \div 2,
                                 !.source = "hybrid"] : x \in found[q]}]
            /\ todo' = [todo EXCEPT ![q] = near \ {x.id : x \in found[q]}]
  BY DEF Similar
<1> DEFINE page == Page(order, FetchLimit(ask[q]), 0)
           near == Range(page)
           change == [x \in found[q] |->
             IF x.id \notin near THEN x
             ELSE [x EXCEPT !.score  = (x.score + 4 * weight[q] * Similarity[x.id]) \div 2,
                            !.source = "hybrid"]]
<1>3. /\ found'[q] = {change[x] : x \in found[q]}
      /\ todo'[q] = near \ {x.id : x \in found[q]}
  BY <1>2 DEF RequestsOK
<1>4. near \subseteq Ids
  <2>2. order \in Seq(vectors)
    BY <1>2, RankedIsOrder DEF TablesOK
  <2>3. page \in Seq(vectors)
    BY <1>1, <2>2, PageIsPart
  <2> HIDE DEF page
  <2> QED
    BY <2>3, RangeOfSeq DEF TablesOK
<1> HIDE DEF near
<1>5. found[q] \in SUBSET Results /\ IsFiniteSet(found[q]) /\ weight[q] \in Nat
  BY DEF RequestsOK
<1>6. ASSUME NEW x \in found[q] PROVE change[x] \in Results
  <2> DEFINE score == (x.score + 4 * weight[q] * Similarity[x.id]) \div 2
  <2>1. x.score \in Int /\ Similarity[x.id] \in Int
    BY <1>5, ScoresAssumption DEF Results
  <2>2. 4 * weight[q] * Similarity[x.id] \in Int
    BY <1>5, <2>1
  <2>3. score \in Int
    BY <2>1, <2>2
  <2>4. change[x] = IF x.id \notin near THEN x ELSE [x EXCEPT !.score = score, !.source = "hybrid"]
    OBVIOUS
  <2> HIDE DEF score, change
  <2> QED
    BY <1>5, <2>3, <2>4 DEF Results
<1>7. DOMAIN change = found[q] /\ change = [x \in found[q] |-> change[x]]
  OBVIOUS
<1> HIDE DEF change
<1>8. IsFiniteSet({change[x] : x \in found[q]})
  BY <1>5, <1>7, ImageIsFinite
<1> QED
  BY <1>3, <1>4, <1>6, <1>8

\* A memory that is looked up may become one more result.
LEMMA LookedUpHits ==
    ASSUME TablesOK, RequestsOK, NEW q \in Asks, LookUp(q)
    PROVE  /\ found'[q] \in SUBSET Results /\ IsFiniteSet(found'[q])
           /\ todo'[q] \in SUBSET Ids
<1>1. PICK m \in todo[q] :
        /\ todo' = [todo EXCEPT ![q] = @ \ {m}]
        /\ found' = [found EXCEPT ![q] = IF m \notin There THEN @ ELSE @ \cup
             {[id |-> m, tokens |-> Tokens(Row(m)), score |-> 4 * weight[q] * Similarity[m],
               source |-> "vector"]}]
  BY DEF LookUp, LookedUp
<1> DEFINE score == 4 * weight[q] * Similarity[m]
           hit == [id |-> m, tokens |-> Tokens(Row(m)), score |-> score, source |-> "vector"]
<1>2. m \in Ids /\ found[q] \in SUBSET Results /\ IsFiniteSet(found[q]) /\ weight[q] \in Nat
  BY DEF RequestsOK
<1>3. score \in Int
  <2>1. 4 * weight[q] \in Int /\ Similarity[m] \in Int
    BY <1>2, ScoresAssumption
  <2> QED
    BY <2>1
<1>4. found'[q] = IF m \notin There THEN found[q] ELSE found[q] \cup {hit}
  BY <1>1 DEF RequestsOK
<1>5. todo'[q] \in SUBSET Ids
  BY <1>1 DEF RequestsOK
<1> HIDE DEF score
<1>6. CASE m \in There
  <2>1. Row(m) \in Rows
    BY <1>6, RowIsThere DEF TablesOK
  <2>2. Tokens(Row(m)) \in Nat
    BY <2>1, TokensAssumption DEF Tokens, Rows
  <2>3. hit \in Results
    BY <1>2, <1>3, <2>2 DEF Results
  <2> HIDE DEF hit
  <2>4. IsFiniteSet(found[q] \cup {hit})
    BY <1>2, FS_AddElement
  <2> QED
    BY <1>2, <1>4, <1>5, <1>6, <2>3, <2>4
<1>7. CASE m \notin There
  BY <1>2, <1>4, <1>5, <1>7
<1> QED
  BY <1>6, <1>7

\* A page of memories is a sequence of them, and the part of an order of the table.
LEMMA ListedPage ==
    ASSUME TablesOK, NEW category, NEW limit \in Nat, NEW from \in Nat,
           NEW page \in ListPages(category, limit, from)
    PROVE  /\ IsFiniteSet(Of(category)) /\ Of(category) \subseteq memories
           /\ Created(Of(category)) \in [Of(category) -> Int]
           /\ page \in Seq(memories)
           /\ \E list \in Ranked(Of(category), Created(Of(category))) :
                list \in Seq(Of(category)) /\ page = Page(list, limit, from)
<1>1. Of(category) \subseteq memories /\ IsFiniteSet(Of(category))
  BY FS_Subset DEF Of, TablesOK
<1>2. PICK list \in Ranked(Of(category), Created(Of(category))) : page = Page(list, limit, from)
  BY DEF ListPages, Listed
<1>3. list \in Seq(Of(category))
  BY <1>1, RankedIsOrder
<1>4. page \in Seq(Of(category))
  BY <1>2, <1>3, PageIsPart
<1>5. page \in Seq(memories)
  BY <1>1, <1>4, SeqMonotonic
<1>6. Created(Of(category)) \in [Of(category) -> Int]
  BY <1>1 DEF TablesOK, Rows, Created
<1> QED
  BY <1>1, <1>2, <1>3, <1>5, <1>6

\* A request's step keeps its own values in their sets.
LEMMA RequestsRead ==
    ASSUME TablesOK, RequestsOK, NEW r \in Asks, Read(r)
    PROVE  RequestsOK'
<1> DEFINE Same == UNCHANGED <<offset, seen, found, weight, todo>>
<1>1. CASE Ask(r)
  <2>1. PICK a \in AskMenu : /\ ask' = [ask EXCEPT ![r] = a]
                             /\ step' = [step EXCEPT ![r] = "read"]
                             /\ through' = [through EXCEPT ![r] =
                                  IF a.op = "list" THEN {x.id : x \in Of(a.category)}
                                  ELSE {}]
    BY <1>1 DEF Ask, Goto
  <2>2. {x.id : x \in Of(a.category)} \in SUBSET Ids
    BY DEF TablesOK, Rows, Of
  <2>3. through' \in [Asks -> SUBSET Ids]
    BY <2>1, <2>2 DEF RequestsOK
  <2>4. Same /\ UNCHANGED <<reply, since>>
    BY <1>1 DEF Ask
  <2> QED
    BY <2>1, <2>3, <2>4 DEF RequestsOK, Places
<1>2. CASE RejectAsk(r)
  BY <1>2 DEF RejectAsk, RequestsOK, Places, Goto, history
<1>3. CASE Search(r)
  <2> DEFINE page == SearchPage(Limit(ask[r]), Offset(r), ask[r].types)
  <2>1. /\ seen' = [seen EXCEPT ![r] = @ \o page.results] /\ ask[r].op = "search"
        /\ offset' = [offset EXCEPT ![r] = offset[r] + ask[r].limit]
        /\ \E there \in {"read", "done"} : step' = [step EXCEPT ![r] = there]
        /\ UNCHANGED <<ask, found, weight, todo, reply, since, through>>
    BY <1>3 DEF Search, Asking, Goto, history
  <2>2. /\ ask[r].limit \in Nat /\ Limit(ask[r]) \in Nat /\ Offset(r) \in Nat
        /\ offset[r] \in Nat /\ seen[r] \in Seq(Files \cup Ids)
    BY <2>1, AskIsCounted DEF RequestsOK, Counted
  <2>3. page.results \in Seq(Files)
    BY <2>2, SearchIsTyped, RankingsAssumption DEF TablesOK, Files
  <2> HIDE DEF page
  <2>4. seen[r] \o page.results \in Seq(Files \cup Ids)
    BY <2>2, <2>3, SeqMonotonic, ConcatProperties
  <2> QED
    BY <2>1, <2>2, <2>4, SMTT(60) DEF RequestsOK, Places
<1>4. CASE SearchSymbols(r) \/ SearchPanics(r) \/ GetMemory(r)
  <2>1. /\ UNCHANGED <<ask, offset, seen, found, weight, todo, since, through>>
        /\ DOMAIN reply' = DOMAIN reply
        /\ step' = [step EXCEPT ![r] = "done"] \/ step' = [step EXCEPT ![r] = "lost"]
    BY <1>4 DEF SearchSymbols, SearchPanics, GetMemory, Goto, Answer, history
  <2> QED
    BY <2>1 DEF RequestsOK, Places
<1>5. CASE ListMemories(r)
  <2>1. PICK page \in ListPages(ask[r].category, Limit(ask[r]), Offset(r)) :
          /\ seen' = [seen EXCEPT ![r] = @ \o [i \in DOMAIN page |-> page[i].id]]
          /\ offset' = [offset EXCEPT ![r] = @ + ask[r].limit] /\ ask[r].op = "list"
          /\ \E there \in {"read", "done"} : step' = [step EXCEPT ![r] = there]
          /\ UNCHANGED <<ask, found, weight, todo, reply, since, through>>
    BY <1>5 DEF ListMemories, Asking, Goto, history
  <2>2. /\ ask[r].limit \in Nat /\ Limit(ask[r]) \in Nat /\ Offset(r) \in Nat
        /\ offset[r] \in Nat /\ seen[r] \in Seq(Files \cup Ids)
    BY <2>1, AskIsCounted DEF RequestsOK, Counted
  <2>3. page \in Seq(memories)
    BY <2>2, ListedPage
  <2>4. [i \in DOMAIN page |-> page[i].id] \in Seq(Files \cup Ids)
    BY <2>3 DEF TablesOK, Rows
  <2>5. seen[r] \o [i \in DOMAIN page |-> page[i].id] \in Seq(Files \cup Ids)
    BY <2>2, <2>4, ConcatProperties
  <2>6. offset' \in [Asks -> Nat] /\ seen' \in [Asks -> Seq(Files \cup Ids)]
    BY <2>1, <2>2, <2>5 DEF RequestsOK
  <2> QED
    BY <2>1, <2>6 DEF RequestsOK, Places
<1>6. CASE Keyword(r)
  <2>1. /\ step' = [step EXCEPT ![r] = IF ask[r].vector THEN "similar" ELSE "rank"]
        /\ ask[r].op \in Ranks /\ UNCHANGED <<ask, offset, seen, todo, reply, since, through>>
        /\ found' = [found EXCEPT ![r] = found'[r]] /\ weight' = [weight EXCEPT ![r] = weight'[r]]
    <3>1. \E n, m : found' = [found EXCEPT ![r] = n] /\ weight' = [weight EXCEPT ![r] = m]
      BY <1>6 DEF Keyword
    <3> QED
      BY <1>6, <3>1 DEF Keyword, Asking, Goto, Ranks, RequestsOK, history
  <2>2. found'[r] \in SUBSET Results /\ IsFiniteSet(found'[r]) /\ weight'[r] \in Nat \ {0}
    BY <1>6, KeywordHits
  <2> QED
    BY <2>1, <2>2 DEF RequestsOK, Places
<1>7. CASE Similar(r)
  <2>1. /\ step' = [step EXCEPT ![r] = IF todo'[r] = {} THEN "rank" ELSE "lookup"]
        /\ ask[r].op \in Ranks /\ UNCHANGED <<ask, offset, seen, weight, reply, since, through>>
        /\ found' = [found EXCEPT ![r] = found'[r]] /\ todo' = [todo EXCEPT ![r] = todo'[r]]
    BY <1>7 DEF Similar, Goto, RequestsOK, history
  <2>2. found'[r] \in SUBSET Results /\ IsFiniteSet(found'[r]) /\ todo'[r] \in SUBSET Ids
    BY <1>7, SimilarHits
  <2> QED
    BY <2>1, <2>2 DEF RequestsOK, Places
<1>8. CASE LookUp(r)
  <2>0. PICK m \in todo[r] :
          /\ step' = [step EXCEPT ![r] = IF todo[r] = {m} THEN "rank" ELSE "lookup"]
          /\ todo' = [todo EXCEPT ![r] = @ \ {m}]
          /\ \E S : found' = [found EXCEPT ![r] = S]
    BY <1>8 DEF LookUp, LookedUp, Goto
  <2>1. /\ step' = [step EXCEPT ![r] = IF todo[r] = {m} THEN "rank" ELSE "lookup"]
        /\ ask[r].op \in Ranks /\ UNCHANGED <<ask, offset, seen, weight, reply, since, through>>
        /\ found' = [found EXCEPT ![r] = found'[r]] /\ todo' = [todo EXCEPT ![r] = todo'[r]]
    BY <1>8, <2>0 DEF LookUp, RequestsOK, history
  <2>2. found'[r] \in SUBSET Results /\ IsFiniteSet(found'[r]) /\ todo'[r] \in SUBSET Ids
    BY <1>8, LookedUpHits
  <2> QED
    BY <2>1, <2>2 DEF RequestsOK, Places
<1>9. CASE LookUpFails(r)
  <2>1. /\ \E there \in {"rank", "lookup"} : step' = [step EXCEPT ![r] = there]
        /\ \E m \in todo[r] : todo' = [todo EXCEPT ![r] = @ \ {m}]
        /\ ask[r].op \in Ranks
        /\ UNCHANGED <<ask, offset, seen, found, weight, reply, since, through>>
    BY <1>9 DEF LookUpFails, LookedUp, Goto, RequestsOK, history
  <2> QED
    BY <2>1 DEF RequestsOK, Places
<1>10. CASE Rank(r)
  BY <1>10 DEF Rank, RequestsOK, Places, Goto, Answer, history
<1>11. CASE CountMemories(r) \/ RecentMemories(r) \/ SessionStats(r) \/ RecentObservations(r)
  <2>1. /\ \E there \in {"recent", "stats", "observations", "done"} :
             step' = [step EXCEPT ![r] = there]
        /\ \E parts : reply' = [reply EXCEPT ![r] = parts]
        /\ ask[r].op = "summary"
    <3>1. CASE CountMemories(r)
      BY <3>1 DEF CountMemories, Asking, Goto
    <3>2. CASE RecentMemories(r)
      BY <3>2 DEF RecentMemories, Goto, RequestsOK
    <3>3. CASE SessionStats(r)
      BY <3>3 DEF SessionStats, Goto, RequestsOK
    <3>4. CASE RecentObservations(r)
      BY <3>4 DEF RecentObservations, Answer, Goto, RequestsOK
    <3> QED
      BY <1>11, <3>1, <3>2, <3>3, <3>4
  <2>2. UNCHANGED <<ask, offset, seen, found, weight, todo, since, through>>
    BY <1>11 DEF CountMemories, RecentMemories, SessionStats, RecentObservations, history
  <2>3. DOMAIN reply' = Asks
    BY <2>1 DEF RequestsOK
  <2> QED
    BY <2>1, <2>2, <2>3 DEF RequestsOK, Places
<1>12. CASE StatementFails(r)
  BY <1>12 DEF StatementFails, RequestsOK, Places, Goto, history
<1> QED
  BY <1>1, <1>2, <1>3, <1>4, <1>5, <1>6, <1>7, <1>8, <1>9, <1>10, <1>11, <1>12 DEF Read

LEMMA RequestsStep ==
    ASSUME TablesOK, RequestsOK, [Next]_vars
    PROVE  RequestsOK'
<1>1. CASE Write
  <2>1. /\ UNCHANGED request /\ since' \in [Asks -> SUBSET Kinds]
        /\ through' \in [Asks -> SUBSET Ids]
    BY <1>1, WriteFrame
  <2> QED
    BY <2>1 DEF request, RequestsOK
<1>2. ASSUME NEW q \in Asks, Read(q) PROVE RequestsOK'
  BY <1>2, RequestsRead
<1>3. CASE UNCHANGED vars
  BY <1>3 DEF vars, request, history, RequestsOK
<1> QED
  BY <1>1, <1>2, <1>3 DEF Next

-----------------------------------------------------------------------------
(* What the history of a request tells of the tables *)

\* A request under way has a note of every write that could change its answer.
LEMMA WritesAreNoted ==
    ASSUME TablesOK, RequestsOK, Write, NEW q \in Asks, step[q] # "idle"
    PROVE  /\ "publish" \notin since'[q] => ranking' = ranking
           /\ "start" \notin since'[q] => sessions' = sessions
           /\ "insert" \notin since'[q] => Cardinality(memories') <= Cardinality(memories)
           /\ "delete" \notin since'[q] => Cardinality(memories') >= Cardinality(memories)
<1>1. \A kind : Noted(kind) => kind \in since'[q]
  BY DEF Noted
<1>2. IsFiniteSet(memories) /\ Cardinality(memories) \in Nat
  BY FS_CardinalityType DEF TablesOK
<1>3. CASE Publish
  BY <1>1, <1>2, <1>3 DEF Publish, Wrote
<1>4. ASSUME NEW m \in Ids, Stamp(m) \/ StoreVector(m) \/ DeleteVector(m)
      PROVE  UNCHANGED <<ranking, memories, sessions>>
  BY <1>4 DEF Stamp, StoreVector, DeleteVector
<1>5. ASSUME NEW m \in Ids, Insert(m)
      PROVE  /\ UNCHANGED <<ranking, sessions>> /\ "insert" \in since'[q]
             /\ Cardinality(memories') >= Cardinality(memories)
  <2>1. PICK new : memories' = memories \cup {new}
    BY <1>5 DEF Insert
  <2>2. Cardinality(memories') = IF new \in memories THEN Cardinality(memories)
                                 ELSE Cardinality(memories) + 1
    BY <1>2, <2>1, FS_AddElement
  <2> QED
    BY <1>1, <1>2, <1>5, <2>2 DEF Insert, Wrote
<1>6. ASSUME NEW m \in Ids, Update(m)
      PROVE  UNCHANGED <<ranking, sessions>> /\ Cardinality(memories') = Cardinality(memories)
  <2> DEFINE new == [id |-> m, created |-> Row(m).created, updated |-> clock', version |-> 2]
             rest == memories \ {Row(m)}
  <2>1. memories' = rest \cup {new} /\ Row(m) \in memories /\ Row(m).id = m
    BY <1>6, RowIsThere DEF Update
  <2>2. new.id = m
    OBVIOUS
  <2> HIDE DEF new
  <2>3. new \notin rest
    BY <2>1, <2>2 DEF TablesOK
  <2>4. IsFiniteSet(rest) /\ Cardinality(rest) = Cardinality(memories) - 1
    BY <1>2, <2>1, FS_RemoveElement
  <2> HIDE DEF rest
  <2>5. Cardinality(rest \cup {new}) = Cardinality(rest) + 1
    BY <2>3, <2>4, FS_AddElement
  <2>6. Cardinality(memories') = Cardinality(memories)
    BY <1>2, <2>1, <2>4, <2>5
  <2>7. UNCHANGED <<ranking, sessions>>
    BY <1>6 DEF Update
  <2> QED
    BY <2>6, <2>7
<1>7. ASSUME NEW m \in Ids, Delete(m)
      PROVE  /\ UNCHANGED <<ranking, sessions>> /\ "delete" \in since'[q]
             /\ Cardinality(memories') <= Cardinality(memories)
  <2>1. memories' = memories \ {Row(m)}
    BY <1>7 DEF Delete
  <2>2. Cardinality(memories') = IF Row(m) \in memories THEN Cardinality(memories) - 1
                                 ELSE Cardinality(memories)
    BY <1>2, <2>1, FS_RemoveElement
  <2> QED
    BY <1>1, <1>2, <1>7, <2>2 DEF Delete, Wrote
<1>8. ASSUME NEW s \in Sessions, StartSession(s) \/ SaveObservation(s)
      PROVE  /\ UNCHANGED <<ranking, memories>>
             /\ "start" \notin since'[q] => sessions' = sessions
  BY <1>1, <1>8 DEF StartSession, SaveObservation, Wrote
<1> QED
  BY <1>2, <1>3, <1>4, <1>5, <1>6, <1>7, <1>8 DEF Write

-----------------------------------------------------------------------------
(* The summary *)

\* What a request for the summary has so far agrees with what it read, or a
\* write that explains the difference was noted.
SummaryKept(q) ==
    /\ step[q] \in {"recent", "stats", "observations", "done"} => reply[q].total \in Nat
    /\ step[q] = "recent" =>
         /\ "insert" \notin since[q] => Cardinality(memories) <= reply[q].total
         /\ "delete" \notin since[q] => Cardinality(memories) >= reply[q].total
    /\ step[q] \in {"stats", "observations", "done"} =>
         LET shown == Len(reply[q].recent)
             most  == Smaller(RecentLimit, reply[q].total)
         IN  /\ "insert" \notin since[q] => shown <= most
             /\ "delete" \notin since[q] => shown >= most
    /\ step[q] = "observations" /\ "start" \notin since[q] =>
         reply[q].sessions = Cardinality(sessions)
    /\ step[q] = "done" /\ "start" \notin since[q] =>
         Cardinality(Range(reply[q].observations)) <= reply[q].sessions

SummaryInv == \A q \in Asks : ask[q].op = "summary" => SummaryKept(q)

\* The recent memories are as many as there are, up to the limit.
LEMMA RecentCount ==
    ASSUME TablesOK
    PROVE  /\ Cardinality(memories) \in Nat
           /\ \A page \in Recent(RecentLimit) :
                Len(page) = Smaller(RecentLimit, Cardinality(memories))
<1>1. Of(All) = memories
  BY DEF Of, InCategory
<1>2. RecentLimit \in Nat /\ Cardinality(memories) \in Nat
  BY LimitsAssumption, FS_CardinalityType DEF TablesOK
<1>3. ASSUME NEW page \in Recent(RecentLimit)
      PROVE  Len(page) = Smaller(RecentLimit, Cardinality(memories))
  <2>1. PICK list \in Ranked(memories, Created(memories)) : page = Page(list, RecentLimit, 0)
    BY <1>1 DEF Recent, ListPages, Listed
  <2>2. list \in Seq(memories) /\ Len(list) = Cardinality(memories)
    BY RankedIsOrder DEF TablesOK
  <2>3. Len(page) = IF 0 >= Len(list) THEN 0 ELSE Smaller(0 + RecentLimit, Len(list)) - 0
    BY <1>2, <2>1, <2>2, PageIsPart
  <2> QED
    BY <1>2, <2>2, <2>3 DEF Smaller
<1> QED
  BY <1>2, <1>3

\* The sessions of the observations shown are sessions of the table.
LEMMA ObservationsShown ==
    ASSUME TablesOK
    PROVE  Cardinality(Range(Page(LatestFirst(observations), ObservationLimit, 0)))
             <= Cardinality(sessions)
<1> DEFINE list == LatestFirst(observations)
           page == Page(list, ObservationLimit, 0)
<1>1. observations \in Seq(sessions) /\ Len(observations) \in Nat /\ ObservationLimit \in Nat
  BY LimitsAssumption DEF TablesOK
<1>2. \A i \in 1 .. Len(observations) : Len(observations) + 1 - i \in 1 .. Len(observations)
  BY <1>1
<1>3. list \in Seq(sessions)
  BY <1>1, <1>2 DEF LatestFirst
<1> HIDE DEF list
<1>4. page \in Seq(sessions)
  BY <1>1, <1>3, PageIsPart
<1> HIDE DEF page
<1>5. Range(page) \in SUBSET sessions /\ IsFiniteSet(sessions)
  BY <1>4, RangeOfSeq DEF TablesOK
<1>6. Cardinality(Range(page)) <= Cardinality(sessions)
  BY <1>5, FS_Subset
<1> QED
  BY <1>6 DEF page, list

\* A write that changes what was read is noted.
LEMMA SummaryWrite ==
    ASSUME TablesOK, RequestsOK, SummaryInv, Write
    PROVE  SummaryInv'
<1> SUFFICES ASSUME NEW q \in Asks, ask'[q].op = "summary" PROVE SummaryKept(q)'
  BY DEF SummaryInv
<1>1. UNCHANGED request /\ since[q] \subseteq since'[q]
  BY WriteFrame
<1>2. SummaryKept(q)
  BY <1>1 DEF SummaryInv, request
<1>3. CASE step[q] = "idle"
  BY <1>1, <1>3 DEF SummaryKept, request
<1>4. CASE step[q] # "idle"
  <2>1. /\ "start" \notin since'[q] => sessions' = sessions
        /\ "insert" \notin since'[q] => Cardinality(memories') <= Cardinality(memories)
        /\ "delete" \notin since'[q] => Cardinality(memories') >= Cardinality(memories)
    BY <1>4, WritesAreNoted
  <2>2. Cardinality(memories) \in Nat /\ Cardinality(memories') \in Nat
    <3>1. IsFiniteSet(memories')
      BY TablesStep DEF Next, TablesOK
    <3> QED
      BY <3>1, FS_CardinalityType DEF TablesOK
  <2>3. UNCHANGED <<step, reply>>
    BY <1>1 DEF request
  <2> QED
    BY <1>1, <1>2, <2>1, <2>2, <2>3 DEF SummaryKept
<1> QED
  BY <1>3, <1>4

\* Each query of the summary reads one part of it.
LEMMA SummaryRead ==
    ASSUME TablesOK, RequestsOK, SummaryInv, NEW r \in Asks, Read(r)
    PROVE  SummaryInv'
<1> SUFFICES ASSUME NEW q \in Asks, ask'[q].op = "summary" PROVE SummaryKept(q)'
  BY DEF SummaryInv
<1>1. UNCHANGED tables /\ UNCHANGED since
  BY ReadFrame
<1>2. CASE q # r
  <2>1. ask'[q] = ask[q] /\ step'[q] = step[q] /\ reply'[q] = reply[q]
    BY <1>2, ReadFrame
  <2>2. SummaryKept(q)
    BY <2>1 DEF SummaryInv
  <2> QED
    BY <1>1, <2>1, <2>2 DEF SummaryKept, tables
<1>3. CASE q = r /\ ~ Ask(r)
  <2>1. ask' = ask /\ SummaryKept(r) /\ ask[r].op = "summary"
    BY <1>3 DEF Read, RejectAsk, Search, SearchSymbols, SearchPanics, ListMemories, GetMemory,
       Keyword, Similar, LookUp, LookUpFails, Rank, CountMemories, RecentMemories,
       SessionStats, RecentObservations, StatementFails, SummaryInv
  <2>2. CASE CountMemories(r)
    <3>1. /\ reply'[r].total = Cardinality(memories) /\ step'[r] = "recent"
      BY <2>2 DEF CountMemories, Goto, RequestsOK
    <3>2. Cardinality(memories) \in Nat
      BY RecentCount
    <3> QED
      BY <1>1, <1>3, <3>1, <3>2 DEF SummaryKept, tables
  <2>3. CASE RecentMemories(r)
    <3>1. /\ reply'[r].total = reply[r].total /\ reply'[r].recent \in Recent(RecentLimit)
          /\ step[r] = "recent" /\ step'[r] = "stats"
      BY <2>3 DEF RecentMemories, Goto, RequestsOK
    <3>2. /\ Cardinality(memories) \in Nat /\ RecentLimit \in Nat
          /\ Len(reply'[r].recent) = Smaller(RecentLimit, Cardinality(memories))
      BY <3>1, RecentCount, LimitsAssumption
    <3> QED
      BY <1>1, <1>3, <2>1, <3>1, <3>2 DEF SummaryKept, Smaller
  <2>4. CASE SessionStats(r)
    <3>1. /\ reply'[r].total = reply[r].total /\ reply'[r].recent = reply[r].recent
          /\ reply'[r].sessions = Cardinality(sessions)
          /\ step[r] = "stats" /\ step'[r] = "observations"
      BY <2>4 DEF SessionStats, Goto, RequestsOK
    <3> QED
      BY <1>1, <1>3, <2>1, <3>1 DEF SummaryKept, tables
  <2>5. CASE RecentObservations(r)
    <3>1. /\ reply'[r].total = reply[r].total /\ reply'[r].recent = reply[r].recent
          /\ reply'[r].sessions = reply[r].sessions
          /\ reply'[r].observations = Page(LatestFirst(observations), ObservationLimit, 0)
          /\ step[r] = "observations" /\ step'[r] = "done"
      BY <2>5 DEF RecentObservations, Answer, Goto, RequestsOK
    <3> QED
      BY <1>1, <1>3, <2>1, <3>1, ObservationsShown DEF SummaryKept
  <2>6. CASE RejectAsk(r) \/ SearchPanics(r) \/ StatementFails(r)
    <3>1. step'[r] \in {"err", "lost"}
      BY <2>6 DEF RejectAsk, SearchPanics, StatementFails, Goto, RequestsOK
    <3> QED
      BY <1>3, <3>1 DEF SummaryKept
  <2>7. ~ (Search(r) \/ SearchSymbols(r) \/ ListMemories(r) \/ GetMemory(r) \/ Keyword(r)
           \/ Similar(r) \/ LookUp(r) \/ LookUpFails(r) \/ Rank(r))
    BY <2>1 DEF Search, SearchSymbols, ListMemories, GetMemory, Keyword, Similar, LookUp,
       LookUpFails, Rank, Asking, RequestsOK, Ranks
  <2> QED
    BY <1>3, <2>2, <2>3, <2>4, <2>5, <2>6, <2>7 DEF Read
<1>4. CASE q = r /\ Ask(r)
  <2>1. step'[r] = "read"
    BY <1>4 DEF Ask, Goto, RequestsOK
  <2> QED
    BY <1>4, <2>1 DEF SummaryKept
<1> QED
  BY <1>2, <1>3, <1>4

\* The parts of a summary agree, or a save, a delete or a new session that came
\* between their critical sections explains why not.
THEOREM SummariesAgree == Spec => []SummaryAgrees
<1>1. Init => TablesOK /\ RequestsOK /\ SummaryInv
  BY TablesStart, RequestsStart DEF Init, SummaryInv, SummaryKept
<1>2. TablesOK /\ RequestsOK /\ SummaryInv /\ [Next]_vars
        => (TablesOK /\ RequestsOK /\ SummaryInv)'
  <2> SUFFICES ASSUME TablesOK, RequestsOK, SummaryInv, [Next]_vars
               PROVE  (TablesOK /\ RequestsOK /\ SummaryInv)'
    OBVIOUS
  <2>1. UNCHANGED vars => SummaryInv'
    BY DEF vars, tables, request, history, SummaryInv, SummaryKept
  <2> QED
    BY <2>1, TablesStep, RequestsStep, SummaryWrite, SummaryRead DEF Next
<1>3. SummaryInv => SummaryAgrees
  BY DEF SummaryInv, SummaryKept, SummaryAgrees, Done
<1> QED
  BY <1>1, <1>2, <1>3, PTL DEF Spec

-----------------------------------------------------------------------------
(* Pages of search results *)

\* The wanted hits of the first page of the default size.
FirstHits(q) == Range(Wanted(Page(ranking, Defaults["search"], 0), ask[q].types))

\* Unless the index was published, a client has read the wanted hits among those
\* before its offset, and all of them when it stops; over the wire it has read
\* those of the first page.
SearchKept(q) ==
    "publish" \notin since[q] =>
      IF ask[q].wire
      THEN /\ step[q] = "read" => Range(seen[q]) \subseteq FirstHits(q)
           /\ step[q] = "done" => Range(seen[q]) = FirstHits(q)
      ELSE /\ step[q] = "read" =>
                /\ offset[q] <= Len(ranking) /\ (ask[q].limit = 0 => offset[q] = 0)
                /\ seen[q] = Wanted(SubSeq(ranking, 1, offset[q]), ask[q].types)
           /\ step[q] = "done" => seen[q] = Wanted(ranking, ask[q].types)

SearchInv == \A q \in Asks : ask[q].op = "search" => SearchKept(q)

\* The ranking is a sequence of files.
LEMMA RankingIsTyped == TablesOK => ranking \in Seq(Files)
  BY RankingsAssumption DEF TablesOK, Files

\* Before the first page, nothing was read.
LEMMA NothingWanted ==
    ASSUME NEW s \in Seq(Files), NEW types
    PROVE  Wanted(SubSeq(s, 1, 0), types) = <<>>
<1> DEFINE none == SubSeq(s, 1, 0)
<1>1. none \in Seq(Files) /\ Len(none) = 0
  BY SubSeqProperties
<1> HIDE DEF none
<1>2. PICK f : Filters(f, none, types) /\ Wanted(none, types) = f[0]
  BY <1>1, WantedIsFiltered
<1> QED
  BY <1>2 DEF Filters, none

\* The next page is what comes after those before the offset.
LEMMA NextPageAddsUp ==
    ASSUME ranking \in Seq(Files), NEW limit \in Nat, NEW from \in Nat, NEW types,
           from <= Len(ranking)
    PROVE  \E to \in 0 .. Len(ranking) :
             /\ SearchPage(limit, from, types).total = to
             /\ to = from + limit \/ (to = Len(ranking) /\ to < from + limit)
             /\ Wanted(SubSeq(ranking, 1, from), types) \o SearchPage(limit, from, types).results
                  = Wanted(SubSeq(ranking, 1, to), types)
<1> DEFINE to   == Smaller(from + limit, Len(ranking))
           page == SearchPage(limit, from, types)
<1>1. /\ to \in from .. Len(ranking)
      /\ page = [results |-> Wanted(SubSeq(ranking, from + 1, to), types), total |-> to]
  BY SearchPageIs
<1>2. page.results = Wanted(SubSeq(ranking, from + 1, to), types) /\ page.total = to
  BY <1>1
<1>3. to \in 0 .. Len(ranking) /\ from \in 0 .. to
  BY <1>1
<1>4. to = from + limit \/ (to = Len(ranking) /\ to < from + limit)
  BY DEF Smaller
<1> HIDE DEF to, page
<1>5. Wanted(SubSeq(ranking, 1, from), types) \o page.results = Wanted(SubSeq(ranking, 1, to), types)
  BY <1>2, <1>3, WantedAddsUp
<1> QED
  BY <1>2, <1>3, <1>4, <1>5 DEF page

\* Over the wire every page is the first.
LEMMA FirstPageAgain ==
    ASSUME TablesOK, NEW q \in Asks, ask[q].op = "search", ask[q].wire = TRUE
    PROVE  Range(SearchPage(Limit(ask[q]), Offset(q), ask[q].types).results) = FirstHits(q)
<1> DEFINE top == Page(ranking, Defaults["search"], 0)
<1>1. Limit(ask[q]) = Defaults["search"] /\ Offset(q) = 0 /\ Defaults["search"] \in Nat
  BY DefaultsAssumption DEF Limit, Given, Offset
<1>2. top \in Seq(Files)
  BY <1>1, RankingIsTyped, PageIsPart
<1>3. Page(ranking, 0 + Defaults["search"], 0) = top
  BY <1>1
<1> HIDE DEF top
<1>4. SubSeq(top, 0 + 1, Len(top)) = top
  BY <1>2, SubSeqFull
<1>5. SearchPage(Defaults["search"], 0, ask[q].types).results = Wanted(top, ask[q].types)
  BY <1>3, <1>4 DEF SearchPage
<1> QED
  BY <1>1, <1>5 DEF FirstHits, top

LEMMA SearchWrite ==
    ASSUME TablesOK, RequestsOK, SearchInv, Write
    PROVE  SearchInv'
<1> SUFFICES ASSUME NEW q \in Asks, ask'[q].op = "search" PROVE SearchKept(q)'
  BY DEF SearchInv
<1>1. UNCHANGED request /\ since[q] \subseteq since'[q]
  BY WriteFrame
<1>2. UNCHANGED <<ask, step, offset, seen>> /\ SearchKept(q)
  BY <1>1 DEF SearchInv, request
<1>3. CASE step[q] = "idle"
  BY <1>2, <1>3 DEF SearchKept
<1>4. CASE step[q] # "idle"
  <2>1. "publish" \notin since'[q] => ranking' = ranking
    BY <1>4, WritesAreNoted
  <2> QED
    BY <1>1, <1>2, <2>1 DEF SearchKept, FirstHits
<1> QED
  BY <1>3, <1>4

LEMMA SearchRead ==
    ASSUME TablesOK, RequestsOK, SearchInv, NEW r \in Asks, Read(r)
    PROVE  SearchInv'
<1> SUFFICES ASSUME NEW q \in Asks, ask'[q].op = "search" PROVE SearchKept(q)'
  BY DEF SearchInv
<1>1. UNCHANGED ranking /\ UNCHANGED since
  BY ReadFrame DEF tables
<1>2. CASE q # r
  <2>1. ask'[q] = ask[q] /\ step'[q] = step[q] /\ offset'[q] = offset[q] /\ seen'[q] = seen[q]
    BY <1>2, ReadFrame
  <2>2. SearchKept(q)
    BY <2>1 DEF SearchInv
  <2> QED
    BY <1>1, <2>1, <2>2 DEF SearchKept, FirstHits
<1>3. CASE q = r /\ ~ Ask(r)
  <2>1. ask' = ask /\ SearchKept(r) /\ ask[r].op = "search"
    BY <1>3 DEF Read, RejectAsk, Search, SearchSymbols, SearchPanics, ListMemories, GetMemory,
       Keyword, Similar, LookUp, LookUpFails, Rank, CountMemories, RecentMemories,
       SessionStats, RecentObservations, StatementFails, SearchInv
  <2>2. CASE Search(r) /\ ask[r].wire = FALSE
    <3> DEFINE page == SearchPage(ask[r].limit, offset[r], ask[r].types)
               next == offset[r] + ask[r].limit
    <3>0. Limit(ask[r]) = ask[r].limit /\ Offset(r) = offset[r]
      BY <2>2 DEF Limit, Given, Offset
    <3>1. /\ seen'[r] = seen[r] \o page.results /\ offset'[r] = next
          /\ step'[r] = IF page.total >= next /\ ask[r].limit > 0 THEN "read" ELSE "done"
          /\ step[r] = "read" /\ next > 0
      BY <2>2, <3>0 DEF Search, Asking, Goto, RequestsOK
    <3>2. ranking \in Seq(Files) /\ ask[r].limit \in Nat /\ offset[r] \in Nat
      BY <2>1, RankingIsTyped, AskIsCounted DEF RequestsOK, Counted
    <3>3. ASSUME "publish" \notin since[r]
          PROVE  /\ ask[r].limit > 0
                 /\ page.total >= next => /\ next <= Len(ranking)
                                          /\ seen'[r] = Wanted(SubSeq(ranking, 1, next), ask[r].types)
                 /\ ~ (page.total >= next) => seen'[r] = Wanted(ranking, ask[r].types)
      <4>1. /\ offset[r] <= Len(ranking) /\ ask[r].limit > 0
            /\ seen[r] = Wanted(SubSeq(ranking, 1, offset[r]), ask[r].types)
        BY <2>1, <2>2, <3>1, <3>2, <3>3 DEF SearchKept
      <4>2. PICK to \in 0 .. Len(ranking) :
              /\ page.total = to
              /\ to = next \/ (to = Len(ranking) /\ to < next)
              /\ Wanted(SubSeq(ranking, 1, offset[r]), ask[r].types) \o page.results
                   = Wanted(SubSeq(ranking, 1, to), ask[r].types)
        <5> DEFINE limit == ask[r].limit
                   from  == offset[r]
                   types == ask[r].types
        <5>1. ranking \in Seq(Files) /\ limit \in Nat /\ from \in Nat /\ from <= Len(ranking)
          BY <3>2, <4>1
        <5> HIDE DEF limit, from, types
        <5>2. \E to \in 0 .. Len(ranking) :
                /\ SearchPage(limit, from, types).total = to
                /\ to = from + limit \/ (to = Len(ranking) /\ to < from + limit)
                /\ Wanted(SubSeq(ranking, 1, from), types)
                     \o SearchPage(limit, from, types).results
                     = Wanted(SubSeq(ranking, 1, to), types)
          BY <5>1, NextPageAddsUp
        <5> QED
          BY <5>2 DEF limit, from, types
      <4>3. SubSeq(ranking, 1, Len(ranking)) = ranking
        BY <3>2, SubSeqFull
      <4>4. seen'[r] = Wanted(SubSeq(ranking, 1, to), ask[r].types)
        <5>1. seen'[r] = seen[r] \o page.results
          BY <3>1
        <5> HIDE DEF page
        <5> QED
          BY <4>1, <4>2, <5>1
      <4>5. /\ page.total = to /\ to <= Len(ranking) /\ to \in Nat
            /\ to = next \/ (to = Len(ranking) /\ to < next)
        BY <3>2, <4>2
      <4> HIDE DEF page, next
      <4>6. to = next => /\ next <= Len(ranking)
                         /\ seen'[r] = Wanted(SubSeq(ranking, 1, next), ask[r].types)
        BY <4>4, <4>5
      <4>7. to # next => seen'[r] = Wanted(ranking, ask[r].types)
        BY <4>3, <4>4, <4>5
      <4>8. next \in Nat
        BY <3>2 DEF next
      <4> QED
        BY <4>1, <4>5, <4>6, <4>7, <4>8
    <3> HIDE DEF page, next
    <3>4. SUFFICES ASSUME "publish" \notin since[r]
                   PROVE  /\ step'[r] = "read" =>
                               /\ offset'[r] <= Len(ranking)
                               /\ ask[r].limit = 0 => offset'[r] = 0
                               /\ seen'[r] = Wanted(SubSeq(ranking, 1, offset'[r]), ask[r].types)
                          /\ step'[r] = "done" => seen'[r] = Wanted(ranking, ask[r].types)
      BY <1>1, <1>3, <2>1, <2>2 DEF SearchKept
    <3>5. ask[r].limit > 0 /\ ask[r].limit \in Nat
      BY <3>2, <3>3, <3>4
    <3>6. CASE page.total >= next
      <4>1. step'[r] = "read" /\ offset'[r] = next
        BY <3>1, <3>5, <3>6
      <4>2. next <= Len(ranking) /\ seen'[r] = Wanted(SubSeq(ranking, 1, next), ask[r].types)
        BY <3>3, <3>4, <3>6
      <4> QED
        BY <3>5, <4>1, <4>2
    <3>7. CASE ~ (page.total >= next)
      <4>1. step'[r] = "done"
        BY <3>1, <3>7
      <4>2. seen'[r] = Wanted(ranking, ask[r].types)
        BY <3>3, <3>4, <3>7
      <4> QED
        BY <4>1, <4>2
    <3> QED
      BY <3>6, <3>7
  <2>5. CASE Search(r) /\ ask[r].wire = TRUE
    <3> DEFINE part == SearchPage(Limit(ask[r]), Offset(r), ask[r].types).results
    <3>1. /\ seen'[r] = seen[r] \o part /\ step[r] = "read"
      BY <2>5 DEF Search, Asking, RequestsOK
    <3>2. part \in Seq(Files \cup Ids) /\ seen[r] \in Seq(Files \cup Ids)
      <4>1. ranking \in Seq(Files) /\ Limit(ask[r]) \in Nat /\ Offset(r) \in Nat
        BY <2>1, RankingIsTyped, AskIsCounted DEF Counted
      <4>2. part \in Seq(Files)
        BY <4>1, SearchIsTyped
      <4> HIDE DEF part
      <4> QED
        BY <4>2, SeqMonotonic DEF RequestsOK
    <3>3. Range(part) = FirstHits(r)
      BY <2>1, <2>5, FirstPageAgain
    <3> HIDE DEF part
    <3>4. Range(seen'[r]) = Range(seen[r]) \cup FirstHits(r)
      BY <3>1, <3>2, <3>3, RangeConcatenation
    <3>5. FirstHits(r)' = FirstHits(r)
      BY <1>1, <2>1 DEF FirstHits
    <3> QED
      BY <1>1, <1>3, <2>1, <2>5, <3>1, <3>4, <3>5 DEF SearchKept
  <2>6. ask[r].wire \in BOOLEAN
    BY <2>1, AskIsCounted DEF Counted
  <2>3. CASE RejectAsk(r) \/ SearchPanics(r) \/ StatementFails(r)
    <3>1. step'[r] \in {"err", "lost"}
      BY <2>3 DEF RejectAsk, SearchPanics, StatementFails, Goto, RequestsOK
    <3> QED
      BY <1>3, <3>1 DEF SearchKept
  <2>4. ~ (SearchSymbols(r) \/ ListMemories(r) \/ GetMemory(r) \/ Keyword(r)
           \/ Similar(r) \/ LookUp(r) \/ LookUpFails(r) \/ Rank(r) \/ CountMemories(r)
           \/ RecentMemories(r) \/ SessionStats(r) \/ RecentObservations(r))
    BY <2>1 DEF SearchSymbols, ListMemories, GetMemory, Keyword, Similar, LookUp, LookUpFails,
       Rank, CountMemories, RecentMemories, SessionStats, RecentObservations, Asking,
       RequestsOK, Ranks
  <2> QED
    BY <1>3, <2>2, <2>3, <2>4, <2>5, <2>6 DEF Read
<1>4. CASE q = r /\ Ask(r)
  <2>1. step'[r] = "read" /\ offset'[r] = 0 /\ seen'[r] = <<>>
    BY <1>4 DEF Ask, Goto, RequestsOK
  <2>2. ranking \in Seq(Files)
    BY RankingIsTyped
  <2>3. Wanted(SubSeq(ranking, 1, 0), ask'[r].types) = <<>> /\ 0 <= Len(ranking)
    BY <2>2, NothingWanted
  <2>4. Range(seen'[r]) = {}
    BY <2>1 DEF Range
  <2> QED
    BY <1>1, <1>4, <2>1, <2>3, <2>4 DEF SearchKept
<1> QED
  BY <1>2, <1>3, <1>4

\* The pages of a search add up to the ranking that is published, without the
\* hits of other types, unless it is published anew while the client reads; over
\* the wire they add up to the first of them.
THEOREM PagesAddUp == Spec => []PagedSearchIsComplete
<1>1. Init => TablesOK /\ RequestsOK /\ SearchInv
  BY TablesStart, RequestsStart DEF Init, SearchInv, SearchKept, NoAsk
<1>2. TablesOK /\ RequestsOK /\ SearchInv /\ [Next]_vars
        => (TablesOK /\ RequestsOK /\ SearchInv)'
  <2> SUFFICES ASSUME TablesOK, RequestsOK, SearchInv, [Next]_vars
               PROVE  (TablesOK /\ RequestsOK /\ SearchInv)'
    OBVIOUS
  <2>1. UNCHANGED vars => SearchInv'
    BY DEF vars, tables, request, history, SearchInv, SearchKept, FirstHits
  <2> QED
    BY <2>1, TablesStep, RequestsStep, SearchWrite, SearchRead DEF Next
<1>3. SearchInv => PagedSearchIsComplete
  BY DEF SearchInv, SearchKept, FirstHits, PagedSearchIsComplete, Done
<1> QED
  BY <1>1, <1>2, <1>3, PTL DEF Spec

-----------------------------------------------------------------------------
(* The context *)

\* f[i] is the tokens of the first i results.
Sums(f, s) ==
    /\ f[0] = 0
    /\ \A i \in 0 .. Len(s) : f[i] \in Nat
    /\ \A i \in 0 .. Len(s) - 1 : f[i + 1] = f[i] + s[i + 1].tokens

\* There is such a function.
LEMMA SumsExist ==
    ASSUME NEW S, \A x \in S : x.tokens \in Nat, NEW s \in Seq(S)
    PROVE  \E f : Sums(f, s)
<1> DEFINE n == Len(s)
           first == 0
           Steps == [i \in 1 .. n |-> [t \in Nat |-> t + s[i].tokens]]
<1>1. n \in Nat /\ first \in Nat /\ \A i \in 1 .. n : s[i].tokens \in Nat
  OBVIOUS
<1>2. Steps \in [1 .. n -> [Nat -> Nat]]
  BY <1>1
<1>3. PICK f \in [0 .. n -> Nat] : Follows(f, n, first, Steps)
  <2> HIDE DEF Steps, n, first
  <2> QED
    BY <1>1, <1>2, StepByStep
<1>4. ASSUME NEW i \in 0 .. n - 1 PROVE f[i + 1] = f[i] + s[i + 1].tokens
  <2>1. i + 1 \in 1 .. n /\ i \in 0 .. n
    BY <1>1
  <2>2. f[i] \in Nat /\ f[i + 1] = Steps[i + 1][f[i]]
    BY <1>3, <2>1 DEF Follows
  <2> HIDE DEF n
  <2> QED
    BY <2>1, <2>2
<1> QED
  BY <1>1, <1>3, <1>4 DEF Sums, Follows

\* The recursion of SumOfTokens has that value, for every part from the first.
LEMMA SumOfPrefix ==
    ASSUME NEW S, NEW s \in Seq(S), NEW f, Sums(f, s), NEW k \in 0 .. Len(s)
    PROVE  SumOfTokens(SubSeq(s, 1, k)) = f[k]
<1> DEFINE part == SubSeq(s, 1, k)
           n == Len(part)
           Body(g) == [i \in 0 .. n |-> IF i = 0 THEN 0 ELSE g[i - 1] + part[i].tokens]
           u == CHOOSE g : g = Body(g)
           h == [i \in 0 .. n |-> f[i]]
<1>1. /\ k \in Nat /\ n = k /\ k <= Len(s)
      /\ \A i \in 1 .. k : part[i] = s[i]
  BY SubSeqProperties
<1>2. SumOfTokens(part) = u[n]
  BY DEF SumOfTokens
<1> HIDE DEF part, n
<1>3. ASSUME NEW g, NEW i \in 0 .. k - 1
      PROVE  Body(g)[i + 1] = g[i] + s[i + 1].tokens /\ i \in 0 .. k /\ i + 1 \in 0 .. k
  <2>1. i + 1 \in 0 .. n /\ i + 1 # 0 /\ (i + 1) - 1 = i /\ i \in 0 .. k /\ i + 1 \in 1 .. k
    BY <1>1
  <2> QED
    BY <1>1, <2>1
<1>4. \A g : Body(g)[0] = 0 /\ Body(g) = [i \in 0 .. k |-> Body(g)[i]]
  BY <1>1
<1>5. ASSUME NEW i \in 0 .. k - 1 PROVE f[i + 1] = f[i] + s[i + 1].tokens
  BY <1>1 DEF Sums
<1>6. h = [i \in 0 .. k |-> h[i]] /\ \A i \in 0 .. k : h[i] = f[i]
  BY <1>1
<1> HIDE DEF Body, h
<1>7. h = Body(h)
  <2>1. ASSUME NEW i \in 0 .. k PROVE h[i] = Body(h)[i]
    <3>1. CASE i = 0
      BY <1>1, <1>4, <1>6, <3>1 DEF Sums
    <3>2. CASE i # 0
      <4> DEFINE j == i - 1
      <4>1. j \in 0 .. k - 1 /\ j + 1 = i
        BY <1>1, <3>2
      <4> HIDE DEF j
      <4>2. /\ Body(h)[j + 1] = h[j] + s[j + 1].tokens /\ j \in 0 .. k /\ j + 1 \in 0 .. k
            /\ f[j + 1] = f[j] + s[j + 1].tokens
        BY <1>3, <1>5, <4>1
      <4>3. h[j] = f[j] /\ h[j + 1] = f[j + 1]
        BY <1>6, <4>2
      <4>4. h[j + 1] = Body(h)[j + 1]
        BY <4>2, <4>3
      <4> QED
        BY <4>1, <4>4
    <3> QED
      BY <3>1, <3>2
  <2> QED
    BY <1>4, <1>6, <2>1
<1>8. u = Body(u)
  BY <1>7
<1> HIDE DEF u
<1>9. u[k] = f[k]
  <2> DEFINE T == {i \in Nat : i <= k => u[i] = f[i]}
  <2>1. 0 \in T
    BY <1>4, <1>8 DEF Sums
  <2>2. ASSUME NEW i \in Nat, i \in T PROVE i + 1 \in T
    <3> SUFFICES ASSUME i + 1 <= k PROVE u[i + 1] = f[i + 1]
      OBVIOUS
    <3>1. i \in 0 .. k - 1 /\ u[i] = f[i]
      BY <1>1, <2>2
    <3>2. u[i + 1] = u[i] + s[i + 1].tokens
      BY <1>3, <1>8, <3>1
    <3> QED
      BY <1>5, <3>1, <3>2
  <2> HIDE DEF T
  <2>3. k \in T
    BY <2>1, <2>2, AllNumbers
  <2> QED
    BY <2>3 DEF T
<1> QED
  BY <1>1, <1>2, <1>9 DEF part

\* More results have no fewer tokens.
LEMMA SumsGrow ==
    ASSUME NEW S, NEW s \in Seq(S), \A x \in S : x.tokens \in Nat, NEW f, Sums(f, s),
           NEW k \in 0 .. Len(s), NEW m \in 0 .. k
    PROVE  f[m] <= f[k]
<1>1. Len(s) \in Nat
  OBVIOUS
<1> DEFINE T == {i \in Nat : i <= Len(s) /\ m <= i => f[m] <= f[i]}
<1>2. 0 \in T
  BY <1>1 DEF Sums
<1>3. ASSUME NEW i \in Nat, i \in T PROVE i + 1 \in T
  <2> SUFFICES ASSUME i + 1 <= Len(s), m <= i + 1 PROVE f[m] <= f[i + 1]
    OBVIOUS
  <2>1. CASE m = i + 1
    BY <1>1, <2>1 DEF Sums
  <2>2. CASE m # i + 1
    <3>1. f[m] <= f[i] /\ i \in 0 .. Len(s) - 1 /\ i + 1 \in 1 .. Len(s) /\ m \in 0 .. Len(s)
      BY <1>1, <1>3, <2>2
    <3>2. f[i + 1] = f[i] + s[i + 1].tokens /\ s[i + 1].tokens \in Nat
      BY <3>1 DEF Sums
    <3>3. f[m] \in Nat /\ f[i] \in Nat
      BY <1>1, <3>1 DEF Sums
    <3> QED
      BY <3>1, <3>2, <3>3
  <2> QED
    BY <2>1, <2>2
<1> HIDE DEF T
<1>4. k \in T
  BY <1>2, <1>3, AllNumbers
<1> QED
  BY <1>1, <1>4 DEF T

\* Where the first result that does not fit comes, or where all fit, their end.
StopsAt(k, order, f, budget) ==
    /\ k \in 0 .. Len(order)
    /\ Len(order) > 0 => k > 0
    /\ k < Len(order) => f[k + 1] > budget
    /\ \A j \in 1 .. k - 1 : f[j + 1] <= budget

LEMMA StopExists ==
    ASSUME NEW S, NEW order \in Seq(S), NEW f, Sums(f, order), NEW budget \in Nat
    PROVE  \E k : StopsAt(k, order, f, budget)
<1> DEFINE n == Len(order)
           T == {j \in 0 .. n : j = n \/ (j > 0 /\ f[j + 1] > budget)}
<1>1. n \in Nat
  OBVIOUS
<1>2. T \in SUBSET Nat /\ T # {}
  BY <1>1
<1>3. PICK k \in T : \A j \in T : k <= j
  <2> HIDE DEF T
  <2> QED
    BY <1>2, LeastNumber
<1>4. ASSUME NEW j \in 1 .. k - 1 PROVE f[j + 1] <= budget
  <2>1. j \in 0 .. n /\ j > 0 /\ j < k /\ j < n /\ j + 1 \in 0 .. n
    BY <1>1
  <2>2. j \notin T
    BY <1>1, <1>3, <2>1
  <2>3. f[j + 1] \in Nat
    BY <2>1 DEF Sums
  <2> QED
    BY <2>1, <2>2, <2>3
<1>5. StopsAt(k, order, f, budget)
  BY <1>1, <1>3, <1>4 DEF StopsAt
<1> QED
  BY <1>5

\* What is kept is the results up to there.
LEMMA KeptIsPrefix ==
    ASSUME NEW S, NEW order \in Seq(S), \A x \in S : x.tokens \in Nat, NEW f, Sums(f, order),
           NEW budget \in Nat, NEW k, StopsAt(k, order, f, budget)
    PROVE  Kept(order, budget) = [items |-> SubSeq(order, 1, k), tokens |-> f[k]]
<1> DEFINE n == Len(order)
           Step(b, x) == IF b.full THEN b
                         ELSE IF b.tokens + x.tokens > budget /\ b.items # <<>>
                         THEN [items |-> b.items, tokens |-> b.tokens, full |-> TRUE]
                         ELSE [items  |-> Append(b.items, x),
                               tokens |-> b.tokens + x.tokens, full |-> FALSE]
           Body(g) == [i \in 0 .. n |->
                        IF i = 0 THEN [items |-> <<>>, tokens |-> 0, full |-> FALSE]
                        ELSE Step(g[i - 1], order[i])]
           u == CHOOSE g : g = Body(g)
           P == [i \in 0 .. n |-> SubSeq(order, 1, i)]
           State(i) == IF i <= k THEN [items |-> P[i], tokens |-> f[i], full |-> FALSE]
                       ELSE [items |-> P[k], tokens |-> f[k], full |-> TRUE]
           h == [i \in 0 .. n |-> State(i)]
<1>1. n \in Nat /\ k \in 0 .. n /\ k \in Nat
  BY DEF StopsAt
<1>2. Kept(order, budget) = [items |-> u[n].items, tokens |-> u[n].tokens]
  BY DEF Kept
<1>P. /\ P[0] = <<>> /\ P[k] = SubSeq(order, 1, k)
      /\ \A i \in 0 .. n : P[i] = <<>> => i = 0
      /\ \A i \in 0 .. n - 1 : P[i + 1] = Append(P[i], order[i + 1])
  <2>1. \A i \in 0 .. n : P[i] = SubSeq(order, 1, i)
    OBVIOUS
  <2>2. \A i \in 0 .. n : P[i] \in Seq(S) /\ Len(P[i]) = i
    BY <1>1, SubSeqProperties
  <2>3. 0 \in 0 .. n /\ k \in 0 .. n
    BY <1>1
  <2> HIDE DEF P
  <2>4. P[0] = <<>>
    <3>1. P[0] = SubSeq(order, 1, 0)
      BY <2>1, <2>3
    <3> QED
      BY <3>1, SubSeqEmpty
  <2>5. \A i \in 0 .. n : P[i] = <<>> => i = 0
    BY <2>2, EmptySeq
  <2>6. ASSUME NEW i \in 0 .. n - 1 PROVE P[i + 1] = Append(P[i], order[i + 1])
    <3> DEFINE j == i + 1
    <3>1. i \in 0 .. n /\ j \in 0 .. n /\ j \in 1 .. n /\ j - 1 = i /\ 1 \in 1 .. n
      BY <1>1
    <3> HIDE DEF j
    <3>2. SubSeq(order, 1, j) = SubSeq(order, 1, j - 1) \o <<order[j]>>
      BY <3>1, SubSeqRecursiveSecond
    <3>3. Append(P[i], order[j]) = P[i] \o <<order[j]>>
      BY <2>2, <3>1, AppendIsConcat
    <3>4. P[j] = Append(P[i], order[j])
      BY <2>1, <3>1, <3>2, <3>3
    <3> QED
      BY <3>4 DEF j
  <2> QED
    BY <2>1, <2>3, <2>4, <2>5, <2>6
<1> HIDE DEF P
<1>3. ASSUME NEW i \in 0 .. n - 1 PROVE State(i + 1) = Step(State(i), order[i + 1])
  <2> DEFINE x == order[i + 1]
             s == P[i]
             t == f[i]
  <2>1. /\ i \in 0 .. n /\ i + 1 \in 1 .. n /\ i + 1 \in 0 .. n /\ x.tokens \in Nat
        /\ t \in Nat /\ f[i + 1] = t + x.tokens /\ P[i + 1] = Append(s, x)
        /\ s = <<>> <=> i = 0
    BY <1>1, <1>P DEF Sums
  <2>2. i < k => ~ (t + x.tokens > budget /\ s # <<>>)
    <3> SUFFICES ASSUME i < k, i # 0 PROVE ~ (t + x.tokens > budget)
      BY <2>1
    <3>1. i \in 1 .. k - 1
      BY <1>1, <2>1
    <3>2. f[i + 1] <= budget
      BY <3>1 DEF StopsAt
    <3> QED
      BY <2>1, <3>2
  <2>3. i = k => t + x.tokens > budget /\ s # <<>>
    BY <1>1, <2>1 DEF StopsAt
  <2>4. /\ i < k \/ i = k \/ i > k
        /\ i < k => i <= k /\ i + 1 <= k
        /\ i = k => i <= k /\ ~ (i + 1 <= k)
        /\ i > k => ~ (i <= k) /\ ~ (i + 1 <= k)
    BY <1>1, <2>1
  <2> HIDE DEF x, s, t
  <2>5. CASE i < k
    <3>1. State(i) = [items |-> s, tokens |-> t, full |-> FALSE]
      BY <2>4, <2>5 DEF s, t
    <3>2. State(i + 1) = [items |-> Append(s, x), tokens |-> t + x.tokens, full |-> FALSE]
      BY <2>1, <2>4, <2>5
    <3> HIDE DEF State
    <3>3. Step(State(i), x) = [items |-> Append(s, x), tokens |-> t + x.tokens, full |-> FALSE]
      BY <2>2, <2>5, <3>1
    <3> QED
      BY <3>2, <3>3 DEF x
  <2>6. CASE i = k
    <3>1. State(i) = [items |-> s, tokens |-> t, full |-> FALSE]
      BY <2>4, <2>6 DEF s, t
    <3>2. State(i + 1) = [items |-> s, tokens |-> t, full |-> TRUE]
      BY <2>4, <2>6 DEF s, t
    <3> HIDE DEF State
    <3>3. Step(State(i), x) = [items |-> s, tokens |-> t, full |-> TRUE]
      BY <2>3, <2>6, <3>1
    <3> QED
      BY <3>2, <3>3 DEF x
  <2>7. CASE i > k
    BY <2>4, <2>7
  <2> QED
    BY <2>4, <2>5, <2>6, <2>7
<1> HIDE DEF Step
<1>4. ASSUME NEW g, NEW i \in 0 .. n - 1
      PROVE  Body(g)[i + 1] = Step(g[i], order[i + 1]) /\ i \in 0 .. n /\ i + 1 \in 0 .. n
  <2>1. i + 1 \in 0 .. n /\ i + 1 # 0 /\ (i + 1) - 1 = i /\ i \in 0 .. n
    BY <1>1
  <2> HIDE DEF n
  <2> QED
    BY <2>1
<1> DEFINE first == [items |-> <<>>, tokens |-> 0, full |-> FALSE]
<1>5. \A g : Body(g)[0] = first /\ Body(g) = [i \in 0 .. n |-> Body(g)[i]]
  BY <1>1
<1>6. State(0) = first
  <2>1. P[0] = <<>> /\ f[0] = 0 /\ 0 <= k
    BY <1>1, <1>P DEF Sums
  <2> QED
    BY <2>1
<1>7. h = [i \in 0 .. n |-> h[i]] /\ \A i \in 0 .. n : h[i] = State(i)
  OBVIOUS
<1>8. State(n).items = SubSeq(order, 1, k) /\ State(n).tokens = f[k]
  BY <1>1, <1>P
<1> HIDE DEF n, State, h, Body, first
<1>9. h = Body(h)
  <2>1. ASSUME NEW i \in 0 .. n PROVE h[i] = Body(h)[i]
    <3>1. CASE i = 0
      BY <1>1, <1>5, <1>6, <1>7, <3>1
    <3>2. CASE i # 0
      <4> DEFINE j == i - 1
      <4>1. j \in 0 .. n - 1 /\ j + 1 = i
        BY <1>1, <3>2
      <4> HIDE DEF j
      <4>2. h[j + 1] = Body(h)[j + 1]
        BY <1>3, <1>4, <1>7, <4>1
      <4> QED
        BY <4>1, <4>2
    <3> QED
      BY <3>1, <3>2
  <2> QED
    BY <1>5, <1>7, <2>1
<1>10. u = Body(u)
  BY <1>9
<1> HIDE DEF u
<1>11. u[n] = State(n)
  <2> DEFINE T == {i \in Nat : i <= n => u[i] = State(i)}
  <2>1. 0 \in T
    BY <1>5, <1>6, <1>10
  <2>2. ASSUME NEW i \in Nat, i \in T PROVE i + 1 \in T
    <3> SUFFICES ASSUME i + 1 <= n PROVE u[i + 1] = State(i + 1)
      OBVIOUS
    <3>1. i \in 0 .. n - 1 /\ u[i] = State(i)
      BY <1>1, <2>2
    <3> QED
      BY <1>3, <1>4, <1>10, <3>1
  <2> HIDE DEF T
  <2>3. n \in T
    BY <1>1, <2>1, <2>2, AllNumbers
  <2> QED
    BY <2>3 DEF T
<1> QED
  BY <1>2, <1>8, <1>11

\* What ContextIsGreedy says of one reply.
GreedyFor(a, S, items) ==
    LET left  == S \ Range(items)
        best  == {x \in left : \A y \in left : x.score >= y.score}
        total == SumOfTokens(items)
        full  == a.op = "memory" /\ Len(items) = Limit(a)
    IN  /\ Range(items) \subseteq S /\ IsInjective(items)
        /\ \A i, j \in DOMAIN items : i < j => items[i].score >= items[j].score
        /\ \A x \in left, y \in Range(items) : x.score <= y.score
        /\ total <= Budget(a) \/ Len(items) = 1
        /\ left # {} => \/ full
                        \/ items # <<>> /\ \E x \in best : total + x.tokens > Budget(a)

\* The first elements of a sequence.
LEMMA PrefixIsPart ==
    ASSUME NEW S, NEW s \in Seq(S), NEW m \in 0 .. Len(s)
    PROVE  /\ SubSeq(s, 1, m) \in Seq(S) /\ Len(SubSeq(s, 1, m)) = m
           /\ DOMAIN SubSeq(s, 1, m) = 1 .. m
           /\ \A i \in 1 .. m : SubSeq(s, 1, m)[i] = s[i]
<1>1. Len(s) \in Nat /\ m \in Nat /\ \A i \in 1 .. m : i \in 1 .. Len(s) /\ s[i] \in S
  OBVIOUS
<1>2. SubSeq(s, 1, m) \in Seq(S) /\ Len(SubSeq(s, 1, m)) = m
  BY <1>1
<1>3. \A i \in 1 .. m : SubSeq(s, 1, m)[i] = s[i]
  BY <1>1
<1> QED
  BY <1>2, <1>3

\* The first m results of an order, cut where the budget or the limit cuts it,
\* are a best part of what was found.
LEMMA PrefixIsGreedy ==
    ASSUME NEW S, IsFiniteSet(S), \A x \in S : x.tokens \in Nat /\ x.score \in Int,
           NEW order \in Ranked(S, Score(S)), NEW a, Budget(a) \in Nat,
           NEW f, Sums(f, order), NEW k, StopsAt(k, order, f, Budget(a)),
           NEW m \in 0 .. k, m = k \/ (a.op = "memory" /\ m = Limit(a))
    PROVE  GreedyFor(a, S, SubSeq(order, 1, m))
<1> DEFINE items == SubSeq(order, 1, m)
           n == Len(order)
           left == S \ Range(items)
           total == SumOfTokens(items)
           budget == Budget(a)
<1>1. /\ order \in Seq(S)
      /\ \A i, j \in 1 .. n : order[i] = order[j] => i = j
      /\ \A i, j \in 1 .. n : i < j => order[i].score >= order[j].score
      /\ \A x \in S : \E i \in 1 .. n : order[i] = x
  <2> DEFINE value == Score(S)
  <2>1. order \in Ranked(S, value) /\ \A x \in S : value[x] = x.score
    BY DEF Score
  <2> HIDE DEF value
  <2>2. /\ order \in Seq(S)
        /\ \A i, j \in 1 .. n : order[i] = order[j] => i = j
        /\ \A i, j \in 1 .. n : i < j => value[order[i]] >= value[order[j]]
        /\ \A x \in S : \E i \in 1 .. n : order[i] = x
    BY <2>1, RankedIsOrder
  <2>3. \A i \in 1 .. n : value[order[i]] = order[i].score
    BY <2>1, <2>2
  <2> QED
    BY <2>2, <2>3
<1>2. n \in Nat /\ \A i \in 1 .. n : order[i] \in S
  BY <1>1
<1>3. /\ k \in 0 .. n /\ k \in Nat /\ m \in 0 .. n /\ m \in Nat /\ m <= k /\ k <= n
      /\ n > 0 => k > 0
      /\ k < n => f[k + 1] > budget
      /\ \A j \in 1 .. k - 1 : f[j + 1] <= budget
  BY <1>2 DEF StopsAt
<1>4. /\ f[0] = 0 /\ \A i \in 0 .. n : f[i] \in Nat
      /\ \A i \in 0 .. n - 1 : f[i + 1] = f[i] + order[i + 1].tokens
  BY DEF Sums
<1>5. budget \in Nat
  OBVIOUS
<1>6. total = f[m]
  BY <1>1, <1>3, SumOfPrefix
<1> HIDE DEF n, budget, total
<1>7. /\ items \in Seq(S) /\ Len(items) = m /\ DOMAIN items = 1 .. m
      /\ \A i \in 1 .. m : items[i] = order[i]
  <2>1. m \in 0 .. Len(order)
    BY <1>3 DEF n
  <2>2. order \in Seq(S)
    BY <1>1
  <2> QED
    BY <2>1, <2>2, PrefixIsPart
<1> HIDE DEF items
<1>8. \A i \in 1 .. m : i \in 1 .. n
  BY <1>2, <1>3
<1>9. Range(items) = {order[i] : i \in 1 .. m}
  BY <1>7 DEF Range
<1>10. ASSUME NEW x \in left PROVE \E i \in m + 1 .. n : order[i] = x
  <2>1. PICK i \in 1 .. n : order[i] = x
    BY <1>1
  <2>2. i \notin 1 .. m
    BY <1>9, <2>1
  <2>3. i \in m + 1 .. n
    BY <1>2, <1>3, <2>2
  <2> QED
    BY <2>1, <2>3
<1>11. Range(items) \subseteq S
  BY <1>2, <1>8, <1>9
<1>12. IsInjective(items)
  BY <1>1, <1>7, <1>8 DEF IsInjective
<1>13. \A i, j \in DOMAIN items : i < j => items[i].score >= items[j].score
  BY <1>1, <1>7, <1>8
<1>14. ASSUME NEW x \in left, NEW y \in Range(items) PROVE x.score <= y.score
  <2>1. PICK i \in m + 1 .. n : order[i] = x
    BY <1>10
  <2>2. PICK j \in 1 .. m : order[j] = y
    BY <1>9
  <2>3. i \in 1 .. n /\ j \in 1 .. n /\ j < i
    BY <1>2, <1>3
  <2>4. order[j].score >= order[i].score
    BY <1>1, <2>3
  <2>5. order[j].score \in Int /\ order[i].score \in Int
    BY <1>2, <2>3
  <2> QED
    BY <2>1, <2>2, <2>4, <2>5
<1>15. total <= budget \/ Len(items) = 1
  <2>1. CASE m = 0
    BY <1>4, <1>5, <1>6, <2>1
  <2>2. CASE m = 1
    BY <1>7, <2>2
  <2>3. CASE m > 1
    <3> DEFINE j == m - 1
    <3>1. j \in 1 .. k - 1 /\ j + 1 = m
      BY <1>3, <2>3
    <3> HIDE DEF j
    <3>2. f[j + 1] <= budget
      BY <1>3, <3>1
    <3> QED
      BY <1>6, <3>1, <3>2
  <2> QED
    BY <1>3, <2>1, <2>2, <2>3
<1>16. ASSUME left # {}, ~ (a.op = "memory" /\ Len(items) = Limit(a))
       PROVE  /\ items # <<>>
              /\ \E x \in left : (\A y \in left : x.score >= y.score) /\ total + x.tokens > budget
  <2>1. m = k
    BY <1>7, <1>16
  <2>2. k < n
    <3>1. PICK i \in m + 1 .. n : TRUE
      BY <1>10, <1>16
    <3> QED
      BY <1>2, <1>3, <2>1, <3>1
  <2>3. k > 0 /\ f[k + 1] > budget
    BY <1>2, <1>3, <2>2
  <2> DEFINE next == order[k + 1]
  <2>4. k + 1 \in 1 .. n /\ k \in 0 .. n - 1 /\ k \in 0 .. n /\ k + 1 \in 0 .. n
    BY <1>2, <1>3, <2>2
  <2>5. next \in left
    <3>1. next \in S
      BY <1>2, <2>4
    <3>2. ASSUME NEW i \in 1 .. m PROVE order[i] # next
      <4>1. i \in 1 .. n
        BY <1>8
      <4>2. i # k + 1
        BY <1>3, <2>1
      <4> QED
        BY <1>1, <2>4, <4>1, <4>2
    <3> QED
      BY <1>9, <3>1, <3>2
  <2>6. ASSUME NEW y \in left PROVE next.score >= y.score
    <3>1. PICK i \in m + 1 .. n : order[i] = y
      BY <1>10
    <3>2. i \in 1 .. n /\ (i = k + 1 \/ k + 1 < i)
      BY <1>2, <1>3, <2>1
    <3>3. next.score \in Int
      BY <1>2, <2>4
    <3>4. i = k + 1 => order[i] = next
      OBVIOUS
    <3>5. k + 1 < i => next.score >= order[i].score
      BY <1>1, <2>4, <3>2
    <3> HIDE DEF next
    <3> QED
      BY <3>1, <3>2, <3>3, <3>4, <3>5
  <2>7. f[k + 1] = f[k] + next.tokens
    BY <1>4, <2>4
  <2>8. total + next.tokens > budget
    BY <1>6, <2>1, <2>3, <2>7
  <2>9. items # <<>>
    BY <1>3, <1>7, <2>1, <2>3
  <2> HIDE DEF next, left
  <2> QED
    BY <2>5, <2>6, <2>8, <2>9
<1> HIDE DEF left
<1>17. left # {} => \/ a.op = "memory" /\ Len(items) = Limit(a)
                    \/ /\ items # <<>>
                       /\ \E x \in {x \in left : \A y \in left : x.score >= y.score} :
                            total + x.tokens > budget
  BY <1>16
<1> QED
  BY <1>11, <1>12, <1>13, <1>14, <1>15, <1>17 DEF GreedyFor, items, left, total, budget

\* The answer of get_context and search_memory is such a part.
LEMMA RankIsGreedy ==
    ASSUME RequestsOK, NEW q \in Asks, Rank(q)
    PROVE  GreedyFor(ask[q], found[q], reply'[q].items)
<1>1. PICK order \in Ranked(found[q], Score(found[q])) :
        reply' = [reply EXCEPT ![q] =
          IF ask[q].op = "context" THEN Kept(order, Budget(ask[q]))
          ELSE [items |-> Page(Kept(order, Budget(ask[q])).items, Limit(ask[q]), 0)]]
  BY DEF Rank, Answer
<1> DEFINE S == found[q]
           a == ask[q]
<1>2. /\ IsFiniteSet(S) /\ \A x \in S : x.tokens \in Nat /\ x.score \in Int
      /\ a.op \in Ranks
  BY DEF RequestsOK, Results, Rank
<1>3. Budget(a) \in Nat /\ (a.op = "memory" => Limit(a) \in Nat)
  BY <1>2, AskIsCounted DEF Counted
<1>4. reply'[q] = IF a.op = "context" THEN Kept(order, Budget(a))
                  ELSE [items |-> Page(Kept(order, Budget(a)).items, Limit(a), 0)]
  BY <1>1 DEF RequestsOK
<1> HIDE DEF S, a
<1>5. order \in Ranked(S, Score(S))
  BY <1>1 DEF S
<1>6. order \in Seq(S)
  BY <1>2, <1>5, RankedIsOrder
<1>7. PICK f : Sums(f, order)
  BY <1>2, <1>6, SumsExist
<1>8. PICK k : StopsAt(k, order, f, Budget(a))
  BY <1>3, <1>6, <1>7, StopExists
<1>9. Kept(order, Budget(a)) = [items |-> SubSeq(order, 1, k), tokens |-> f[k]]
  BY <1>2, <1>3, <1>6, <1>7, <1>8, KeptIsPrefix
<1>10. k \in 0 .. Len(order) /\ k \in Nat
  BY <1>6, <1>8 DEF StopsAt
<1>11. CASE a.op = "context"
  <2>1. reply'[q].items = SubSeq(order, 1, k) /\ k \in 0 .. k
    BY <1>4, <1>9, <1>10, <1>11
  <2>2. GreedyFor(a, S, SubSeq(order, 1, k))
    BY <1>2, <1>3, <1>5, <1>7, <1>8, <2>1, PrefixIsGreedy
  <2> QED
    BY <2>1, <2>2 DEF a, S
<1>12. CASE a.op = "memory"
  <2> DEFINE part == SubSeq(order, 1, k)
             m == Smaller(Limit(a), k)
  <2>1. a.op # "context" /\ Limit(a) \in Nat
    BY <1>3, <1>12
  <2>2. part \in Seq(S) /\ Len(part) = k /\ \A i \in 1 .. k : part[i] = order[i]
    BY <1>6, <1>10, SubSeqProperties
  <2>3. m \in 0 .. k /\ (m = k \/ m = Limit(a)) /\ m \in 0 .. Len(order)
    BY <1>6, <1>10, <2>1 DEF Smaller
  <2>4. reply'[q].items = SubSeq(part, 1, m)
    <3>1. reply'[q].items = Page(part, Limit(a), 0)
      BY <1>4, <1>9, <2>1
    <3>2. Page(part, Limit(a), 0) = SubSeq(part, 1, m)
      <4> HIDE DEF part
      <4> QED
        BY <1>10, <2>1, <2>2 DEF Page, Smaller
    <3> QED
      BY <3>1, <3>2
  <2> HIDE DEF part, m
  <2>5. SubSeq(part, 1, m) = SubSeq(order, 1, m)
    <3>1. /\ SubSeq(part, 1, m) \in Seq(S) /\ Len(SubSeq(part, 1, m)) = m
          /\ \A i \in 1 .. m : SubSeq(part, 1, m)[i] = part[i]
      BY <2>2, <2>3, <1>10, SubSeqProperties
    <3>2. /\ SubSeq(order, 1, m) \in Seq(S) /\ Len(SubSeq(order, 1, m)) = m
          /\ \A i \in 1 .. m : SubSeq(order, 1, m)[i] = order[i]
      BY <1>6, <2>3, SubSeqProperties
    <3>3. \A i \in 1 .. m : part[i] = order[i]
      BY <1>10, <2>2, <2>3
    <3> QED
      BY <3>1, <3>2, <3>3, SeqEqual
  <2>6. GreedyFor(a, S, SubSeq(order, 1, m))
    BY <1>2, <1>3, <1>5, <1>7, <1>8, <1>12, <2>3, PrefixIsGreedy
  <2> QED
    BY <2>4, <2>5, <2>6 DEF a, S
<1> QED
  BY <1>2, <1>11, <1>12 DEF Ranks

ContextInv == \A q \in Asks : Done(q, Ranks) => GreedyFor(ask[q], found[q], reply[q].items)

\* Only ranking answers such a request, and nothing touches it after.
LEMMA ContextRead ==
    ASSUME RequestsOK, ContextInv, NEW r \in Asks, Read(r)
    PROVE  ContextInv'
<1> SUFFICES ASSUME NEW q \in Asks, Done(q, Ranks)'
             PROVE  GreedyFor(ask'[q], found'[q], reply'[q].items)
  BY DEF ContextInv, GreedyFor, Budget, Limit, Given
<1>1. CASE q # r
  <2>1. /\ ask'[q] = ask[q] /\ step'[q] = step[q] /\ found'[q] = found[q]
        /\ reply'[q] = reply[q]
    BY <1>1, ReadFrame
  <2>2. GreedyFor(ask[q], found[q], reply[q].items)
    BY <2>1 DEF ContextInv, Done
  <2> QED
    BY <2>1, <2>2
<1>2. CASE q = r /\ Rank(r)
  <2>1. GreedyFor(ask[r], found[r], reply'[r].items)
    BY <1>2, RankIsGreedy
  <2>2. ask' = ask /\ found' = found
    BY <1>2 DEF Rank
  <2> QED
    BY <1>2, <2>1, <2>2
<1>3. CASE q = r /\ ~ Rank(r)
  <2>1. step'[r] = "done" /\ ask'[r].op \in Ranks
    BY <1>3 DEF Done
  <2>2. ~ Ask(r) /\ ~ RejectAsk(r) /\ ~ SearchPanics(r) /\ ~ StatementFails(r)
    BY <2>1 DEF Ask, RejectAsk, SearchPanics, StatementFails, Goto, RequestsOK
  <2>3. ~ (Keyword(r) \/ Similar(r) \/ LookUp(r) \/ LookUpFails(r))
    BY <2>1 DEF Keyword, Similar, LookUp, LookUpFails, LookedUp, Goto, RequestsOK
  <2>4. ~ (CountMemories(r) \/ RecentMemories(r) \/ SessionStats(r))
    BY <2>1 DEF CountMemories, RecentMemories, SessionStats, Goto, RequestsOK
  <2>5. ~ (Search(r) \/ SearchSymbols(r) \/ ListMemories(r) \/ GetMemory(r)
           \/ RecentObservations(r))
    BY <2>1 DEF Search, SearchSymbols, ListMemories, GetMemory, RecentObservations, Asking,
       RequestsOK, Ranks
  <2> QED
    BY <1>3, <2>2, <2>3, <2>4, <2>5 DEF Read
<1> QED
  BY <1>1, <1>2, <1>3

\* Whatever order the hash map gives equal scores, a context and the results of
\* search_memory are a best part of what was found, cut by the budget alone.
THEOREM ContextsAreGreedy == Spec => []ContextIsGreedy
<1>1. Init => TablesOK /\ RequestsOK /\ ContextInv
  BY TablesStart, RequestsStart DEF Init, ContextInv, Done
<1>2. TablesOK /\ RequestsOK /\ ContextInv /\ [Next]_vars
        => (TablesOK /\ RequestsOK /\ ContextInv)'
  <2> SUFFICES ASSUME TablesOK, RequestsOK, ContextInv, [Next]_vars
               PROVE  (TablesOK /\ RequestsOK /\ ContextInv)'
    OBVIOUS
  <2>1. UNCHANGED request => ContextInv'
    BY DEF request, ContextInv, GreedyFor, Budget, Limit, Given, Done
  <2>2. UNCHANGED vars => UNCHANGED request
    BY DEF vars, request
  <2> QED
    BY <2>1, <2>2, TablesStep, RequestsStep, WriteFrame, ContextRead DEF Next
<1>3. ContextInv => ContextIsGreedy
  BY DEF ContextInv, GreedyFor, ContextIsGreedy, Ranks
<1> QED
  BY <1>1, <1>2, <1>3, PTL DEF Spec

-----------------------------------------------------------------------------
(* Pages of a list *)

\* The row shares its time with no other.
Alone(S, x) == \A y \in S : y.created = x.created => y = x

\* Each of these memories has been read, or has a row in S that shares its time
\* or comes from a place on.
ReadOrAhead(ms, S, read, from) ==
    \A m \in ms : \E x \in S :
      x.id = m /\ (m \in read \/ ~ Alone(S, x) \/ Before(S, Created(S), x) >= from)

\* Each of these memories has been read, or has a row in S that shares its time.
ReadOrTied(ms, S, read) ==
    \A m \in ms : \E x \in S : x.id = m /\ (m \in read \/ ~ Alone(S, x))

\* Every memory that was there all along has been read or is still ahead, or it
\* may change places with another from page to page.
ListKept(q) ==
    ask[q].limit > 0 /\ ask[q].wire = FALSE /\ "delete" \notin since[q] =>
      /\ step[q] = "read" =>
           ReadOrAhead(through[q], Of(ask[q].category), Range(seen[q]), offset[q])
      /\ step[q] = "done" => ReadOrTied(through[q], Of(ask[q].category), Range(seen[q]))

\* Over the wire a client that stops has read them all or a page of the default size.
FirstListKept(q) ==
    /\ step[q] = "read" => \A m \in through[q] : \E x \in Of(ask[q].category) : x.id = m
    /\ step[q] = "done" /\ ask[q].wire = TRUE /\ ask[q].limit > 0 =>
         \/ through[q] \subseteq Range(seen[q])
         \/ Cardinality(Range(seen[q])) >= Defaults["list"]

ListInv == \A q \in Asks : ask[q].op = "list" => ListKept(q) /\ FirstListKept(q)

\* Where each row of S goes on in T, no row gets fewer before it.
LEMMA BeforeKept ==
    ASSUME NEW S, NEW T, IsFiniteSet(T), \A z \in T : z.created \in Int,
           \A x, y \in S : x.id = y.id => x = y,
           \A x \in S : \E z \in T : z.id = x.id /\ z.created = x.created,
           NEW x \in S, NEW z \in T, z.created = x.created
    PROVE  /\ Before(S, Created(S), x) \in Nat /\ Before(T, Created(T), z) \in Nat
           /\ Before(S, Created(S), x) <= Before(T, Created(T), z)
<1> DEFINE A == {y \in S : y.created > x.created}
           B == {y \in T : y.created > z.created}
           h == [y \in A |-> CHOOSE w \in T : w.id = y.id /\ w.created = y.created]
<1>1. \A y \in A : h[y] \in T /\ h[y].id = y.id /\ h[y].created = y.created
  OBVIOUS
<1>2. h \in [A -> B]
  BY <1>1
<1>3. \A y, w \in A : h[y] = h[w] => y = w
  BY <1>1
<1>4. IsFiniteSet(B)
  BY FS_Subset
<1>5. A = {y \in S : Created(S)[y] > Created(S)[x]} /\ B = {y \in T : Created(T)[y] > Created(T)[z]}
  BY DEF Created
<1> HIDE DEF A, B, h
<1>6. h \in Injection(A, B)
  BY <1>2, <1>3 DEF Injection, IsInjective
<1>7. IsFiniteSet(A) /\ Cardinality(A) <= Cardinality(B)
  BY <1>4, <1>6, FS_Injection
<1>8. Cardinality(A) \in Nat /\ Cardinality(B) \in Nat
  BY <1>4, <1>7, FS_CardinalityType
<1> QED
  BY <1>5, <1>7, <1>8 DEF Before

\* Unless one is deleted, each row goes on, and was created when it was.
LEMMA RowsGoOn ==
    ASSUME TablesOK, RequestsOK, Write, NEW q \in Asks, step[q] # "idle", "delete" \notin since'[q]
    PROVE  \A x \in memories : \E z \in memories' : z.id = x.id /\ z.created = x.created
<1>1. \A kind : Noted(kind) => kind \in since'[q]
  BY DEF Noted
<1>2. ASSUME NEW m \in Ids, Update(m)
      PROVE  \A x \in memories : \E z \in memories' : z.id = x.id /\ z.created = x.created
  <2> DEFINE new == [id |-> m, created |-> Row(m).created, updated |-> clock', version |-> 2]
  <2>1. memories' = (memories \ {Row(m)}) \cup {new} /\ Row(m) \in memories /\ Row(m).id = m
    BY <1>2, RowIsThere DEF Update
  <2>2. new.id = m /\ new.created = Row(m).created
    OBVIOUS
  <2> HIDE DEF new
  <2> QED
    BY <2>1, <2>2
<1>3. ASSUME NEW m \in Ids, Stamp(m) \/ StoreVector(m) \/ DeleteVector(m) \/ Insert(m)
      PROVE  memories \subseteq memories'
  BY <1>3 DEF Stamp, StoreVector, DeleteVector, Insert
<1>4. ASSUME NEW m \in Ids, Delete(m) PROVE FALSE
  BY <1>1, <1>4 DEF Delete, Wrote
<1>5. CASE Publish
  BY <1>5 DEF Publish
<1>6. ASSUME NEW s \in Sessions, StartSession(s) \/ SaveObservation(s) PROVE memories' = memories
  BY <1>6 DEF StartSession, SaveObservation
<1> QED
  BY <1>2, <1>3, <1>4, <1>5, <1>6 DEF Write

\* A memory that is listed goes on being listed as long as it counts as there
\* all along: a delete takes it from both.
LEMMA MemoryStays ==
    ASSUME TablesOK, RequestsOK, Write, NEW q \in Asks, NEW category,
           NEW m \in through'[q], \E x \in Of(category) : x.id = m
    PROVE  \E x \in {x \in memories' : InCategory(category, x)} : x.id = m
<1>1. PICK x \in memories : x.id = m /\ InCategory(category, x)
  BY DEF Of
<1>2. ASSUME NEW k \in Ids, Update(k) PROVE \E z \in memories' : z.id = m
  <2> DEFINE new == [id |-> k, created |-> Row(k).created, updated |-> clock', version |-> 2]
  <2>1. memories' = (memories \ {Row(k)}) \cup {new} /\ Row(k).id = k /\ new.id = k
    BY <1>2, RowIsThere DEF Update
  <2> HIDE DEF new
  <2> QED
    BY <1>1, <2>1
<1>3. ASSUME NEW k \in Ids, Stamp(k) \/ StoreVector(k) \/ DeleteVector(k) \/ Insert(k)
      PROVE  memories \subseteq memories'
  BY <1>3 DEF Stamp, StoreVector, DeleteVector, Insert
<1>4. ASSUME NEW k \in Ids, Delete(k) PROVE \E z \in memories' : z.id = m
  <2>1. /\ memories' = memories \ {Row(k)} /\ Row(k).id = k
        /\ through' = [p \in Asks |-> through[p] \ {k}]
    BY <1>4, RowIsThere DEF Delete
  <2>2. m # k
    BY <2>1 DEF RequestsOK
  <2> QED
    BY <1>1, <2>1, <2>2
<1>5. ASSUME Publish PROVE memories' = memories
  BY <1>5 DEF Publish
<1>6. ASSUME NEW s \in Sessions, StartSession(s) \/ SaveObservation(s) PROVE memories' = memories
  BY <1>6 DEF StartSession, SaveObservation
<1>7. \E z \in memories' : z.id = m
  BY <1>1, <1>2, <1>3, <1>4, <1>5, <1>6 DEF Write
<1> QED
  BY <1>1, <1>7 DEF InCategory

LEMMA ListWrite ==
    ASSUME TablesOK, RequestsOK, ListInv, Write
    PROVE  ListInv'
<1> SUFFICES ASSUME NEW q \in Asks, ask'[q].op = "list" PROVE ListKept(q)' /\ FirstListKept(q)'
  BY DEF ListInv
<1>1. UNCHANGED request /\ since[q] \subseteq since'[q] /\ through'[q] \subseteq through[q]
  BY WriteFrame
<1>2. UNCHANGED <<ask, step, offset, seen>> /\ ListKept(q) /\ FirstListKept(q)
  BY <1>1 DEF ListInv, request
<1> DEFINE c == ask[q].category
           S == Of(c)
           T == {x \in memories' : InCategory(c, x)}
<1>0. FirstListKept(q)'
  <2>1. ASSUME step[q] = "read", NEW m \in through'[q] PROVE \E x \in T : x.id = m
    <3>1. m \in through[q] /\ \E x \in S : x.id = m
      BY <1>1, <1>2, <2>1 DEF FirstListKept
    <3> QED
      BY <2>1, <3>1, MemoryStays
  <2>2. Of(ask[q].category)' = T
    BY <1>2 DEF Of, InCategory
  <2> QED
    BY <1>1, <1>2, <2>1, <2>2 DEF FirstListKept
<1> SUFFICES ListKept(q)'
  BY <1>0
<1>3. CASE step[q] = "idle"
  BY <1>2, <1>3 DEF ListKept
<1>4. CASE /\ step[q] \in {"read", "done"} /\ ask[q].limit > 0 /\ ask[q].wire = FALSE
           /\ "delete" \notin since'[q]
  <2>1. \A x \in memories : \E z \in memories' : z.id = x.id /\ z.created = x.created
    BY <1>4, RowsGoOn
  <2>2. /\ S = {x \in memories : InCategory(c, x)} /\ T = {x \in memories' : InCategory(c, x)}
        /\ Of(ask[q].category)' = T
        /\ \A x, z : x.id = z.id => (InCategory(c, x) <=> InCategory(c, z))
    BY <1>2 DEF Of, InCategory
  <2>3. \A x \in S : \E z \in T : z.id = x.id /\ z.created = x.created
    BY <2>1, <2>2
  <2>4. TablesOK'
    BY TablesStep DEF Next
  <2>5. IsFiniteSet(T) /\ (\A z \in T : z.created \in Int) /\ \A x, y \in S : x.id = y.id => x = y
    <3>1. IsFiniteSet(T)
      BY <2>2, <2>4, FS_Subset DEF TablesOK
    <3> QED
      BY <2>2, <2>4, <3>1 DEF TablesOK, Rows
  <2> HIDE DEF S, T
  <2>6. ASSUME NEW x \in S
        PROVE  \E z \in T :
                 /\ z.id = x.id
                 /\ ~ Alone(S, x) => ~ Alone(T, z)
                 /\ Before(S, Created(S), x) \in Nat /\ Before(T, Created(T), z) \in Nat
                 /\ Before(S, Created(S), x) <= Before(T, Created(T), z)
    <3>1. PICK z \in T : z.id = x.id /\ z.created = x.created
      BY <2>3
    <3>2. /\ Before(S, Created(S), x) \in Nat /\ Before(T, Created(T), z) \in Nat
          /\ Before(S, Created(S), x) <= Before(T, Created(T), z)
      BY <2>3, <2>5, <3>1, BeforeKept
    <3>3. ASSUME ~ Alone(S, x) PROVE ~ Alone(T, z)
      <4>1. PICK y \in S : y.created = x.created /\ y # x
        BY <3>3 DEF Alone
      <4>2. PICK w \in T : w.id = y.id /\ w.created = y.created
        BY <2>3
      <4>3. y.id # x.id
        BY <2>5, <4>1
      <4> QED
        BY <3>1, <4>1, <4>2, <4>3 DEF Alone
    <3> QED
      BY <3>1, <3>2, <3>3
  <2>7. offset[q] \in Nat
    BY DEF RequestsOK
  <2>8. step[q] = "read" => ReadOrAhead(through'[q], T, Range(seen[q]), offset[q])
    <3> SUFFICES ASSUME step[q] = "read", NEW m \in through'[q]
                 PROVE  \E z \in T : /\ z.id = m
                                      /\ \/ m \in Range(seen[q]) \/ ~ Alone(T, z)
                                         \/ Before(T, Created(T), z) >= offset[q]
      BY DEF ReadOrAhead
    <3>1. PICK x \in S : /\ x.id = m
                         /\ \/ m \in Range(seen[q]) \/ ~ Alone(S, x)
                            \/ Before(S, Created(S), x) >= offset[q]
      BY <1>1, <1>2, <1>4 DEF ListKept, ReadOrAhead, S
    <3> QED
      BY <2>6, <2>7, <3>1
  <2>9. step[q] = "done" => ReadOrTied(through'[q], T, Range(seen[q]))
    <3> SUFFICES ASSUME step[q] = "done", NEW m \in through'[q]
                 PROVE  \E z \in T : z.id = m /\ (m \in Range(seen[q]) \/ ~ Alone(T, z))
      BY DEF ReadOrTied
    <3>1. PICK x \in S : x.id = m /\ (m \in Range(seen[q]) \/ ~ Alone(S, x))
      BY <1>1, <1>2, <1>4 DEF ListKept, ReadOrTied, S
    <3> QED
      BY <2>6, <3>1
  <2> QED
    BY <1>2, <1>4, <2>2, <2>8, <2>9 DEF ListKept
<1>5. CASE \/ step[q] \notin {"idle", "read", "done"} \/ ~ (ask[q].limit > 0)
           \/ ask[q].wire # FALSE \/ "delete" \in since'[q]
  BY <1>1, <1>2, <1>5 DEF ListKept
<1> QED
  BY <1>3, <1>4, <1>5

\* A page moves the memories it shows from those ahead to those read.
LEMMA NextPageOfList ==
    ASSUME TablesOK, NEW category, NEW limit \in Nat \ {0}, NEW from \in Nat, NEW ms,
           NEW read, ReadOrAhead(ms, Of(category), read, from), NEW more,
           NEW page \in ListPages(category, limit, from),
           \A i \in 1 .. Len(page) : page[i].id \in more
    PROVE  /\ Len(page) <= limit
           /\ ReadOrAhead(ms, Of(category), read \cup more, from + limit)
           /\ Len(page) # limit => ReadOrTied(ms, Of(category), read \cup more)
<1> DEFINE S == Of(category)
           f == Created(S)
<1>1. IsFiniteSet(S) /\ f \in [S -> Int] /\ \A x \in S : f[x] = x.created
  BY ListedPage DEF Created
<1>2. PICK L \in Ranked(S, f) : L \in Seq(S) /\ page = Page(L, limit, from)
  BY ListedPage
<1>3. Len(L) \in Nat
  BY <1>2
<1>4. /\ Len(page) = IF from >= Len(L) THEN 0 ELSE Smaller(from + limit, Len(L)) - from
      /\ \A i \in 1 .. Len(page) : page[i] = L[from + i]
  BY <1>2, PageIsPart
<1>5. \A m \in ms : \E x \in S : x.id = m /\ (m \in read \/ ~ Alone(S, x) \/ Before(S, f, x) >= from)
  BY DEF ReadOrAhead
<1> HIDE DEF S, f
<1>6. ASSUME NEW x \in S, Alone(S, x)
      PROVE  /\ Before(S, f, x) \in Nat /\ Before(S, f, x) + 1 \in 1 .. Len(L)
             /\ L[Before(S, f, x) + 1] = x
  <2>1. \A y \in S : f[y] = f[x] => y = x
    BY <1>1, <1>6 DEF Alone
  <2> QED
    BY <1>1, <2>1, PlaceOfOne
<1>7. ASSUME NEW m \in ms
      PROVE  \E x \in S :
               /\ x.id = m
               /\ \/ m \in read \cup more \/ ~ Alone(S, x)
                  \/ Before(S, f, x) >= from + limit /\ Len(page) = limit
  <2>1. PICK x \in S : x.id = m /\ (m \in read \/ ~ Alone(S, x) \/ Before(S, f, x) >= from)
    BY <1>5
  <2> SUFFICES ASSUME Alone(S, x), Before(S, f, x) >= from
               PROVE  m \in more \/ (Before(S, f, x) >= from + limit /\ Len(page) = limit)
    BY <2>1
  <2> DEFINE b == Before(S, f, x)
  <2>2. b \in Nat /\ b + 1 \in 1 .. Len(L) /\ L[b + 1] = x /\ b >= from
    BY <1>6
  <2> HIDE DEF b
  <2>3. CASE b < from + limit
    <3> DEFINE i == b + 1 - from
    <3>1. i \in 1 .. Len(page) /\ from + i = b + 1
      BY <1>3, <1>4, <2>2, <2>3 DEF Smaller
    <3> HIDE DEF i
    <3>2. page[i] = x
      BY <1>4, <2>2, <3>1
    <3> QED
      BY <2>1, <3>1, <3>2
  <2>4. CASE b >= from + limit
    <3>1. Len(page) = limit
      BY <1>3, <1>4, <2>2, <2>4 DEF Smaller
    <3> QED
      BY <2>4, <3>1 DEF b
  <2> QED
    BY <2>2, <2>3, <2>4
<1>8. ReadOrAhead(ms, S, read \cup more, from + limit)
  BY <1>7 DEF ReadOrAhead, f
<1>9. Len(page) # limit => ReadOrTied(ms, S, read \cup more)
  BY <1>7 DEF ReadOrTied
<1>10. Len(page) <= limit
  BY <1>3, <1>4 DEF Smaller
<1> QED
  BY <1>8, <1>9, <1>10 DEF S

\* Over the wire a page shows every memory of the category, or as many as the default.
LEMMA FirstPageOfList ==
    ASSUME TablesOK, NEW category, NEW limit \in Nat, NEW from \in Nat, from = 0,
           NEW page \in ListPages(category, limit, from)
    PROVE  \/ \A x \in Of(category) : x \in Range(page)
           \/ Cardinality({page[i].id : i \in 1 .. Len(page)}) >= limit
<1> DEFINE S == Of(category)
           n == Len(page)
           ids == {page[i].id : i \in 1 .. n}
           h == [i \in 1 .. n |-> page[i].id]
<1>1. IsFiniteSet(S) /\ S \subseteq memories
  BY ListedPage
<1>2. PICK L \in Ranked(S, Created(S)) : L \in Seq(S) /\ page = Page(L, limit, 0)
  <2>1. PICK L \in Ranked(Of(category), Created(Of(category))) : page = Page(L, limit, 0)
    BY DEF ListPages, Listed
  <2>2. L \in Seq(S)
    <3> HIDE DEF n, ids, h
    <3> QED
      BY <1>1, <2>1, RankedIsOrder
  <2> HIDE DEF n, ids, h
  <2> QED
    BY <2>1, <2>2
<1>3. /\ Len(L) \in Nat /\ n = (IF 0 >= Len(L) THEN 0 ELSE Smaller(0 + limit, Len(L)) - 0)
      /\ \A i \in 1 .. n : page[i] = L[0 + i]
      /\ page \in Seq(S)
  <2> DEFINE shown == Page(L, limit, 0)
  <2>1. 0 \in Nat /\ L \in Seq(S) /\ page = shown /\ Len(L) \in Nat
    BY <1>2
  <2>2. /\ shown \in Seq(S)
        /\ Len(shown) = IF 0 >= Len(L) THEN 0 ELSE Smaller(0 + limit, Len(L)) - 0
        /\ \A i \in 1 .. Len(shown) : shown[i] = L[0 + i]
    BY <2>1, PageIsPart, ZenonT(60)
  <2> HIDE DEF shown
  <2> QED
    BY <2>1, <2>2
<1>4. /\ \A i, j \in 1 .. Len(L) : L[i] = L[j] => i = j
      /\ \A x \in S : \E i \in 1 .. Len(L) : L[i] = x
  BY <1>1, RankedIsOrder
<1>5. CASE n = Len(L)
  <2>1. ASSUME NEW x \in S PROVE x \in Range(page)
    <3>1. PICK i \in 1 .. Len(L) : L[i] = x
      BY <1>4
    <3>2. i \in 1 .. n /\ page[i] = x /\ i \in DOMAIN page
      BY <1>3, <1>5, <3>1
    <3> QED
      BY <3>2 DEF Range
  <2> QED
    BY <2>1
<1>6. CASE n # Len(L)
  <2>1. n = limit /\ n \in Nat /\ n <= Len(L)
    BY <1>3, <1>6 DEF Smaller
  <2>2. \A i \in 1 .. n : i \in 1 .. Len(L) /\ page[i] = L[i] /\ page[i] \in memories
    BY <1>1, <1>2, <1>3, <2>1
  <2>3. \A x, y \in memories : x.id = y.id => x = y
    BY DEF TablesOK
  <2> HIDE DEF n
  <2>4. /\ h \in [1 .. n -> ids] /\ \A i, j \in 1 .. n : h[i] = h[j] => i = j
        /\ \A y \in ids : \E i \in 1 .. n : h[i] = y
    BY <1>4, <2>2, <2>3
  <2>5. IsFiniteSet(1 .. n) /\ Cardinality(1 .. n) = n
    BY <2>1, FS_Interval
  <2> HIDE DEF h, ids
  <2>6. h \in Bijection(1 .. n, ids)
    <3>1. h \in Injection(1 .. n, ids)
      BY <2>4 DEF Injection, IsInjective
    <3>2. h \in Surjection(1 .. n, ids)
      BY <2>4 DEF Surjection
    <3> QED
      BY <3>1, <3>2 DEF Bijection
  <2>7. Cardinality(ids) = n
    <3>1. ExistsBijection(1 .. n, ids)
      BY <2>6 DEF ExistsBijection
    <3> QED
      BY <2>5, <3>1, FS_Bijection
  <2> QED
    BY <2>1, <2>7 DEF ids, n
<1> QED
  BY <1>5, <1>6

\* What was read is a finite set.
LEMMA SeenIsFinite ==
    ASSUME RequestsOK', NEW q \in Asks
    PROVE  IsFiniteSet(Range(seen'[q]))
<1> DEFINE s == seen'[q]
<1>1. s \in Seq(Files \cup Ids)
  BY DEF RequestsOK
<1> HIDE DEF s
<1>2. Len(s) \in Nat /\ DOMAIN s = 1 .. Len(s)
  BY <1>1
<1>3. s = [i \in DOMAIN s |-> s[i]]
  BY <1>1
<1>4. IsFiniteSet(DOMAIN s)
  BY <1>2, FS_Interval
<1>5. IsFiniteSet({s[i] : i \in DOMAIN s})
  BY <1>3, <1>4, ImageIsFinite
<1> QED
  BY <1>5 DEF Range, s

LEMMA ListRead ==
    ASSUME TablesOK, RequestsOK, ListInv, NEW r \in Asks, Read(r)
    PROVE  ListInv'
<1> SUFFICES ASSUME NEW q \in Asks, ask'[q].op = "list" PROVE ListKept(q)' /\ FirstListKept(q)'
  BY DEF ListInv
<1>1. UNCHANGED memories /\ UNCHANGED since
  BY ReadFrame DEF tables
<1>3. CASE q # r
  <2>1. /\ ask'[q] = ask[q] /\ step'[q] = step[q] /\ offset'[q] = offset[q]
        /\ seen'[q] = seen[q] /\ through'[q] = through[q]
    BY <1>3, ReadFrame
  <2>2. ListKept(q) /\ FirstListKept(q)
    BY <2>1 DEF ListInv
  <2>3. Of(ask[q].category)' = Of(ask'[q].category)
    BY <1>1 DEF Of, InCategory
  <2> QED
    BY <1>1, <2>1, <2>2, <2>3 DEF ListKept, FirstListKept
<1>4. CASE q = r /\ ~ Ask(r)
  <2>1. /\ ask' = ask /\ through' = through /\ ask[r].op = "list"
        /\ ListKept(r) /\ FirstListKept(r)
    BY <1>4 DEF Read, RejectAsk, Search, SearchSymbols, SearchPanics, ListMemories, GetMemory,
       Keyword, Similar, LookUp, LookUpFails, Rank, CountMemories, RecentMemories,
       SessionStats, RecentObservations, StatementFails, ListInv, history
  <2>2. CASE ListMemories(r)
    <3> DEFINE c == ask[r].category
    <3>1. PICK page \in ListPages(c, Limit(ask[r]), Offset(r)) :
            /\ seen'[r] = seen[r] \o [i \in DOMAIN page |-> page[i].id]
            /\ offset'[r] = offset[r] + ask[r].limit
            /\ step'[r] = IF Len(page) >= ask[r].limit /\ ask[r].limit > 0 THEN "read" ELSE "done"
            /\ step[r] = "read"
      BY <2>2 DEF ListMemories, Asking, Goto, RequestsOK
    <3> DEFINE shown == [i \in DOMAIN page |-> page[i].id]
               more  == Range(shown)
    <3>2. /\ ask[r].limit \in Nat /\ Limit(ask[r]) \in Nat /\ Offset(r) \in Nat
          /\ offset[r] \in Nat /\ seen[r] \in Seq(Files \cup Ids)
      BY <2>1, AskIsCounted DEF RequestsOK, Counted
    <3>3. page \in Seq(memories) /\ Len(page) \in Nat /\ DOMAIN page = 1 .. Len(page)
      <4>1. page \in Seq(memories)
        BY <3>2, ListedPage
      <4> QED
        BY <4>1
    <3>4. /\ shown \in Seq(Ids) /\ \A i \in 1 .. Len(page) : page[i].id \in more
          /\ more = {page[i].id : i \in 1 .. Len(page)}
      <4>1. \A i \in 1 .. Len(page) : page[i] \in memories
        BY <3>3
      <4>2. \A i \in 1 .. Len(page) : page[i].id \in Ids
        BY <4>1 DEF TablesOK, Rows
      <4>3. DOMAIN shown = 1 .. Len(page) /\ \A i \in 1 .. Len(page) : shown[i] = page[i].id
        BY <3>3
      <4>4. shown = [i \in 1 .. Len(page) |-> page[i].id]
        BY <3>3
      <4>5. shown \in Seq(Ids)
        BY <3>3, <4>2, <4>4
      <4> HIDE DEF shown
      <4> QED
        BY <4>3, <4>5 DEF Range
    <3> HIDE DEF shown
    <3>5. Range(seen'[r]) = Range(seen[r]) \cup more
      <4>1. seen'[r] = seen[r] \o shown
        BY <3>1 DEF shown
      <4>2. shown \in Seq(Files \cup Ids)
        BY <3>4, SeqMonotonic
      <4> QED
        BY <3>2, <4>1, <4>2, RangeConcatenation
    <3> HIDE DEF more
    <3>6. Of(ask[r].category)' = Of(c)
      BY <1>1, <2>1 DEF Of, InCategory
    <3> HIDE DEF c
    <3>7. ListKept(r)'
      <4> SUFFICES ASSUME ask[r].limit > 0, ask[r].wire = FALSE, "delete" \notin since[r]
                   PROVE  /\ step'[r] = "read" =>
                               ReadOrAhead(through[r], Of(c), Range(seen'[r]), offset'[r])
                          /\ step'[r] = "done" => ReadOrTied(through[r], Of(c), Range(seen'[r]))
        BY <1>1, <2>1, <3>6 DEF ListKept
      <4> DEFINE limit == ask[r].limit
                 from  == offset[r]
                 read  == Range(seen[r])
                 ms    == through[r]
      <4>1. Limit(ask[r]) = limit /\ Offset(r) = from /\ limit \in Nat \ {0} /\ from \in Nat
        BY <3>2 DEF Limit, Given, Offset
      <4>2. ReadOrAhead(ms, Of(c), read, from)
        BY <2>1, <3>1 DEF ListKept, c
      <4>3. page \in ListPages(c, limit, from)
        BY <4>1
      <4> HIDE DEF limit, from, read, ms
      <4>4. /\ Len(page) <= limit
            /\ ReadOrAhead(ms, Of(c), read \cup more, from + limit)
            /\ Len(page) # limit => ReadOrTied(ms, Of(c), read \cup more)
        BY <3>4, <4>1, <4>2, <4>3, NextPageOfList
      <4>5. step'[r] = IF Len(page) >= limit /\ limit > 0 THEN "read" ELSE "done"
        BY <3>1 DEF limit
      <4>6. step'[r] = "done" => Len(page) # limit
        BY <4>1, <4>5
      <4> QED
        BY <3>1, <3>5, <4>4, <4>6 DEF limit, from, read, ms
    <3>8. FirstListKept(r)'
      <4>1. \A m \in through[r] : \E x \in Of(c) : x.id = m
        BY <2>1, <3>1 DEF FirstListKept, c
      <4>2. ASSUME ask[r].wire = TRUE
            PROVE  \/ through[r] \subseteq Range(seen'[r])
                   \/ Cardinality(Range(seen'[r])) >= Defaults["list"]
        <5>1. /\ Limit(ask[r]) = Defaults["list"] /\ Offset(r) = 0
              /\ Defaults["list"] \in Nat
          BY <2>1, <4>2, DefaultsAssumption DEF Limit, Given, Offset
        <5>2. \/ \A x \in Of(c) : x \in Range(page)
              \/ Cardinality({page[i].id : i \in 1 .. Len(page)}) >= Defaults["list"]
          <6> DEFINE limit == Limit(ask[r])
                     from  == Offset(r)
          <6>1. page \in ListPages(c, limit, from) /\ limit \in Nat /\ from \in Nat /\ from = 0
            BY <5>1
          <6> HIDE DEF limit, from
          <6>2. \/ \A x \in Of(c) : x \in Range(page)
                \/ Cardinality({page[i].id : i \in 1 .. Len(page)}) >= limit
            BY <6>1, FirstPageOfList
          <6> QED
            BY <5>1, <6>2 DEF limit
        <5>3. CASE \A x \in Of(c) : x \in Range(page)
          <6>1. ASSUME NEW m \in through[r] PROVE m \in Range(seen'[r])
            <7>1. PICK x \in Of(c) : x.id = m
              BY <4>1
            <7>2. PICK i \in 1 .. Len(page) : page[i] = x
              BY <3>3, <5>3, <7>1 DEF Range
            <7>3. page[i].id \in more
              BY <3>4
            <7> QED
              BY <3>5, <7>1, <7>2, <7>3
          <6> QED
            BY <6>1
        <5>4. CASE Cardinality(more) >= Defaults["list"]
          <6>1. IsFiniteSet(Range(seen'[r]))
            BY RequestsRead, SeenIsFinite
          <6>2. /\ Cardinality(more) <= Cardinality(Range(seen'[r]))
                /\ IsFiniteSet(more)
            BY <3>5, <6>1, FS_Subset
          <6>3. Cardinality(more) \in Nat /\ Cardinality(Range(seen'[r])) \in Nat
            BY <6>1, <6>2, FS_CardinalityType
          <6> QED
            BY <5>1, <5>4, <6>2, <6>3
        <5> QED
          BY <3>4, <5>2, <5>3, <5>4
      <4> QED
        BY <1>1, <2>1, <3>6, <4>1, <4>2 DEF FirstListKept
    <3> QED
      BY <1>4, <3>7, <3>8
  <2>4. CASE RejectAsk(r) \/ SearchPanics(r) \/ StatementFails(r)
    <3>1. step'[r] \in {"err", "lost"}
      BY <2>4 DEF RejectAsk, SearchPanics, StatementFails, Goto, RequestsOK
    <3> QED
      BY <1>4, <3>1 DEF ListKept, FirstListKept
  <2>5. ~ (Search(r) \/ SearchSymbols(r) \/ GetMemory(r) \/ Keyword(r)
           \/ Similar(r) \/ LookUp(r) \/ LookUpFails(r) \/ Rank(r) \/ CountMemories(r)
           \/ RecentMemories(r) \/ SessionStats(r) \/ RecentObservations(r))
    BY <2>1 DEF Search, SearchSymbols, GetMemory, Keyword, Similar, LookUp, LookUpFails,
       Rank, CountMemories, RecentMemories, SessionStats, RecentObservations, Asking,
       RequestsOK, Ranks
  <2> QED
    BY <1>4, <2>2, <2>4, <2>5 DEF Read
<1>5. CASE q = r /\ Ask(r)
  <2>1. step'[r] = "read" /\ offset'[r] = 0
    BY <1>5 DEF Ask, Goto, RequestsOK
  <2>2. through'[r] = {x.id : x \in Of(ask'[r].category)}
    BY <1>5 DEF Ask, RequestsOK
  <2> DEFINE S == Of(ask'[r].category)
  <2>3. IsFiniteSet(S) /\ Created(S) \in [S -> Int]
    <3>1. IsFiniteSet(S) /\ S \subseteq memories
      <4>1. S \subseteq memories
        BY DEF Of
      <4> QED
        BY <4>1, FS_Subset DEF TablesOK
    <3> HIDE DEF S
    <3> QED
      BY <3>1 DEF TablesOK, Rows, Created
  <2>4. \A x \in S : Before(S, Created(S), x) >= 0
    BY <2>3, BeforeIsCount
  <2>5. ReadOrAhead(through'[r], S, Range(seen'[r]), 0)
    BY <2>2, <2>4 DEF ReadOrAhead
  <2>6. Of(ask[r].category)' = S
    BY <1>1 DEF Of, InCategory
  <2>7. \A m \in through'[r] : \E x \in S : x.id = m
    BY <2>2
  <2> QED
    BY <1>5, <2>1, <2>5, <2>6, <2>7 DEF ListKept, FirstListKept
<1> QED
  BY <1>3, <1>4, <1>5

\* However memories are saved and updated meanwhile, a client that lists page by
\* page misses none that was there all along, unless one is deleted or two were
\* saved at the same time; over the wire, unless it got a page of the default size.
THEOREM ListsAreComplete == Spec => []PagedListIsComplete
<1>1. Init => TablesOK /\ RequestsOK /\ ListInv
  BY TablesStart, RequestsStart DEF Init, ListInv, ListKept, FirstListKept, NoAsk
<1>2. TablesOK /\ RequestsOK /\ ListInv /\ [Next]_vars
        => (TablesOK /\ RequestsOK /\ ListInv)'
  <2> SUFFICES ASSUME TablesOK, RequestsOK, ListInv, [Next]_vars
               PROVE  (TablesOK /\ RequestsOK /\ ListInv)'
    OBVIOUS
  <2>1. ASSUME UNCHANGED vars PROVE ListInv'
    <3>1. UNCHANGED <<memories, ask, step, offset, seen, since, through>>
      BY <2>1 DEF vars, tables, request, history
    <3>2. \A category : Of(category)' = Of(category)
      BY <3>1 DEF Of, InCategory
    <3> QED
      BY <3>1, <3>2 DEF ListInv, ListKept, FirstListKept
  <2> QED
    BY <2>1, TablesStep, RequestsStep, ListWrite, ListRead DEF Next
<1>3. RequestsOK /\ ListInv => PagedListIsComplete
  <2> SUFFICES ASSUME RequestsOK, ListInv, NEW q \in Asks, Done(q, {"list"}), ask[q].limit > 0
               PROVE  LET missed == through[q] \ Range(seen[q])
                          listed == Of(ask[q].category)
                      IN  IF ask[q].wire
                          THEN missed = {} \/ Cardinality(Range(seen[q])) >= Defaults["list"]
                          ELSE \/ "delete" \in since[q]
                               \/ \A m \in missed : \E x, y \in listed :
                                    x.id = m /\ y # x /\ y.created = x.created
    BY DEF PagedListIsComplete
  <2>1. ListKept(q) /\ FirstListKept(q) /\ ask[q].wire \in BOOLEAN /\ step[q] = "done"
    BY AskIsCounted DEF ListInv, Done, Counted
  <2>2. CASE ask[q].wire = TRUE
    BY <2>1, <2>2 DEF FirstListKept
  <2>3. CASE ask[q].wire = FALSE
    BY <2>1, <2>3 DEF ListKept, ReadOrTied, Alone
  <2> QED
    BY <2>1, <2>2, <2>3
<1> QED
  BY <1>1, <1>2, <1>3, PTL DEF Spec

=============================================================================
