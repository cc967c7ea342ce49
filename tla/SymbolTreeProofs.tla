-------------------------- MODULE SymbolTreeProofs --------------------------
(***************************************************************************)
(* What the walk of SymbolTree finds in every tree.                        *)
(*                                                                         *)
(* The walk is a recursive function of the nodes, and so are the sequences *)
(* it puts together.  Each is shown equal to a form without recursion: the *)
(* sequence of a function's values at the members of a set of nodes, the   *)
(* least first.  The induction needed is over numbers and brought in       *)
(* without an operator for a parameter.                                    *)
(***************************************************************************)
EXTENDS SymbolTree, FiniteSetTheorems, SequenceTheorems, WellFoundedInduction, TLAPS

-----------------------------------------------------------------------------
(* Numbers *)

\* Every set of numbers that is not empty has a least one.
LEMMA LeastNumber ==
    ASSUME NEW T \in SUBSET Nat, T # {}
    PROVE  \E n \in T : \A m \in T : n <= m
<1> DEFINE R == {ss \in Nat \X Nat : ss[1] < ss[2]}
<1>1. IsWellFoundedOn(R, Nat)
  BY NatLessThanWellFounded DEF OpToRel
<1> HIDE DEF R
<1>2. PICK n \in T : \A m \in T : ~ (<<m, n>> \in R)
  BY <1>1, WFMin
<1>3. \A m \in T : ~ (m < n)
  BY <1>2 DEF R
<1> QED
  BY <1>3

\* Induction over the numbers, for a set in place of a predicate.
LEMMA AllNumbers ==
    ASSUME NEW T, 0 \in T, \A n \in Nat : n \in T => n + 1 \in T
    PROVE  \A n \in Nat : n \in T
<1> SUFFICES ASSUME Nat \ T # {} PROVE FALSE
  OBVIOUS
<1>1. PICK n \in Nat \ T : \A m \in Nat \ T : n <= m
  BY LeastNumber
<1>2. n # 0 /\ n - 1 \in Nat
  BY <1>1
<1> QED
  BY <1>1, <1>2

\* A function on 1 .. k is a sequence of k elements.
LEMMA IsSequence ==
    ASSUME NEW V, NEW k \in Nat, NEW f \in [1 .. k -> V]
    PROVE  f \in Seq(V) /\ Len(f) = k
  OBVIOUS

-----------------------------------------------------------------------------
(* Sets of numbers in order *)

\* How many of S are below n.
Below(S, n) == Cardinality({m \in S : m < n})

LEMMA BelowIsCount ==
    ASSUME NEW S \in SUBSET Nat, IsFiniteSet(S), NEW n \in S
    PROVE  /\ Cardinality(S) \in Nat
           /\ Below(S, n) \in 0 .. Cardinality(S) - 1
           /\ \A m \in S : n < m => Below(S, n) < Below(S, m)
<1> DEFINE A(k) == {m \in S : m < k}
<1>1. \A k \in S : IsFiniteSet(A(k)) /\ A(k) \in SUBSET S /\ k \notin A(k)
  <2> SUFFICES ASSUME NEW k \in S PROVE IsFiniteSet(A(k)) /\ A(k) \in SUBSET S /\ k \notin A(k)
    OBVIOUS
  <2>1. A(k) \in SUBSET S /\ k \notin A(k)
    OBVIOUS
  <2> QED
    BY <2>1, FS_Subset
<1>2. \A k \in S : Cardinality(A(k)) \in Nat
  BY <1>1, FS_CardinalityType
<1>3. Cardinality(S) \in Nat
  BY FS_CardinalityType
<1>4. Cardinality(A(n)) < Cardinality(S)
  <2>1. Cardinality(A(n)) <= Cardinality(S) /\ (Cardinality(S) = Cardinality(A(n)) => S = A(n))
    BY <1>1, FS_Subset
  <2> QED
    BY <1>1, <1>2, <1>3, <2>1
<1>5. ASSUME NEW m \in S, n < m PROVE Cardinality(A(n)) < Cardinality(A(m))
  <2>0. \A x \in S : x < n => x < m
    <3>1. n \in Nat /\ m \in Nat /\ \A x \in S : x \in Nat
      OBVIOUS
    <3> QED
      BY <1>5, <3>1
  <2>1. A(n) \in SUBSET A(m) /\ n \in A(m) /\ n \notin A(n)
    <3>1. \A x \in A(n) : x \in A(m)
      BY <2>0
    <3>2. n \in A(m) /\ n \notin A(n)
      BY <1>1, <1>5
    <3> QED
      BY <3>1, <3>2
  <2> HIDE DEF A
  <2>2. /\ Cardinality(A(n)) <= Cardinality(A(m))
        /\ Cardinality(A(m)) = Cardinality(A(n)) => A(m) = A(n)
    BY <1>1, <2>1, FS_Subset
  <2> QED
    BY <1>2, <2>1, <2>2
<1> QED
  BY <1>2, <1>3, <1>4, <1>5 DEF Below

\* A sequence that lists S in order.
Lists(L, S) ==
    /\ L \in [1 .. Cardinality(S) -> S]
    /\ \A i, j \in 1 .. Cardinality(S) : i < j => L[i] < L[j]
    /\ \A n \in S : \E i \in 1 .. Cardinality(S) : L[i] = n

\* Each number of places is that of one element.
LEMMA EachPlaceTaken ==
    ASSUME NEW S \in SUBSET Nat, IsFiniteSet(S)
    PROVE  /\ \A i \in 1 .. Cardinality(S) : \E n \in S : Below(S, n) = i - 1
           /\ \A n, m \in S : Below(S, n) = Below(S, m) => n = m
<1> DEFINE k == Cardinality(S)
           place == [n \in S |-> Below(S, n) + 1]
<1>1. k \in Nat /\ IsFiniteSet(1 .. k) /\ Cardinality(1 .. k) = k
  BY FS_CardinalityType, FS_Interval
<1>2. \A n \in S : Below(S, n) \in 0 .. k - 1
  BY BelowIsCount
<1>3. \A n, m \in S : Below(S, n) = Below(S, m) => n = m
  <2> SUFFICES ASSUME NEW n \in S, NEW m \in S, n < m PROVE Below(S, n) # Below(S, m)
    OBVIOUS
  <2>1. Below(S, n) < Below(S, m)
    BY BelowIsCount
  <2> QED
    BY <1>2, <2>1
<1> HIDE DEF k
<1>4. place \in [S -> 1 .. k] /\ \A n, m \in S : place[n] = place[m] => n = m
  BY <1>1, <1>2, <1>3
<1> HIDE DEF place
<1>5. place \in Injection(S, 1 .. k)
  BY <1>4 DEF Injection, IsInjective
<1>6. place \in Surjection(S, 1 .. k)
  BY <1>1, <1>5, FS_Injection DEF k
<1>7. ASSUME NEW i \in 1 .. k PROVE \E n \in S : Below(S, n) = i - 1
  <2>1. PICK n \in S : place[n] = i
    BY <1>6 DEF Surjection
  <2>2. Below(S, n) + 1 = i
    BY <2>1 DEF place
  <2> QED
    BY <1>1, <1>2, <2>2
<1> QED
  BY <1>3, <1>7 DEF k

\* InOrder lists a set in order.
LEMMA InOrderLists ==
    ASSUME NEW S \in SUBSET Nat, IsFiniteSet(S)
    PROVE  Lists(InOrder(S), S)
<1> DEFINE k == Cardinality(S)
           L == InOrder(S)
<1>1. k \in Nat
  BY FS_CardinalityType
<1>2. L = [i \in 1 .. k |-> CHOOSE n \in S : Below(S, n) = i - 1]
  BY DEF InOrder, Below
<1> HIDE DEF k, L
<1>3. ASSUME NEW i \in 1 .. k PROVE L[i] \in S /\ Below(S, L[i]) = i - 1
  <2>1. \E n \in S : Below(S, n) = i - 1
    BY EachPlaceTaken DEF k
  <2> QED
    BY <1>2, <2>1
<1>4. ASSUME NEW i \in 1 .. k, NEW j \in 1 .. k, i < j PROVE L[i] < L[j]
  <2>1. L[i] \in S /\ L[j] \in S /\ Below(S, L[i]) = i - 1 /\ Below(S, L[j]) = j - 1
    BY <1>3
  <2>2. L[i] \in Nat /\ L[j] \in Nat
    BY <2>1
  <2>3. L[j] < L[i] => Below(S, L[j]) < Below(S, L[i])
    BY <2>1, BelowIsCount
  <2>4. ~ (j - 1 < i - 1) /\ i - 1 # j - 1
    BY <1>1, <1>4
  <2> QED
    BY <2>1, <2>2, <2>3, <2>4
<1>5. ASSUME NEW n \in S PROVE \E i \in 1 .. k : L[i] = n
  <2>1. Below(S, n) \in 0 .. k - 1
    BY BelowIsCount DEF k
  <2>2. PICK i \in 1 .. k : Below(S, n) = i - 1
    <3>1. Below(S, n) + 1 \in 1 .. k /\ Below(S, n) = (Below(S, n) + 1) - 1
      BY <1>1, <2>1
    <3> QED
      BY <3>1
  <2>3. L[i] \in S /\ Below(S, L[i]) = Below(S, n)
    BY <1>3, <2>2
  <2>4. \A x, y \in S : Below(S, x) = Below(S, y) => x = y
    BY EachPlaceTaken
  <2>5. L[i] = n
    BY <2>3, <2>4
  <2> QED
    BY <2>5
<1>6. L \in [1 .. k -> S]
  BY <1>2, <1>3
<1> QED
  BY <1>4, <1>5, <1>6 DEF Lists, k, L

\* A sequence in order of all members of a set is InOrder of it.
LEMMA OnlyInOrder ==
    ASSUME NEW S \in SUBSET Nat, NEW k \in Nat, NEW L \in [1 .. k -> S],
           \A i, j \in 1 .. k : i < j => L[i] < L[j],
           \A n \in S : \E i \in 1 .. k : L[i] = n
    PROVE  IsFiniteSet(S) /\ Cardinality(S) = k /\ L = InOrder(S)
<1>1. \A i \in 1 .. k : L[i] \in Nat
  OBVIOUS
<1>2. \A i, j \in 1 .. k : L[i] = L[j] => i = j
  <2> SUFFICES ASSUME NEW i \in 1 .. k, NEW j \in 1 .. k, i < j PROVE L[i] # L[j]
    OBVIOUS
  <2> QED
    BY <1>1
<1>3. \A i, j \in 1 .. k : L[i] < L[j] => i < j
  <2> SUFFICES ASSUME NEW i \in 1 .. k, NEW j \in 1 .. k, L[i] < L[j], j < i PROVE FALSE
    BY <1>1
  <2>1. L[j] < L[i]
    OBVIOUS
  <2> QED
    BY <1>1, <2>1
<1>4. IsFiniteSet(S) /\ Cardinality(S) = k
  <2>1. L \in Bijection(1 .. k, S)
    BY <1>2 DEF Bijection, Injection, Surjection, IsInjective
  <2>2. ExistsBijection(1 .. k, S)
    BY <2>1 DEF ExistsBijection
  <2> QED
    BY <2>2, FS_CountingElements, FS_NatBijection
<1>5. ASSUME NEW i \in 1 .. k PROVE Below(S, L[i]) = i - 1
  <2> DEFINE A == {m \in S : m < L[i]}
             f == [j \in 1 .. i - 1 |-> L[j]]
  <2>1. \A j \in 1 .. i - 1 : j \in 1 .. k /\ j < i /\ L[j] < L[i] /\ L[j] \in S
    OBVIOUS
  <2>2. f \in [1 .. i - 1 -> A]
    BY <2>1
  <2>3. ASSUME NEW m \in A PROVE \E j \in 1 .. i - 1 : f[j] = m
    <3>1. PICK j \in 1 .. k : L[j] = m
      OBVIOUS
    <3>2. j \in 1 .. i - 1
      BY <1>3, <3>1
    <3> QED
      BY <3>1, <3>2
  <2>4. \A x, y \in 1 .. i - 1 : f[x] = f[y] => x = y
    BY <1>2, <2>1
  <2> HIDE DEF A, f
  <2>5. f \in Bijection(1 .. i - 1, A)
    BY <2>2, <2>3, <2>4 DEF Bijection, Injection, Surjection, IsInjective
  <2>6. ExistsBijection(1 .. i - 1, A) /\ i - 1 \in Nat
    BY <2>5 DEF ExistsBijection
  <2>7. Cardinality(A) = i - 1
    BY <2>6, FS_CountingElements
  <2> QED
    BY <2>7 DEF A, Below
<1>6. \A x, y \in S : Below(S, x) = Below(S, y) => x = y
  BY <1>4, EachPlaceTaken
<1>7. InOrder(S) = [i \in 1 .. k |-> CHOOSE n \in S : Below(S, n) = i - 1]
  BY <1>4 DEF InOrder, Below
<1>8. \A i \in 1 .. k : L[i] = CHOOSE n \in S : Below(S, n) = i - 1
  BY <1>5, <1>6
<1> QED
  BY <1>4, <1>7, <1>8

\* No number and one number.
LEMMA InOrderOfFew ==
    /\ InOrder({}) = <<>>
    /\ \A n \in Nat : InOrder({n}) = <<n>> /\ Cardinality({n}) = 1 /\ IsFiniteSet({n})
<1>1. InOrder({}) = <<>>
  BY FS_EmptySet DEF InOrder
<1>2. ASSUME NEW n \in Nat PROVE InOrder({n}) = <<n>>
  <2>1. <<n>> \in [1 .. 1 -> {n}] /\ {n} \in SUBSET Nat /\ 1 \in Nat
    OBVIOUS
  <2>2. \A i, j \in 1 .. 1 : i < j => <<n>>[i] < <<n>>[j]
    OBVIOUS
  <2>3. \A m \in {n} : \E i \in 1 .. 1 : <<n>>[i] = m
    OBVIOUS
  <2> QED
    BY <2>1, <2>2, <2>3, OnlyInOrder
<1> QED
  BY <1>1, <1>2, FS_Singleton

\* The values of M at the members of S, the least first.
Values(M, S) == [i \in 1 .. Cardinality(S) |-> M[InOrder(S)[i]]]

\* Where all of A is before all of B, the values at both are those at A and then
\* those at B.
LEMMA ValuesOfBoth ==
    ASSUME NEW A \in SUBSET Nat, NEW B \in SUBSET Nat, IsFiniteSet(A), IsFiniteSet(B),
           \A a \in A, b \in B : a < b, NEW M
    PROVE  /\ IsFiniteSet(A \cup B)
           /\ Values(M, A \cup B) = Values(M, A) \o Values(M, B)
<1> DEFINE k == Cardinality(A)
           l == Cardinality(B)
           K == InOrder(A)
           L == InOrder(B)
           J == [i \in 1 .. k + l |-> IF i <= k THEN K[i] ELSE L[i - k]]
<1>1. k \in Nat /\ l \in Nat
  BY FS_CardinalityType
<1>2. /\ K \in [1 .. k -> A] /\ L \in [1 .. l -> B]
      /\ \A i, j \in 1 .. k : i < j => K[i] < K[j]
      /\ \A i, j \in 1 .. l : i < j => L[i] < L[j]
      /\ \A n \in A : \E i \in 1 .. k : K[i] = n
      /\ \A n \in B : \E i \in 1 .. l : L[i] = n
  <2>1. Lists(K, A) /\ Lists(L, B)
    BY InOrderLists
  <2> QED
    BY <2>1 DEF Lists
<1>3. Values(M, A) = [i \in 1 .. k |-> M[K[i]]] /\ Values(M, B) = [i \in 1 .. l |-> M[L[i]]]
  BY DEF Values
<1> HIDE DEF k, l, K, L
<1>4. \A i \in 1 .. k + l : i \in 1 .. k \/ (~ (i <= k) /\ i - k \in 1 .. l)
  BY <1>1
<1>5. J \in [1 .. k + l -> A \cup B]
  BY <1>2, <1>4
<1>6. ASSUME NEW i \in 1 .. k + l, NEW j \in 1 .. k + l, i < j PROVE J[i] < J[j]
  <2>1. CASE j <= k
    <3>1. i \in 1 .. k /\ j \in 1 .. k
      BY <1>1, <1>6, <2>1
    <3> QED
      BY <1>2, <1>6, <3>1
  <2>2. CASE i <= k /\ ~ (j <= k)
    <3>1. K[i] \in A /\ L[j - k] \in B
      BY <1>1, <1>2, <1>4, <2>2
    <3> QED
      BY <2>2, <3>1
  <2>3. CASE ~ (i <= k)
    <3>1. /\ i - k \in 1 .. l /\ j - k \in 1 .. l /\ i - k < j - k /\ ~ (j <= k)
      BY <1>1, <1>6, <2>3
    <3> QED
      BY <1>2, <2>3, <3>1
  <2> QED
    BY <1>1, <2>1, <2>2, <2>3
<1>7. ASSUME NEW n \in A \cup B PROVE \E i \in 1 .. k + l : J[i] = n
  <2>1. CASE n \in A
    <3>1. PICK i \in 1 .. k : K[i] = n
      BY <1>2, <2>1
    <3>2. i \in 1 .. k + l /\ i <= k
      BY <1>1
    <3> QED
      BY <3>1, <3>2
  <2>2. CASE n \in B
    <3>1. PICK i \in 1 .. l : L[i] = n
      BY <1>2, <2>2
    <3>2. k + i \in 1 .. k + l /\ ~ (k + i <= k) /\ (k + i) - k = i
      BY <1>1
    <3> QED
      BY <3>1, <3>2
  <2> QED
    BY <2>1, <2>2
<1>8. k + l \in Nat /\ A \cup B \in SUBSET Nat
  BY <1>1
<1>9. IsFiniteSet(A \cup B) /\ Cardinality(A \cup B) = k + l /\ J = InOrder(A \cup B)
  <2> HIDE DEF J
  <2> QED
    BY <1>5, <1>6, <1>7, <1>8, OnlyInOrder
<1>10. Values(M, A \cup B) = [i \in 1 .. k + l |-> M[J[i]]]
  BY <1>9 DEF Values
<1>11. \A i \in 1 .. k + l : M[J[i]] = IF i <= k THEN M[K[i]] ELSE M[L[i - k]]
  OBVIOUS
<1> DEFINE V == {M[n] : n \in A \cup B}
<1>12. /\ Values(M, A) \in Seq(V) /\ Values(M, B) \in Seq(V)
       /\ Values(M, A \cup B) \in Seq(V) /\ Len(Values(M, A \cup B)) = k + l
       /\ Len(Values(M, A)) = k /\ Len(Values(M, B)) = l
  <2>1. /\ \A i \in 1 .. k : M[K[i]] \in V
        /\ \A i \in 1 .. l : M[L[i]] \in V
        /\ \A i \in 1 .. k + l : M[J[i]] \in V
    BY <1>2, <1>5
  <2> HIDE DEF J, V
  <2>2. /\ Values(M, A) \in [1 .. k -> V] /\ Values(M, B) \in [1 .. l -> V]
        /\ Values(M, A \cup B) \in [1 .. k + l -> V]
    BY <1>3, <1>10, <2>1
  <2> QED
    BY <1>8, <1>1, <2>2, IsSequence
<1> HIDE DEF V
<1>13. /\ Values(M, A) \o Values(M, B) \in Seq(V)
       /\ Len(Values(M, A) \o Values(M, B)) = k + l
       /\ \A i \in 1 .. k + l : (Values(M, A) \o Values(M, B))[i] =
            IF i <= k THEN Values(M, A)[i] ELSE Values(M, B)[i - k]
  BY <1>12, ConcatProperties
<1> HIDE DEF J
<1>14. \A i \in 1 .. k + l :
         (IF i <= k THEN Values(M, A)[i] ELSE Values(M, B)[i - k]) = M[J[i]]
  BY <1>3, <1>4, <1>11
<1>15. \A i \in 1 .. k + l : Values(M, A \cup B)[i] = (Values(M, A) \o Values(M, B))[i]
  BY <1>10, <1>13, <1>14
<1> QED
  BY <1>9, <1>12, <1>13, <1>15, SeqEqual

-----------------------------------------------------------------------------
(* One sequence after the other *)

\* The sequence so far, after each of the parts.
Grows(f, parts, k) ==
    f[0] = <<>> /\ \A i \in 1 .. k : f[i] = f[i - 1] \o parts[i]

LEMMA JoinedSteps ==
    ASSUME NEW W, NEW parts \in Seq(Seq(W))
    PROVE  \E f \in [0 .. Len(parts) -> Seq(W)] :
               Grows(f, parts, Len(parts)) /\ Joined(parts) = f[Len(parts)]
<1> DEFINE n == Len(parts)
           T == {k \in Nat : k <= n => \E f \in [0 .. k -> Seq(W)] : Grows(f, parts, k)}
<1>1. n \in Nat /\ \A i \in 1 .. n : parts[i] \in Seq(W)
  BY ElementOfSeq
<1> HIDE DEF n
<1>2. 0 \in T
  <2> DEFINE f == [i \in 0 .. 0 |-> <<>>]
  <2>1. f \in [0 .. 0 -> Seq(W)] /\ Grows(f, parts, 0)
    BY DEF Grows
  <2> QED
    BY <2>1
<1>3. ASSUME NEW k \in Nat, k \in T PROVE k + 1 \in T
  <2> SUFFICES ASSUME k + 1 <= n PROVE \E f \in [0 .. k + 1 -> Seq(W)] : Grows(f, parts, k + 1)
    OBVIOUS
  <2>1. PICK f \in [0 .. k -> Seq(W)] : Grows(f, parts, k)
    BY <1>1, <1>3
  <2> DEFINE g == [i \in 0 .. k + 1 |-> IF i = k + 1 THEN f[k] \o parts[k + 1] ELSE f[i]]
  <2>2. f[k] \o parts[k + 1] \in Seq(W)
    <3>1. f[k] \in Seq(W) /\ parts[k + 1] \in Seq(W)
      BY <1>1
    <3> QED
      BY <3>1, ConcatProperties
  <2>3. g \in [0 .. k + 1 -> Seq(W)]
    BY <2>2
  <2>4. g[0] = <<>>
    BY <2>1 DEF Grows
  <2>5. ASSUME NEW i \in 1 .. k + 1 PROVE g[i] = g[i - 1] \o parts[i]
    <3>1. CASE i = k + 1
      <4>1. i \in 0 .. k + 1 /\ i - 1 = k /\ k \in 0 .. k + 1 /\ k # k + 1
        BY <3>1
      <4>2. g[i] = f[k] \o parts[k + 1] /\ g[k] = f[k]
        BY <3>1, <4>1
      <4> QED
        BY <3>1, <4>1, <4>2
    <3>2. CASE i \in 1 .. k
      <4>0. /\ i \in 0 .. k + 1 /\ i # k + 1
            /\ i - 1 \in 0 .. k + 1 /\ i - 1 # k + 1
        BY <3>2
      <4>1. g[i] = f[i] /\ g[i - 1] = f[i - 1]
        BY <4>0
      <4> QED
        BY <2>1, <3>2, <4>1 DEF Grows
    <3>3. i = k + 1 \/ i \in 1 .. k
      OBVIOUS
    <3> HIDE DEF g
    <3> QED
      BY <3>1, <3>2, <3>3
  <2> HIDE DEF g
  <2> QED
    BY <2>3, <2>4, <2>5 DEF Grows
<1>4. n \in T
  <2> HIDE DEF T
  <2> QED
    BY <1>1, <1>2, <1>3, AllNumbers
<1>5. PICK g \in [0 .. n -> Seq(W)] : Grows(g, parts, n)
  BY <1>1, <1>4
<1> DEFINE Step(f) == [i \in 0 .. n |-> IF i = 0 THEN <<>> ELSE f[i - 1] \o parts[i]]
           U == CHOOSE f : f = Step(f)
<1>6. Joined(parts) = U[n]
  BY DEF Joined, n
<1>7. g = Step(g)
  <2>1. ASSUME NEW i \in 0 .. n PROVE g[i] = Step(g)[i]
    <3>1. i = 0 \/ i \in 1 .. n
      BY <1>1
    <3> QED
      BY <1>5, <3>1 DEF Grows
  <2> QED
    BY <2>1
<1>8. U = Step(U)
  <2> HIDE DEF Step
  <2> QED
    BY <1>7
<1> HIDE DEF U
<1> DEFINE R == {k \in Nat : k <= n => U[k] = g[k]}
<1>9. 0 \in R
  BY <1>1, <1>5, <1>8 DEF Grows
<1>10. ASSUME NEW k \in Nat, k \in R PROVE k + 1 \in R
  <2> SUFFICES ASSUME k + 1 <= n PROVE U[k + 1] = g[k + 1]
    OBVIOUS
  <2>1. k + 1 \in 1 .. n /\ k + 1 \in 0 .. n /\ k + 1 # 0 /\ (k + 1) - 1 = k /\ U[k] = g[k]
    BY <1>1, <1>10
  <2>2. U[k + 1] = U[k] \o parts[k + 1]
    BY <1>8, <2>1
  <2>3. g[k + 1] = g[k] \o parts[k + 1]
    BY <1>5, <2>1 DEF Grows
  <2> QED
    BY <2>1, <2>2, <2>3
<1>11. n \in R
  <2> HIDE DEF R
  <2> QED
    BY <1>1, <1>9, <1>10, AllNumbers
<1> QED
  BY <1>1, <1>5, <1>6, <1>11 DEF n

\* The values at a set are a sequence of as many.
LEMMA ValuesAre ==
    ASSUME NEW S \in SUBSET Nat, IsFiniteSet(S), NEW M, NEW W, \A n \in S : M[n] \in W
    PROVE  Values(M, S) \in Seq(W) /\ Len(Values(M, S)) = Cardinality(S)
<1>1. Cardinality(S) \in Nat /\ Lists(InOrder(S), S)
  BY FS_CardinalityType, InOrderLists
<1>2. \A i \in 1 .. Cardinality(S) : M[InOrder(S)[i]] \in W
  BY <1>1 DEF Lists
<1>3. Values(M, S) \in [1 .. Cardinality(S) -> W]
  BY <1>2 DEF Values
<1> QED
  BY <1>1, <1>3, IsSequence

\* Sets of numbers, each before the next.
Blocks(B, n) ==
    /\ B \in [1 .. n -> SUBSET Nat] /\ \A i \in 1 .. n : IsFiniteSet(B[i])
    /\ \A i, j \in 1 .. n : i < j => \A a \in B[i], b \in B[j] : a < b

AreValues(parts, M, B, n) == parts = [i \in 1 .. n |-> Values(M, B[i])]

\* The values at sets that are one before the other, one after the other, are the
\* values at all of them.
LEMMA JoinedBlocks ==
    ASSUME NEW M, NEW n \in Nat, NEW B, Blocks(B, n), NEW parts, AreValues(parts, M, B, n)
    PROVE  /\ IsFiniteSet(UNION {B[i] : i \in 1 .. n})
           /\ Joined(parts) = Values(M, UNION {B[i] : i \in 1 .. n})
<1> USE DEF Blocks, AreValues
<1> DEFINE Up(k) == UNION {B[i] : i \in 1 .. k}
           W == {M[x] : x \in Up(n)}
<1>1. ASSUME NEW i \in 1 .. n PROVE Values(M, B[i]) \in Seq(W)
  <2>1. B[i] \in SUBSET Nat /\ B[i] \subseteq Up(n)
    OBVIOUS
  <2>2. \A x \in B[i] : M[x] \in W
    BY <2>1
  <2> HIDE DEF W
  <2> QED
    BY <2>1, <2>2, ValuesAre
<1>2. parts \in Seq(Seq(W)) /\ Len(parts) = n
  <2> HIDE DEF W
  <2>1. parts \in [1 .. n -> Seq(W)]
    BY <1>1
  <2> QED
    BY <2>1, IsSequence
<1>3. PICK f : Grows(f, parts, n) /\ Joined(parts) = f[n]
  <2> HIDE DEF W
  <2> QED
    BY <1>2, JoinedSteps
<1> DEFINE T == {k \in Nat : k <= n => IsFiniteSet(Up(k)) /\ f[k] = Values(M, Up(k))}
<1>4. 0 \in T
  <2>1. Up(0) = {}
    OBVIOUS
  <2>2. Values(M, {}) = <<>>
    BY FS_EmptySet DEF Values
  <2> QED
    BY <1>3, <2>1, <2>2, FS_EmptySet DEF Grows
<1>5. ASSUME NEW k \in Nat, k \in T PROVE k + 1 \in T
  <2> SUFFICES ASSUME k + 1 <= n
               PROVE  IsFiniteSet(Up(k + 1)) /\ f[k + 1] = Values(M, Up(k + 1))
    OBVIOUS
  <2>1. k + 1 \in 1 .. n /\ k <= n /\ (k + 1) - 1 = k /\ \A i \in 1 .. k : i \in 1 .. n /\ i < k + 1
    OBVIOUS
  <2>2. Up(k + 1) = Up(k) \cup B[k + 1]
    <3>1. 1 .. k + 1 = (1 .. k) \cup {k + 1}
      OBVIOUS
    <3> QED
      BY <3>1
  <2>3. Up(k) \in SUBSET Nat /\ B[k + 1] \in SUBSET Nat /\ IsFiniteSet(B[k + 1])
    BY <2>1
  <2>4. \A a \in Up(k), b \in B[k + 1] : a < b
    BY <2>1
  <2>5. IsFiniteSet(Up(k)) /\ f[k] = Values(M, Up(k))
    BY <1>5, <2>1
  <2>6. f[k + 1] = f[k] \o Values(M, B[k + 1])
    BY <1>3, <2>1 DEF Grows
  <2> HIDE DEF Up
  <2>7. /\ IsFiniteSet(Up(k) \cup B[k + 1])
        /\ Values(M, Up(k) \cup B[k + 1]) = Values(M, Up(k)) \o Values(M, B[k + 1])
    <3> DEFINE A == Up(k)
               C == B[k + 1]
    <3>1. /\ A \in SUBSET Nat /\ IsFiniteSet(A) /\ C \in SUBSET Nat /\ IsFiniteSet(C)
          /\ \A x \in A, y \in C : x < y
      BY <2>3, <2>4, <2>5
    <3> HIDE DEF A, C
    <3>2. /\ IsFiniteSet(A \cup C)
          /\ Values(M, A \cup C) = Values(M, A) \o Values(M, C)
      BY <3>1, ValuesOfBoth
    <3> QED
      BY <3>2 DEF A, C
  <2> QED
    BY <2>2, <2>5, <2>6, <2>7
<1>6. n \in T
  <2> HIDE DEF T
  <2> QED
    BY <1>4, <1>5, AllNumbers
<1> QED
  BY <1>3, <1>6

-----------------------------------------------------------------------------
(* Trees *)

\* What IsTree says, node by node.
LEMMA TreeNodes ==
    ASSUME NEW t, IsTree(t)
    PROVE  /\ Len(t) \in Nat /\ 1 <= Len(t) /\ DOMAIN t = 1 .. Len(t)
           /\ \A n \in DOMAIN t : /\ n \in Nat /\ 1 <= n /\ t[n].parent \in Nat /\ t[n].parent < n
                                  /\ t[n].parent = 0 <=> n = 1
                                  /\ n # 1 => t[n].parent \in DOMAIN t
           /\ \A n, m \in DOMAIN t :
                t[n].parent < m /\ m < n => t[n].parent <= t[m].parent
<1>1. Len(t) \in Nat /\ DOMAIN t = 1 .. Len(t) /\ Len(t) # 0
  BY DEF IsTree
<1>2. \A n \in 2 .. Len(t) : /\ t[n].parent \in 1 .. n - 1
                             /\ \A m \in t[n].parent + 1 .. n - 1 : t[m].parent >= t[n].parent
  BY DEF IsTree
<1>3. t[1].parent = 0
  BY DEF IsTree
<1>4. ASSUME NEW n \in DOMAIN t
      PROVE  /\ n \in Nat /\ 1 <= n /\ t[n].parent \in Nat /\ t[n].parent < n
             /\ t[n].parent = 0 <=> n = 1
             /\ n # 1 => t[n].parent \in DOMAIN t
  <2>1. n = 1 \/ n \in 2 .. Len(t)
    BY <1>1
  <2> QED
    BY <1>1, <1>2, <1>3, <2>1
<1>5. ASSUME NEW n \in DOMAIN t, NEW m \in DOMAIN t, t[n].parent < m, m < n
      PROVE  t[n].parent <= t[m].parent
  <2>1. n \in 2 .. Len(t) /\ m \in t[n].parent + 1 .. n - 1
    BY <1>1, <1>4, <1>5
  <2>2. t[m].parent >= t[n].parent
    BY <1>2, <2>1
  <2> QED
    BY <1>4, <2>2
<1> QED
  BY <1>1, <1>4, <1>5

\* The nodes from n on, up to the first whose parent is before n: n and all below it.
Sub(t, n) == {m \in DOMAIN t : n <= m /\ \A k \in n + 1 .. m : n <= t[k].parent}

\* A node is in its part, with its children and, but for itself, its parent; and all
\* in the part of one of these.
LEMMA SubCloses ==
    ASSUME NEW t, IsTree(t), NEW n \in DOMAIN t
    PROVE  /\ n \in Sub(t, n)
           /\ \A m \in Sub(t, n) : \A c \in DOMAIN t : t[c].parent = m => c \in Sub(t, n)
           /\ \A m \in Sub(t, n) : m # n => t[m].parent \in Sub(t, n)
           /\ \A m \in Sub(t, n) : Sub(t, m) \subseteq Sub(t, n)
<1>0. n \in Nat /\ DOMAIN t = 1 .. Len(t) /\ Len(t) \in Nat
  BY TreeNodes
<1>1. n \in Sub(t, n)
  BY <1>0 DEF Sub
<1>2. ASSUME NEW m \in Sub(t, n), NEW c \in DOMAIN t, t[c].parent = m PROVE c \in Sub(t, n)
  <2>1. /\ m \in DOMAIN t /\ n <= m /\ \A k \in n + 1 .. m : n <= t[k].parent
        /\ m < c /\ c \in Nat /\ m \in Nat
    BY <1>2, TreeNodes DEF Sub
  <2>2. ASSUME NEW k \in n + 1 .. c PROVE n <= t[k].parent
    <3>1. CASE k <= m
      BY <1>0, <2>1, <3>1
    <3>2. CASE m < k /\ k < c
      <4>1. k \in DOMAIN t
        BY <1>0, <2>1, <3>2
      <4>2. m <= t[k].parent /\ t[k].parent \in Nat
        BY <1>2, <3>2, <4>1, TreeNodes
      <4> QED
        BY <1>0, <2>1, <4>2
    <3>3. CASE k = c
      BY <1>2, <2>1, <3>3
    <3> QED
      BY <1>0, <2>1, <3>1, <3>2, <3>3
  <2>3. n <= c
    BY <1>0, <2>1
  <2> QED
    BY <2>2, <2>3 DEF Sub
<1>3. ASSUME NEW m \in Sub(t, n), m # n PROVE t[m].parent \in Sub(t, n)
  <2>1. m \in DOMAIN t /\ n < m /\ m \in Nat /\ \A k \in n + 1 .. m : n <= t[k].parent
    BY <1>0, <1>3, TreeNodes DEF Sub
  <2>2. n <= t[m].parent
    BY <1>0, <2>1
  <2>3. t[m].parent \in DOMAIN t /\ t[m].parent \in Nat /\ t[m].parent < m
    BY <1>0, <2>1, TreeNodes
  <2>4. \A k \in n + 1 .. t[m].parent : k \in n + 1 .. m
    BY <1>0, <2>1, <2>3
  <2> QED
    BY <2>1, <2>2, <2>3, <2>4 DEF Sub
<1>4. ASSUME NEW m \in Sub(t, n), NEW c \in Sub(t, m) PROVE c \in Sub(t, n)
  <2>1. /\ m \in Nat /\ n <= m /\ \A k \in n + 1 .. m : n <= t[k].parent
        /\ c \in DOMAIN t /\ c \in Nat /\ m <= c /\ \A k \in m + 1 .. c : m <= t[k].parent
    BY TreeNodes DEF Sub
  <2>2. ASSUME NEW k \in n + 1 .. c PROVE n <= t[k].parent
    <3>1. CASE k <= m
      BY <1>0, <2>1, <3>1
    <3>2. CASE m < k
      <4>1. m <= t[k].parent /\ k \in DOMAIN t
        BY <1>0, <2>1, <3>2
      <4>2. t[k].parent \in Nat
        BY <4>1, TreeNodes
      <4> QED
        BY <1>0, <2>1, <4>1, <4>2
    <3> QED
      BY <1>0, <2>1, <3>1, <3>2
  <2> QED
    BY <1>0, <2>1, <2>2 DEF Sub
<1> QED
  BY <1>1, <1>2, <1>3, <1>4

\* A later node that is not in the part of n comes after all of it.
LEMMA SubIsBefore ==
    ASSUME NEW t, IsTree(t), NEW n \in DOMAIN t, NEW b \in DOMAIN t, n < b, b \notin Sub(t, n)
    PROVE  \A x \in Sub(t, n) : x < b
<1> SUFFICES ASSUME NEW x \in Sub(t, n), ~ (x < b) PROVE FALSE
  OBVIOUS
<1>1. n \in Nat /\ b \in Nat /\ x \in Nat
  BY TreeNodes DEF Sub
<1>2. \A k \in n + 1 .. x : n <= t[k].parent
  BY DEF Sub
<1>3. \A k \in n + 1 .. b : k \in n + 1 .. x
  BY <1>1
<1> QED
  BY <1>1, <1>2, <1>3 DEF Sub

\* All but n in the part of n are in the parts of its children, which come one after
\* the other.
LEMMA SubOfChildren ==
    ASSUME NEW t, IsTree(t), NEW n \in DOMAIN t
    PROVE  /\ \A m \in Sub(t, n) : m # n => \E c \in DOMAIN t : t[c].parent = n /\ m \in Sub(t, c)
           /\ \A c, d \in DOMAIN t : t[c].parent = n /\ t[d].parent = n /\ c < d =>
                \A x \in Sub(t, c), y \in Sub(t, d) : x < y
<1>0. n \in Nat /\ DOMAIN t = 1 .. Len(t) /\ Len(t) \in Nat
  BY TreeNodes
<1>1. ASSUME NEW m \in Sub(t, n), m # n
      PROVE  \E c \in DOMAIN t : t[c].parent = n /\ m \in Sub(t, c)
  <2>1. m \in DOMAIN t /\ m \in Nat /\ n < m /\ \A k \in n + 1 .. m : n <= t[k].parent
    BY <1>0, <1>1, TreeNodes DEF Sub
  <2>2. \A k \in n + 1 .. m : k \in DOMAIN t
    BY <1>0, <2>1
  <2> DEFINE S == {m - k : k \in {k \in n + 1 .. m : t[k].parent = n}}
  <2>3. t[n + 1].parent = n
    <3>1. n + 1 \in n + 1 .. m
      BY <1>0, <2>1
    <3>2. n <= t[n + 1].parent /\ t[n + 1].parent < n + 1 /\ t[n + 1].parent \in Nat
      BY <2>1, <2>2, <3>1, TreeNodes
    <3> QED
      BY <1>0, <3>2
  <2>4. m - (n + 1) \in S /\ S \in SUBSET Nat
    BY <1>0, <2>1, <2>3
  <2>5. PICK s \in S : \A z \in S : s <= z
    BY <2>4, LeastNumber
  <2>6. PICK c \in n + 1 .. m : t[c].parent = n /\ s = m - c
    BY <2>5
  <2>7. ASSUME NEW k \in c + 1 .. m PROVE c <= t[k].parent
    <3>1. k \in n + 1 .. m /\ k \in DOMAIN t /\ c \in DOMAIN t /\ c < k /\ n < c
      BY <1>0, <2>1, <2>2, <2>6
    <3>2. t[k].parent # n
      <4>1. ~ (m - c <= m - k)
        BY <2>1, <3>1
      <4>2. m - k \notin S
        BY <2>5, <2>6, <4>1
      <4> QED
        BY <3>1, <4>2
    <3>3. n <= t[k].parent /\ t[k].parent \in Nat
      BY <2>1, <3>1, TreeNodes
    <3>4. t[k].parent < c => t[k].parent <= n
      BY <2>6, <3>1, TreeNodes
    <3> QED
      BY <1>0, <3>1, <3>2, <3>3, <3>4
  <2>8. c \in DOMAIN t /\ c <= m
    BY <2>2, <2>6
  <2>9. m \in Sub(t, c)
    BY <2>1, <2>7, <2>8 DEF Sub
  <2> QED
    BY <2>6, <2>8, <2>9
<1>2. ASSUME NEW c \in DOMAIN t, NEW d \in DOMAIN t, t[c].parent = n, t[d].parent = n, c < d,
             NEW x \in Sub(t, c), NEW y \in Sub(t, d)
      PROVE  x < y
  <2>1. n < c /\ c \in Nat /\ d \in Nat
    BY <1>2, TreeNodes
  <2>2. d \notin Sub(t, c)
    <3>1. d \in c + 1 .. d /\ ~ (c <= n)
      BY <1>0, <1>2, <2>1
    <3> QED
      BY <1>2, <3>1 DEF Sub
  <2>3. x < d
    BY <1>2, <2>2, SubIsBefore
  <2>4. d <= y /\ x \in Nat /\ y \in Nat
    BY TreeNodes DEF Sub
  <2> QED
    BY <2>1, <2>3, <2>4
<1> QED
  BY <1>1, <1>2

\* Above is what its name says.
LEMMA AboveAre ==
    ASSUME NEW t, IsTree(t), NEW n \in DOMAIN t
    PROVE  Above(t, n) = {a \in DOMAIN t : a # 1 /\ a # n /\ n \in Sub(t, a)}
<1> DEFINE A(m) == {a \in DOMAIN t : a # 1 /\ a # m /\ m \in Sub(t, a)}
           Step(f) == [m \in DOMAIN t |-> IF t[m].parent \in {0, 1} THEN {}
                                          ELSE {t[m].parent} \cup f[t[m].parent]]
           U == CHOOSE f : f = Step(f)
           h == [m \in DOMAIN t |-> A(m)]
<1>0. /\ DOMAIN t = 1 .. Len(t) /\ Len(t) \in Nat
      /\ \A m \in DOMAIN t : /\ m \in Nat /\ t[m].parent \in Nat /\ t[m].parent < m
                             /\ t[m].parent \notin {0, 1} => t[m].parent \in DOMAIN t
  BY TreeNodes
<1>1. Above(t, n) = U[n]
  BY DEF Above
<1>2. ASSUME NEW m \in DOMAIN t
      PROVE  A(m) = IF t[m].parent \in {0, 1} THEN {} ELSE {t[m].parent} \cup A(t[m].parent)
  <2>1. ASSUME NEW a \in A(m) PROVE t[m].parent \in Sub(t, a) /\ a <= t[m].parent /\ a > 1
    <3>1. t[m].parent \in Sub(t, a)
      BY SubCloses
    <3> QED
      BY <1>0, <3>1 DEF Sub
  <2>2. CASE t[m].parent \in {0, 1}
    <3>1. \A a \in A(m) : FALSE
      BY <2>1, <2>2, <1>0
    <3> QED
      BY <2>2, <3>1
  <2>3. CASE t[m].parent \notin {0, 1}
    <3>1. A(m) \subseteq {t[m].parent} \cup A(t[m].parent)
      BY <2>1
    <3>2. t[m].parent \in A(m)
      <4>1. t[m].parent \in DOMAIN t /\ t[m].parent \in Sub(t, t[m].parent)
        BY <1>0, <2>3, SubCloses
      <4>2. m \in Sub(t, t[m].parent)
        BY <4>1, SubCloses
      <4> QED
        BY <1>0, <2>3, <4>1, <4>2
    <3>3. ASSUME NEW a \in A(t[m].parent) PROVE a \in A(m)
      <4>1. a \in DOMAIN t /\ a # 1 /\ t[m].parent \in Sub(t, a)
        OBVIOUS
      <4>2. m \in Sub(t, a)
        BY <4>1, SubCloses
      <4>3. a <= t[m].parent
        BY <4>1 DEF Sub
      <4> QED
        BY <1>0, <4>1, <4>2, <4>3
    <3> HIDE DEF A
    <3> QED
      BY <2>3, <3>1, <3>2, <3>3
  <2> QED
    BY <2>2, <2>3
<1> HIDE DEF A
<1>3. h = Step(h)
  <2>1. ASSUME NEW m \in DOMAIN t PROVE h[m] = Step(h)[m]
    BY <1>0, <1>2
  <2> QED
    BY <2>1
<1>4. U = Step(U)
  <2> HIDE DEF Step
  <2> QED
    BY <1>3
<1> HIDE DEF U, h
<1> DEFINE T == {k \in Nat : \A m \in DOMAIN t : m <= k => U[m] = A(m)}
<1>5. 0 \in T
  BY <1>0
<1>6. ASSUME NEW k \in Nat, k \in T PROVE k + 1 \in T
  <2> SUFFICES ASSUME NEW m \in DOMAIN t, m <= k + 1 PROVE U[m] = A(m)
    OBVIOUS
  <2>1. t[m].parent \notin {0, 1} => U[t[m].parent] = A(t[m].parent)
    BY <1>0, <1>6
  <2>2. U[m] = IF t[m].parent \in {0, 1} THEN {} ELSE {t[m].parent} \cup U[t[m].parent]
    BY <1>4
  <2> QED
    BY <1>2, <2>1, <2>2
<1>7. n \in T
  <2> HIDE DEF T
  <2> QED
    BY <1>0, <1>5, <1>6, AllNumbers
<1>8. U[n] = A(n)
  BY <1>0, <1>7
<1> QED
  BY <1>1, <1>8 DEF A

-----------------------------------------------------------------------------
(* The walk *)

\* A node that the walk reports when it comes to it, and the symbol it reports.
Reported(t, n, cat) == KindOf(t, n, cat) # "none" \/ AssignedName(t, n, cat) # <<>>

SymbolFor(t, cat) ==
    [n \in DOMAIN t |->
       IF KindOf(t, n, cat) # "none"
       THEN Symbol(t, n, KindOf(t, n, cat), cat, NestedSymbols(t, n, KindOf(t, n, cat), cat))
       ELSE Assigned(t, n, cat)]

\* The nodes of a part that are reported: those below no other one there.
Tops(t, n, cat) ==
    {m \in Sub(t, n) : /\ Reported(t, m, cat)
                       /\ \A a \in Sub(t, n) : m \in Sub(t, a) /\ a # m => ~ Reported(t, a, cat)}

TopsBelow(t, n, cat) == UNION {Tops(t, c, cat) : c \in {m \in DOMAIN t : t[m].parent = n}}

\* A node that is reported hides all below it, another none of what is.
LEMMA TopsOf ==
    ASSUME NEW t, IsTree(t), NEW n \in DOMAIN t, NEW cat
    PROVE  Tops(t, n, cat) = IF Reported(t, n, cat) THEN {n} ELSE TopsBelow(t, n, cat)
<1>0. n \in Nat /\ n \in Sub(t, n) /\ \A m \in DOMAIN t : m \in Nat
  BY TreeNodes, SubCloses
<1>1. CASE Reported(t, n, cat)
  <2>1. \A m \in Tops(t, n, cat) : m = n
    BY <1>0, <1>1 DEF Tops
  <2>2. \A a \in Sub(t, n) : n \in Sub(t, a) => a = n
    BY <1>0 DEF Sub
  <2>3. n \in Tops(t, n, cat)
    BY <1>0, <1>1, <2>2 DEF Tops
  <2> QED
    BY <1>1, <2>1, <2>3
<1>2. CASE ~ Reported(t, n, cat)
  <2>1. ASSUME NEW m \in Tops(t, n, cat) PROVE m \in TopsBelow(t, n, cat)
    <3>1. m \in Sub(t, n) /\ m # n
      BY <1>2 DEF Tops
    <3>2. PICK c \in DOMAIN t : t[c].parent = n /\ m \in Sub(t, c)
      BY <3>1, SubOfChildren
    <3>3. Sub(t, c) \subseteq Sub(t, n)
      BY <1>0, <3>2, SubCloses
    <3>4. m \in Tops(t, c, cat)
      BY <3>2, <3>3 DEF Tops
    <3> QED
      BY <3>2, <3>4 DEF TopsBelow
  <2>2. ASSUME NEW m \in TopsBelow(t, n, cat) PROVE m \in Tops(t, n, cat)
    <3>1. PICK c \in DOMAIN t : t[c].parent = n /\ m \in Tops(t, c, cat)
      BY DEF TopsBelow
    <3>2. Sub(t, c) \subseteq Sub(t, n) /\ m \in Sub(t, c) /\ Reported(t, m, cat)
      BY <1>0, <3>1, SubCloses DEF Tops
    <3>3. ASSUME NEW a \in Sub(t, n), m \in Sub(t, a), a # m PROVE ~ Reported(t, a, cat)
      <4>1. CASE a = n
        BY <1>2, <4>1
      <4>2. CASE a # n
        <5>1. PICK d \in DOMAIN t : t[d].parent = n /\ a \in Sub(t, d)
          BY <4>2, SubOfChildren
        <5>2. m \in Sub(t, d)
          BY <3>3, <5>1, SubCloses
        <5>3. m \in Nat /\ ~ (m < m) /\ c \in Nat /\ d \in Nat
          BY <1>0, <3>2 DEF Sub
        <5>4. ~ (c < d) /\ ~ (d < c)
          BY <3>1, <3>2, <5>1, <5>2, <5>3, SubOfChildren
        <5>5. c = d
          BY <5>3, <5>4
        <5> QED
          BY <3>1, <3>3, <5>1, <5>5 DEF Tops
      <4> QED
        BY <4>1, <4>2
    <3> QED
      BY <3>2, <3>3 DEF Tops
  <2> QED
    BY <1>2, <2>1, <2>2
<1> QED
  BY <1>1, <1>2

\* The parts of a sequence of nodes are finite sets of numbers.
LEMMA TopsAreFinite ==
    ASSUME NEW t, IsTree(t), NEW S \in SUBSET DOMAIN t
    PROVE  S \in SUBSET Nat /\ IsFiniteSet(S)
<1>1. DOMAIN t = 1 .. Len(t) /\ Len(t) \in Nat
  BY TreeNodes
<1>2. IsFiniteSet(1 .. Len(t))
  BY <1>1, FS_Interval
<1> QED
  BY <1>1, <1>2, FS_Subset

\* What is found below a node, one child after the other, is what is to be
\* reported there, in the order of the text.
LEMMA ChildrenJoined ==
    ASSUME NEW t, IsTree(t), NEW n \in DOMAIN t, NEW cat, NEW M, NEW g,
           \A c \in DOMAIN t : t[c].parent = n => g[c] = Values(M, Tops(t, c, cat))
    PROVE  Joined([i \in DOMAIN Children(t, n) |-> g[Children(t, n)[i]]]) =
             Values(M, TopsBelow(t, n, cat))
<1> DEFINE Kids == {m \in DOMAIN t : t[m].parent = n}
           L == InOrder(Kids)
           k == Cardinality(Kids)
           B == [i \in 1 .. k |-> Tops(t, L[i], cat)]
           parts == [i \in 1 .. k |-> Values(M, B[i])]
<1>1. Kids \in SUBSET Nat /\ IsFiniteSet(Kids)
  BY TopsAreFinite
<1>2. k \in Nat /\ Lists(L, Kids)
  BY <1>1, FS_CardinalityType, InOrderLists
<1>3. /\ L \in [1 .. k -> Kids]
      /\ \A i, j \in 1 .. k : i < j => L[i] < L[j]
      /\ \A c \in Kids : \E i \in 1 .. k : L[i] = c
  BY <1>2 DEF Lists
<1>4. Children(t, n) = L /\ DOMAIN L = 1 .. k
  BY <1>3 DEF Children
<1>5. \A c \in Kids : c \in DOMAIN t /\ t[c].parent = n
  OBVIOUS
<1>6. TopsBelow(t, n, cat) = UNION {Tops(t, c, cat) : c \in Kids}
  BY DEF TopsBelow
<1> HIDE DEF Kids, L, k
<1>7. \A c \in Kids : Tops(t, c, cat) \in SUBSET Nat /\ IsFiniteSet(Tops(t, c, cat))
  <2> TAKE c \in Kids
  <2>1. Tops(t, c, cat) \in SUBSET DOMAIN t
    BY DEF Tops, Sub
  <2> QED
    BY <2>1, TopsAreFinite
<1>8. B \in [1 .. k -> SUBSET Nat] /\ \A i \in 1 .. k : IsFiniteSet(B[i])
  BY <1>3, <1>7
<1>9. ASSUME NEW i \in 1 .. k, NEW j \in 1 .. k, i < j, NEW a \in B[i], NEW b \in B[j]
      PROVE  a < b
  <2>1. L[i] \in Kids /\ L[j] \in Kids /\ L[i] < L[j]
    BY <1>3, <1>9
  <2>2. a \in Sub(t, L[i]) /\ b \in Sub(t, L[j])
    BY <1>9 DEF Tops
  <2> QED
    BY <1>5, <2>1, <2>2, SubOfChildren
<1>10. UNION {B[i] : i \in 1 .. k} = TopsBelow(t, n, cat)
  <2>1. {B[i] : i \in 1 .. k} = {Tops(t, c, cat) : c \in Kids}
    BY <1>3
  <2> QED
    BY <1>6, <2>1
<1>11. [i \in DOMAIN Children(t, n) |-> g[Children(t, n)[i]]] = parts
  BY <1>3, <1>4, <1>5
<1>12. Joined(parts) = Values(M, UNION {B[i] : i \in 1 .. k})
  <2>1. Blocks(B, k)
    BY <1>8, <1>9 DEF Blocks
  <2>2. AreValues(parts, M, B, k)
    BY DEF AreValues
  <2> HIDE DEF B, parts
  <2> QED
    BY <1>2, <2>1, <2>2, JoinedBlocks
<1> QED
  BY <1>10, <1>11, <1>12

\* The walk finds the symbols of the nodes that are below no other one it reports, in
\* the order of the text (collect_symbols, collect_node_symbols).
LEMMA WalkFinds ==
    ASSUME NEW t, IsTree(t), NEW cat
    PROVE  CollectSymbols(t, cat) = Values(SymbolFor(t, cat), TopsBelow(t, 1, cat))
<1> DEFINE M == SymbolFor(t, cat)
           Step(f) ==
             [n \in DOMAIN t |->
                IF KindOf(t, n, cat) # "none"
                THEN <<Symbol(t, n, KindOf(t, n, cat), cat, NestedSymbols(t, n, KindOf(t, n, cat), cat))>>
                ELSE IF AssignedName(t, n, cat) # <<>>
                THEN <<Assigned(t, n, cat)>>
                ELSE Joined([i \in DOMAIN Children(t, n) |-> f[Children(t, n)[i]]])]
           U == CHOOSE f : f = Step(f)
           V(n) == Values(M, Tops(t, n, cat))
           h == [n \in DOMAIN t |-> V(n)]
<1>0. /\ DOMAIN t = 1 .. Len(t) /\ Len(t) \in Nat /\ 1 \in DOMAIN t
      /\ \A n \in DOMAIN t : n \in Nat /\ t[n].parent < n /\ t[n].parent \in Nat
  BY TreeNodes
<1>1. CollectSymbols(t, cat) = Joined([i \in DOMAIN Children(t, 1) |-> U[Children(t, 1)[i]]])
  BY DEF CollectSymbols
<1>2. ASSUME NEW f, NEW n \in DOMAIN t, \A c \in DOMAIN t : t[c].parent = n => f[c] = V(c)
      PROVE  Step(f)[n] = V(n)
  <2>1. Tops(t, n, cat) = IF Reported(t, n, cat) THEN {n} ELSE TopsBelow(t, n, cat)
    BY TopsOf
  <2>2. CASE Reported(t, n, cat)
    <3>1. V(n) = [i \in 1 .. 1 |-> M[n]]
      <4>1. InOrder({n}) = <<n>> /\ Cardinality({n}) = 1
        BY <1>0, InOrderOfFew
      <4> QED
        BY <2>1, <2>2, <4>1 DEF Values
    <3>2. Step(f)[n] = <<M[n]>>
      BY <2>2 DEF Reported, SymbolFor
    <3> QED
      BY <3>1, <3>2
  <2>3. CASE ~ Reported(t, n, cat)
    <3>1. Step(f)[n] = Joined([i \in DOMAIN Children(t, n) |-> f[Children(t, n)[i]]])
      BY <2>3 DEF Reported
    <3>2. Joined([i \in DOMAIN Children(t, n) |-> f[Children(t, n)[i]]]) =
            Values(M, TopsBelow(t, n, cat))
      <4> HIDE DEF M
      <4> QED
        BY <1>2, ChildrenJoined
    <3> QED
      BY <2>1, <2>3, <3>1, <3>2
  <2> QED
    BY <2>2, <2>3
<1>3. \A f : Step(f) = [n \in DOMAIN t |-> Step(f)[n]]
  OBVIOUS
<1> HIDE DEF Step
<1>4. h = Step(h)
  <2>1. \A c \in DOMAIN t : h[c] = V(c)
    OBVIOUS
  <2> HIDE DEF h
  <2>2. ASSUME NEW n \in DOMAIN t PROVE Step(h)[n] = V(n)
    BY <1>2, <2>1
  <2> QED
    BY <1>3, <2>2 DEF h
<1>5. U = Step(U)
  BY <1>4
<1> HIDE DEF U, V
<1> DEFINE T == {k \in Nat : \A n \in DOMAIN t : Len(t) - k < n => U[n] = V(n)}
<1>6. 0 \in T
  BY <1>0
<1>7. ASSUME NEW k \in Nat, k \in T PROVE k + 1 \in T
  <2> SUFFICES ASSUME NEW n \in DOMAIN t, Len(t) - (k + 1) < n PROVE U[n] = V(n)
    OBVIOUS
  <2>1. ASSUME NEW c \in DOMAIN t, t[c].parent = n PROVE U[c] = V(c)
    <3>1. Len(t) - k < c
      BY <1>0, <2>1
    <3> QED
      BY <1>7, <3>1
  <2> QED
    BY <1>2, <1>5, <2>1
<1>8. Len(t) \in T
  <2> HIDE DEF T
  <2> QED
    BY <1>0, <1>6, <1>7, AllNumbers
<1>9. \A n \in DOMAIN t : U[n] = V(n)
  BY <1>0, <1>8
<1>10. Joined([i \in DOMAIN Children(t, 1) |-> U[Children(t, 1)[i]]]) =
         Values(M, TopsBelow(t, 1, cat))
  <2> HIDE DEF M
  <2> QED
    BY <1>0, <1>9, ChildrenJoined DEF V
<1> QED
  BY <1>1, <1>10

\* The nodes reported in a tree are the declared ones that are below no other.
LEMMA OutermostAre ==
    ASSUME NEW t, IsTree(t), NEW cat
    PROVE  /\ TopsBelow(t, 1, cat) \in SUBSET DOMAIN t
           /\ TopsBelow(t, 1, cat) = {n \in DOMAIN t : /\ Declared(t, n, cat)
                                                       /\ \A m \in Above(t, n) : ~Declared(t, m, cat)}
<1> DEFINE S == {n \in DOMAIN t : /\ Declared(t, n, cat)
                                  /\ \A m \in Above(t, n) : ~Declared(t, m, cat)}
<1>0. /\ DOMAIN t = 1 .. Len(t) /\ Len(t) \in Nat /\ 1 \in DOMAIN t
      /\ \A n \in DOMAIN t : n \in Nat /\ 1 <= n /\ t[n].parent < n /\ t[n].parent \in Nat
      /\ \A n \in DOMAIN t : n # 1 => 1 <= t[n].parent
  BY TreeNodes
<1>1. ASSUME NEW n \in DOMAIN t PROVE n \in Sub(t, 1)
  <2>1. \A k \in 1 + 1 .. n : k \in DOMAIN t /\ k # 1
    BY <1>0
  <2> QED
    BY <1>0, <2>1 DEF Sub
<1>2. ASSUME NEW m \in DOMAIN t
      PROVE  m \in S <=> /\ m # 1 /\ Reported(t, m, cat)
                         /\ \A a \in DOMAIN t : a # 1 /\ a # m /\ m \in Sub(t, a) => ~ Reported(t, a, cat)
  <2>1. Above(t, m) = {a \in DOMAIN t : a # 1 /\ a # m /\ m \in Sub(t, a)}
    BY AboveAre
  <2> QED
    BY <2>1 DEF Declared, Reported
<1> HIDE DEF S
<1>3. ASSUME NEW m \in TopsBelow(t, 1, cat) PROVE m \in S /\ m \in DOMAIN t
  <2>1. PICK c \in DOMAIN t : t[c].parent = 1 /\ m \in Tops(t, c, cat)
    BY DEF TopsBelow
  <2>2. m \in Sub(t, c) /\ Reported(t, m, cat) /\ m \in DOMAIN t
    BY <2>1 DEF Tops, Sub
  <2>3. m # 1
    BY <1>0, <2>1, <2>2 DEF Sub
  <2>4. ASSUME NEW a \in DOMAIN t, a # 1, a # m, m \in Sub(t, a) PROVE ~ Reported(t, a, cat)
    <3>1. PICK d \in DOMAIN t : t[d].parent = 1 /\ a \in Sub(t, d)
      BY <1>0, <1>1, <2>4, SubOfChildren
    <3>2. m \in Sub(t, d)
      BY <2>4, <3>1, SubCloses
    <3>3. m \in Nat /\ ~ (m < m) /\ c \in Nat /\ d \in Nat
      BY <1>0, <2>2
    <3>4. ~ (c < d) /\ ~ (d < c)
      BY <1>0, <2>1, <2>2, <3>1, <3>2, <3>3, SubOfChildren
    <3>5. c = d
      BY <3>3, <3>4
    <3> QED
      BY <2>1, <2>4, <3>1, <3>5 DEF Tops
  <2> QED
    BY <1>2, <2>2, <2>3, <2>4
<1>4. ASSUME NEW m \in DOMAIN t, m \in S PROVE m \in TopsBelow(t, 1, cat)
  <2>1. /\ m # 1 /\ Reported(t, m, cat)
        /\ \A a \in DOMAIN t : a # 1 /\ a # m /\ m \in Sub(t, a) => ~ Reported(t, a, cat)
    BY <1>2, <1>4
  <2>2. PICK c \in DOMAIN t : t[c].parent = 1 /\ m \in Sub(t, c)
    BY <1>0, <1>1, <2>1, SubOfChildren
  <2>3. \A a \in Sub(t, c) : a \in DOMAIN t /\ a # 1
    BY <1>0, <2>2 DEF Sub
  <2>4. m \in Tops(t, c, cat)
    BY <2>1, <2>2, <2>3 DEF Tops
  <2> QED
    BY <2>2, <2>4 DEF TopsBelow
<1>5. S \subseteq DOMAIN t
  BY DEF S
<1>6. TopsBelow(t, 1, cat) = S
  BY <1>3, <1>4, <1>5
<1> QED
  BY <1>5, <1>6 DEF S

\* The walk reports the outermost declarations, each once, in the order of the text.
LEMMA WalkFindsOutermost ==
    ASSUME NEW t, IsTree(t), NEW lang
    PROVE  [i \in DOMAIN Symbols(t, lang) |-> Symbols(t, lang)[i].node] = Outermost(t, lang)
<1> DEFINE cat == Category(lang)
           S == TopsBelow(t, 1, cat)
           M == SymbolFor(t, cat)
           k == Cardinality(S)
<1>1. S \in SUBSET Nat /\ IsFiniteSet(S) /\ S \in SUBSET DOMAIN t
  <2> HIDE DEF cat
  <2> QED
    BY OutermostAre, TopsAreFinite
<1>2. Outermost(t, lang) = InOrder(S)
  <2> HIDE DEF cat
  <2>1. Outermost(t, lang) = InOrder({n \in DOMAIN t : /\ Declared(t, n, cat)
                                         /\ \A m \in Above(t, n) : ~Declared(t, m, cat)})
    BY DEF Outermost, cat
  <2> QED
    BY <2>1, OutermostAre
<1>3. Symbols(t, lang) = Values(M, S)
  BY WalkFinds DEF Symbols
<1>4. \A n \in S : M[n].node = n
  BY <1>1 DEF SymbolFor, Symbol, Assigned
<1> HIDE DEF cat, S, M
<1>5. Lists(InOrder(S), S)
  BY <1>1, InOrderLists
<1> HIDE DEF k
<1>6. /\ InOrder(S) = [i \in 1 .. k |-> InOrder(S)[i]]
      /\ \A i \in 1 .. k : InOrder(S)[i] \in S
  BY <1>5 DEF Lists, k
<1>7. DOMAIN Values(M, S) = 1 .. k /\ \A i \in 1 .. k : Values(M, S)[i] = M[InOrder(S)[i]]
  BY DEF Values, k
<1>8. [i \in DOMAIN Values(M, S) |-> Values(M, S)[i].node] = [i \in 1 .. k |-> InOrder(S)[i]]
  BY <1>4, <1>6, <1>7
<1> QED
  BY <1>2, <1>3, <1>6, <1>8

-----------------------------------------------------------------------------
(* Rows *)

\* The nodes in the body of a container that become its children, and their symbols.
InnerOf(t, n, cat) ==
    IF KindOf(t, n, cat) \notin Containers THEN {}
    ELSE {m \in DOMAIN t : /\ t[m].parent = FindBody(t, n) /\ t[m].kind \in DOMAIN NestedTable[cat]
                           /\ ExtractName(t, m, NestedTable[cat][t[m].kind], cat) # <<>>}

NestedFor(t, cat) ==
    [m \in DOMAIN t |-> Symbol(t, m, NestedTable[cat][t[m].kind], cat, <<>>)]

\* The children of the symbol of a node.
LEMMA ChildrenAre ==
    ASSUME NEW t, IsTree(t), NEW n \in DOMAIN t, NEW cat
    PROVE  /\ SymbolFor(t, cat)[n].node = n
           /\ SymbolFor(t, cat)[n].children = Values(NestedFor(t, cat), InnerOf(t, n, cat))
<1> DEFINE S == InnerOf(t, n, cat)
           M == NestedFor(t, cat)
<1>1. S \in SUBSET DOMAIN t
  BY DEF InnerOf
<1>2. S \in SUBSET Nat /\ IsFiniteSet(S)
  BY <1>1, TopsAreFinite
<1>3. Lists(InOrder(S), S)
  BY <1>2, InOrderLists
<1>4. Values(M, {}) = <<>>
  BY FS_EmptySet DEF Values
<1>5. SymbolFor(t, cat)[n].node = n
  BY DEF SymbolFor, Symbol, Assigned
<1>6. CASE KindOf(t, n, cat) = "none"
  <2>1. S = {}
    BY <1>6 DEF InnerOf, Containers
  <2>2. SymbolFor(t, cat)[n].children = <<>>
    BY <1>6 DEF SymbolFor, Assigned
  <2> HIDE DEF M, S
  <2>3. SymbolFor(t, cat)[n].children = Values(M, S)
    BY <1>4, <2>1, <2>2
  <2> QED
    BY <1>5, <2>3 DEF M, S
<1>7. CASE KindOf(t, n, cat) # "none"
  <2>1. SymbolFor(t, cat)[n].children = NestedSymbols(t, n, KindOf(t, n, cat), cat)
    BY <1>7 DEF SymbolFor, Symbol
  <2>2. CASE KindOf(t, n, cat) \notin Containers
    <3>1. S = {} /\ NestedSymbols(t, n, KindOf(t, n, cat), cat) = <<>>
      BY <2>2 DEF InnerOf, NestedSymbols
    <3> HIDE DEF M, S
    <3>2. SymbolFor(t, cat)[n].children = Values(M, S)
      BY <1>4, <2>1, <3>1
    <3> QED
      BY <1>5, <3>2 DEF M, S
  <2>3. CASE KindOf(t, n, cat) \in Containers
    <3>1. S = {m \in DOMAIN t : /\ t[m].parent = FindBody(t, n) /\ t[m].kind \in DOMAIN NestedTable[cat]
                                /\ ExtractName(t, m, NestedTable[cat][t[m].kind], cat) # <<>>}
      BY <2>3 DEF InnerOf
    <3>2. NestedSymbols(t, n, KindOf(t, n, cat), cat) =
            [i \in DOMAIN InOrder(S) |->
               Symbol(t, InOrder(S)[i], NestedTable[cat][t[InOrder(S)[i]].kind], cat, <<>>)]
      BY <2>3, <3>1 DEF NestedSymbols
    <3> HIDE DEF S
    <3>3. /\ DOMAIN InOrder(S) = 1 .. Cardinality(S)
          /\ \A i \in 1 .. Cardinality(S) : InOrder(S)[i] \in DOMAIN t
      BY <1>1, <1>3 DEF Lists
    <3>4. \A i \in 1 .. Cardinality(S) : M[InOrder(S)[i]] =
            Symbol(t, InOrder(S)[i], NestedTable[cat][t[InOrder(S)[i]].kind], cat, <<>>)
      BY <3>3 DEF NestedFor
    <3> HIDE DEF M
    <3>5. Values(M, S) = NestedSymbols(t, n, KindOf(t, n, cat), cat)
      BY <3>2, <3>3, <3>4 DEF Values
    <3> QED
      BY <1>5, <2>1, <3>5 DEF M, S
  <2> QED
    BY <2>2, <2>3
<1> QED
  BY <1>6, <1>7

\* The children of a node's symbol are nodes below it.
LEMMA InnerIsBelow ==
    ASSUME NEW t, IsTree(t), NEW n \in DOMAIN t, NEW cat, NEW m \in InnerOf(t, n, cat)
    PROVE  m \in Sub(t, n) /\ n < m
<1> DEFINE b == FindBody(t, n)
<1>1. m \in DOMAIN t /\ t[m].parent = b
  BY DEF InnerOf
<1>2. n \in DOMAIN t /\ n # 0 /\ n \in Nat
  BY TreeNodes
<1>3. ASSUME NEW kind
      PROVE  ChildByKind(t, n, kind) = 0 \/ (ChildByKind(t, n, kind) \in DOMAIN t /\ t[ChildByKind(t, n, kind)].parent = n)
  <2> DEFINE found == {x \in DOMAIN t : t[x].parent = n /\ t[x].kind = kind}
  <2>1. ChildByKind(t, n, kind) = IF found = {} THEN 0
                                  ELSE CHOOSE x \in found : \A y \in found : x <= y
    BY DEF ChildByKind, FirstChild
  <2>2. found # {} => \E x \in found : \A y \in found : x <= y
    <3>1. found \in SUBSET Nat
      BY TreeNodes
    <3> QED
      BY <3>1, LeastNumber
  <2> QED
    BY <2>1, <2>2
<1>4. ASSUME NEW field
      PROVE  ChildByField(t, n, field) = 0 \/ (ChildByField(t, n, field) \in DOMAIN t /\ t[ChildByField(t, n, field)].parent = n)
  <2> DEFINE found == {x \in DOMAIN t : t[x].parent = n /\ t[x].field = field}
  <2>1. ChildByField(t, n, field) = IF found = {} THEN 0
                                  ELSE CHOOSE x \in found : \A y \in found : x <= y
    BY DEF ChildByField, FirstChild
  <2>2. found # {} => \E x \in found : \A y \in found : x <= y
    <3>1. found \in SUBSET Nat
      BY TreeNodes
    <3> QED
      BY <3>1, LeastNumber
  <2> QED
    BY <2>1, <2>2
<1>5. b = n \/ (b \in DOMAIN t /\ t[b].parent = n)
  <2> DEFINE s == <<ChildByField(t, n, "body"), ChildByKind(t, n, "declaration_list"),
                    ChildByKind(t, n, "class_body"), ChildByKind(t, n, "block"), n>>
             some == {i \in DOMAIN s : s[i] # 0}
  <2>1. b = IF some = {} THEN 0 ELSE s[CHOOSE i \in some : \A k \in some : i <= k]
    BY DEF FindBody, FirstOf
  <2>2. DOMAIN s = 1 .. 5
    OBVIOUS
  <2>3. s[5] = n /\ 5 \in 1 .. 5
    OBVIOUS
  <2>4. \A i \in 1 .. 5 : s[i] = 0 \/ s[i] = n \/ (s[i] \in DOMAIN t /\ t[s[i]].parent = n)
    BY <1>3, <1>4
  <2> HIDE DEF s
  <2>5. 5 \in some /\ some \in SUBSET Nat
    BY <1>2, <2>2, <2>3
  <2>6. \E i \in some : \A k \in some : i <= k
    BY <2>5, LeastNumber
  <2>7. \E i \in some : b = s[i]
    BY <2>1, <2>5, <2>6
  <2> QED
    BY <2>2, <2>4, <2>7
<1>6. b \in Sub(t, n)
  BY <1>2, <1>5, SubCloses
<1>7. m \in Sub(t, n)
  BY <1>1, <1>6, SubCloses
<1>8. b < m /\ n <= b /\ m \in Nat /\ b \in Nat
  BY <1>1, <1>2, <1>6, TreeNodes DEF Sub
<1> QED
  BY <1>2, <1>7, <1>8

\* The row of a node: its symbol if it is reported by itself, else a child's.
RowFor(t, cat) ==
    [n \in DOMAIN t |-> IF n \in TopsBelow(t, 1, cat) THEN SymbolFor(t, cat)[n]
                                                      ELSE NestedFor(t, cat)[n]]

\* The nodes with a row.
RowNodes(t, cat) == UNION {{n} \cup InnerOf(t, n, cat) : n \in TopsBelow(t, 1, cat)}

\* No node that is reported is below another.
LEMMA TopsApart ==
    ASSUME NEW t, IsTree(t), NEW cat, NEW n \in TopsBelow(t, 1, cat),
           NEW m \in TopsBelow(t, 1, cat), m \in Sub(t, n)
    PROVE  m = n
<1>1. /\ n \in DOMAIN t /\ m \in DOMAIN t /\ Declared(t, n, cat)
      /\ \A a \in Above(t, m) : ~ Declared(t, a, cat)
  BY OutermostAre
<1>2. Above(t, m) = {a \in DOMAIN t : a # 1 /\ a # m /\ m \in Sub(t, a)}
  BY <1>1, AboveAre
<1>3. n # 1
  BY <1>1 DEF Declared
<1> QED
  BY <1>1, <1>2, <1>3

\* The row of a node is of that node.
LEMMA RowsAreOfNodes ==
    ASSUME NEW t, IsTree(t), NEW cat
    PROVE  \A n \in DOMAIN t : RowFor(t, cat)[n].node = n
<1> SUFFICES ASSUME NEW n \in DOMAIN t PROVE RowFor(t, cat)[n].node = n
  OBVIOUS
<1>1. SymbolFor(t, cat)[n].node = n
  BY ChildrenAre
<1>2. NestedFor(t, cat)[n].node = n
  BY DEF NestedFor, Symbol
<1> QED
  BY <1>1, <1>2 DEF RowFor

\* A symbol and its children are the rows of its node and of those in its body.
LEMMA RowsOfOne ==
    ASSUME NEW t, IsTree(t), NEW cat, NEW n \in TopsBelow(t, 1, cat)
    PROVE  /\ {n} \cup InnerOf(t, n, cat) \in SUBSET Sub(t, n)
           /\ IsFiniteSet({n} \cup InnerOf(t, n, cat))
           /\ <<SymbolFor(t, cat)[n]>> \o SymbolFor(t, cat)[n].children =
                Values(RowFor(t, cat), {n} \cup InnerOf(t, n, cat))
<1> DEFINE A == InnerOf(t, n, cat)
           R == RowFor(t, cat)
           N == NestedFor(t, cat)
           M == SymbolFor(t, cat)
<1>0. n \in DOMAIN t /\ n \in Nat /\ A \in SUBSET DOMAIN t /\ n \in Sub(t, n)
  <2>1. n \in DOMAIN t
    BY OutermostAre
  <2>2. A \in SUBSET DOMAIN t
    BY DEF InnerOf
  <2> QED
    BY <2>1, <2>2, TreeNodes, SubCloses
<1>1. A \in SUBSET Nat /\ IsFiniteSet(A)
  BY <1>0, TopsAreFinite
<1>2. \A m \in A : m \in Sub(t, n) /\ n < m
  BY <1>0, InnerIsBelow
<1>3. \A m \in A : m \notin TopsBelow(t, 1, cat)
  BY <1>0, <1>1, <1>2, TopsApart
<1>4. M[n].children = Values(N, A)
  BY <1>0, ChildrenAre
<1>5. R[n] = M[n]
  BY <1>0 DEF RowFor
<1>6. \A m \in A : R[m] = N[m]
  BY <1>0, <1>3 DEF RowFor
<1> HIDE DEF A, R, N, M
<1>7. Values(R, A) = Values(N, A)
  <2>1. Lists(InOrder(A), A)
    BY <1>1, InOrderLists
  <2>2. \A i \in 1 .. Cardinality(A) : InOrder(A)[i] \in A
    BY <2>1 DEF Lists
  <2> QED
    BY <1>6, <2>2 DEF Values
<1>8. Values(R, {n}) = <<M[n]>>
  <2>1. InOrder({n}) = <<n>> /\ Cardinality({n}) = 1
    BY <1>0, InOrderOfFew
  <2>2. Values(R, {n}) = [i \in 1 .. 1 |-> R[<<n>>[i]]]
    BY <2>1 DEF Values
  <2>3. \A i \in 1 .. 1 : R[<<n>>[i]] = <<M[n]>>[i]
    BY <1>5
  <2>4. <<M[n]>> = [i \in 1 .. 1 |-> <<M[n]>>[i]]
    OBVIOUS
  <2> QED
    BY <2>2, <2>3, <2>4
<1>9. IsFiniteSet({n}) /\ {n} \in SUBSET Nat /\ \A a \in {n}, b \in A : a < b
  BY <1>0, <1>2, FS_Singleton
<1>10. /\ IsFiniteSet({n} \cup A)
       /\ Values(R, {n} \cup A) = Values(R, {n}) \o Values(R, A)
  BY <1>1, <1>9, ValuesOfBoth
<1>11. {n} \cup A \in SUBSET Sub(t, n)
  BY <1>0, <1>2
<1>12. <<M[n]>> \o M[n].children = Values(R, {n} \cup A)
  BY <1>4, <1>7, <1>8, <1>10
<1> QED
  BY <1>10, <1>11, <1>12 DEF A, R, M

\* The rows written for what the walk finds are those of its nodes and of the nodes in
\* their bodies, in the order of the text (insert_symbols_recursive).
LEMMA RowsAre ==
    ASSUME NEW t, IsTree(t), NEW cat
    PROVE  /\ RowNodes(t, cat) \in SUBSET DOMAIN t
           /\ Flattened(CollectSymbols(t, cat)) = Values(RowFor(t, cat), RowNodes(t, cat))
<1> DEFINE S == TopsBelow(t, 1, cat)
           M == SymbolFor(t, cat)
           R == RowFor(t, cat)
           L == InOrder(S)
           k == Cardinality(S)
           B == [i \in 1 .. k |-> {L[i]} \cup InnerOf(t, L[i], cat)]
           found == CollectSymbols(t, cat)
           parts == [i \in DOMAIN found |-> <<found[i]>> \o found[i].children]
<1>1. S \in SUBSET DOMAIN t /\ S \in SUBSET Nat /\ IsFiniteSet(S)
  BY OutermostAre, TopsAreFinite
<1>2. found = Values(M, S)
  BY WalkFinds
<1>3. \A n \in S : /\ {n} \cup InnerOf(t, n, cat) \in SUBSET Sub(t, n)
                   /\ IsFiniteSet({n} \cup InnerOf(t, n, cat))
                   /\ <<M[n]>> \o M[n].children = Values(R, {n} \cup InnerOf(t, n, cat))
  BY RowsOfOne
<1>4. \A n, m \in S : n < m => \A x \in Sub(t, n) : x < m
  <2> SUFFICES ASSUME NEW n \in S, NEW m \in S, n < m PROVE \A x \in Sub(t, n) : x < m
    OBVIOUS
  <2>1. n \in Nat /\ n # m
    BY <1>1
  <2>2. m \notin Sub(t, n)
    BY <2>1, TopsApart
  <2> QED
    BY <1>1, <2>2, SubIsBefore
<1>5. k \in Nat /\ Lists(L, S)
  BY <1>1, FS_CardinalityType, InOrderLists
<1>6. RowNodes(t, cat) = UNION {{n} \cup InnerOf(t, n, cat) : n \in S}
  BY DEF RowNodes
<1>7. Flattened(found) = Joined(parts)
  BY DEF Flattened
<1> HIDE DEF found, S, M, R, L
<1>8. DOMAIN found = 1 .. k /\ \A i \in 1 .. k : found[i] = M[L[i]]
  BY <1>2 DEF Values, L
<1> HIDE DEF k
<1>9. /\ \A i \in 1 .. k : L[i] \in S
      /\ \A i, j \in 1 .. k : i < j => L[i] < L[j]
      /\ \A n \in S : \E i \in 1 .. k : L[i] = n
  BY <1>5 DEF Lists, k
<1>10. Blocks(B, k)
  <2>1. \A i \in 1 .. k : B[i] \in SUBSET Sub(t, L[i]) /\ IsFiniteSet(B[i])
    BY <1>3, <1>9
  <2>2. \A n \in S : Sub(t, n) \in SUBSET Nat /\ \A x \in Sub(t, n) : n <= x
    <3>1. \A n \in DOMAIN t : n \in Nat
      BY TreeNodes
    <3> QED
      BY <3>1 DEF Sub
  <2>3. B \in [1 .. k -> SUBSET Nat]
    BY <1>9, <2>1, <2>2
  <2>4. ASSUME NEW i \in 1 .. k, NEW j \in 1 .. k, i < j, NEW a \in B[i], NEW b \in B[j]
        PROVE  a < b
    <3>1. /\ L[i] \in S /\ L[j] \in S /\ L[i] < L[j]
          /\ a \in Sub(t, L[i]) /\ b \in Sub(t, L[j])
      BY <1>9, <2>1, <2>4
    <3>2. a < L[j] /\ L[j] <= b
      BY <1>4, <2>2, <3>1
    <3>3. a \in Nat /\ b \in Nat /\ L[j] \in Nat
      BY <1>1, <2>2, <3>1
    <3> QED
      BY <3>2, <3>3
  <2> HIDE DEF B
  <2> QED
    BY <2>1, <2>3, <2>4 DEF Blocks
<1>11. AreValues(parts, R, B, k)
  <2>1. \A i \in 1 .. k : <<found[i]>> \o found[i].children = Values(R, B[i])
    BY <1>3, <1>8, <1>9
  <2> QED
    BY <1>8, <2>1 DEF AreValues
<1>12. UNION {B[i] : i \in 1 .. k} = RowNodes(t, cat)
  <2>1. {B[i] : i \in 1 .. k} = {{n} \cup InnerOf(t, n, cat) : n \in S}
    BY <1>9
  <2> QED
    BY <1>6, <2>1
<1>13. Joined(parts) = Values(R, UNION {B[i] : i \in 1 .. k})
  <2> HIDE DEF B, parts
  <2> QED
    BY <1>5, <1>10, <1>11, JoinedBlocks
<1>14. RowNodes(t, cat) \in SUBSET DOMAIN t
  <2>1. \A n \in S : {n} \cup InnerOf(t, n, cat) \in SUBSET DOMAIN t
    BY <1>3 DEF Sub
  <2> QED
    BY <1>6, <2>1
<1> QED
  BY <1>7, <1>12, <1>13, <1>14 DEF found, R

\* Nothing found makes no rows.
LEMMA NothingHasNoRows == Flattened(<<>>) = <<>>
<1>1. Blocks(<<>>, 0) /\ AreValues(<<>>, <<>>, <<>>, 0) /\ UNION {<<>>[i] : i \in 1 .. 0} = {}
  BY DEF Blocks, AreValues
<1>2. Joined(<<>>) = Values(<<>>, {})
  BY <1>1, JoinedBlocks
<1>3. Values(<<>>, {}) = <<>>
  BY FS_EmptySet DEF Values
<1>4. [i \in DOMAIN <<>> |-> <<(<<>>)[i]>> \o (<<>>)[i].children] = <<>>
  OBVIOUS
<1> QED
  BY <1>2, <1>3, <1>4 DEF Flattened

\* No node has two rows.
LEMMA NodesReportedOnce ==
    ASSUME NEW t, IsTree(t), NEW cat
    PROVE  \A i, j \in DOMAIN Flattened(CollectSymbols(t, cat)) :
             Flattened(CollectSymbols(t, cat))[i].node = Flattened(CollectSymbols(t, cat))[j].node
               => i = j
<1> DEFINE S == RowNodes(t, cat)
           R == RowFor(t, cat)
           all == Flattened(CollectSymbols(t, cat))
<1>1. all = Values(R, S) /\ S \in SUBSET DOMAIN t
  BY RowsAre
<1>2. \A n \in S : R[n].node = n
  BY <1>1, RowsAreOfNodes
<1>3. Lists(InOrder(S), S) /\ Cardinality(S) \in Nat /\ S \in SUBSET Nat
  BY <1>1, TopsAreFinite, InOrderLists, FS_CardinalityType
<1> HIDE DEF S, R, all
<1> DEFINE L == InOrder(S)
<1>4. /\ \A i \in 1 .. Cardinality(S) : L[i] \in S /\ L[i] \in Nat
      /\ \A i, j \in 1 .. Cardinality(S) : i < j => L[i] < L[j]
  BY <1>3 DEF Lists
<1>5. DOMAIN all = 1 .. Cardinality(S) /\ \A i \in DOMAIN all : all[i] = R[L[i]]
  BY <1>1 DEF Values
<1> HIDE DEF L
<1>6. \A i \in DOMAIN all : all[i].node = L[i]
  BY <1>2, <1>4, <1>5
<1>7. ASSUME NEW i \in DOMAIN all, NEW j \in DOMAIN all, all[i].node = all[j].node PROVE i = j
  <2>1. L[i] = L[j] /\ L[i] \in Nat /\ ~ (L[i] < L[i])
    BY <1>4, <1>5, <1>6, <1>7
  <2>2. ~ (i < j) /\ ~ (j < i)
    BY <1>4, <1>5, <2>1
  <2> QED
    BY <1>3, <1>5, <2>2
<1> QED
  BY <1>7 DEF all

-----------------------------------------------------------------------------
(* Lines *)

\* The lines of a node hold those of all below it.
LEMMA LinesOfSub ==
    ASSUME NEW t, IsTree(t), LinesNest(t), NEW n \in DOMAIN t
    PROVE  /\ t[n].first \in Nat /\ t[n].last \in Nat /\ t[n].first <= t[n].last
           /\ \A m \in Sub(t, n) : t[n].first <= t[m].first /\ t[m].last <= t[n].last
<1>0. /\ n \in Nat
      /\ \A m \in DOMAIN t : m \in Nat /\ 1 <= m /\ t[m].parent \in Nat /\ t[m].parent < m
                             /\ (m # 1 => t[m].parent \in DOMAIN t /\ t[m].parent # 0)
  BY TreeNodes
<1>1. \A m \in DOMAIN t : t[m].first \in Nat /\ t[m].last \in Nat
  <2> SUFFICES ASSUME NEW m \in DOMAIN t PROVE t[m].first \in Nat /\ t[m].last \in Nat
    OBVIOUS
  <2> DEFINE X == [kind : STRING, parent : Nat, field : STRING, text : Int, first : Nat, last : Nat]
  <2>1. t \in Seq(X)
    BY DEF IsTree
  <2> HIDE DEF X
  <2>2. m \in 1 .. Len(t)
    BY TreeNodes
  <2>3. t[m] \in X
    BY <2>1, <2>2, ElementOfSeq
  <2> QED
    BY <2>3 DEF X
<1> DEFINE Within(m) == t[n].first <= t[m].first /\ t[m].last <= t[n].last
           T == {k \in Nat : \A m \in Sub(t, n) : m <= k => Within(m)}
<1>2. \A m \in Sub(t, n) : m \in DOMAIN t /\ n <= m
  BY DEF Sub
<1>3. 0 \in T
  BY <1>0, <1>2
<1>4. ASSUME NEW k \in Nat, k \in T PROVE k + 1 \in T
  <2> SUFFICES ASSUME NEW m \in Sub(t, n), m <= k + 1 PROVE Within(m)
    OBVIOUS
  <2>1. CASE m = n
    BY <1>1, <2>1
  <2>2. CASE m # n
    <3>1. t[m].parent \in Sub(t, n) /\ t[m].parent \in DOMAIN t
      BY <1>2, <2>2, SubCloses
    <3>2. m # 1 /\ t[m].parent <= k
      BY <1>0, <1>2, <2>2
    <3>3. Within(t[m].parent)
      BY <1>4, <3>1, <3>2
    <3>4. t[t[m].parent].first <= t[m].first /\ t[m].last <= t[t[m].parent].last
      BY <1>0, <1>2, <3>2 DEF LinesNest
    <3> QED
      BY <1>1, <1>2, <3>1, <3>3, <3>4
  <2> QED
    BY <2>1, <2>2
<1>5. \A k \in Nat : k \in T
  <2> HIDE DEF T
  <2> QED
    BY <1>3, <1>4, AllNumbers
<1>6. \A m \in Sub(t, n) : Within(m)
  BY <1>0, <1>2, <1>5
<1> QED
  BY <1>1, <1>6 DEF LinesNest

\* Symbols with their children: a symbol has lines, and those of its children are
\* among them.
HasLines(s) == s.node # 0 /\ s.first \in Nat /\ s.last \in Nat /\ s.first <= s.last

Nested(found) ==
    /\ \E k \in Nat : DOMAIN found = 1 .. k /\ Len(found) = k
    /\ \A i \in DOMAIN found :
         /\ HasLines(found[i])
         /\ \E k \in Nat : DOMAIN found[i].children = 1 .. k
         /\ \A j \in DOMAIN found[i].children :
              /\ HasLines(found[i].children[j])
              /\ found[i].first <= found[i].children[j].first
              /\ found[i].children[j].last <= found[i].last

\* The rows are the symbols and their children.
RowsOfFound(all, found) ==
    /\ \E k \in Nat : DOMAIN all = 1 .. k /\ Len(all) = k
    /\ \A j \in DOMAIN all : \E i \in DOMAIN found :
         \/ all[j] = found[i]
         \/ \E k \in DOMAIN found[i].children : all[j] = found[i].children[k]
    /\ \A i \in DOMAIN found :
         /\ \E j \in DOMAIN all : all[j] = found[i]
         /\ \A k \in DOMAIN found[i].children : \E j \in DOMAIN all : all[j] = found[i].children[k]

\* The values at a set, as a set.
LEMMA ValuesOccur ==
    ASSUME NEW S \in SUBSET Nat, IsFiniteSet(S), NEW M
    PROVE  /\ \E k \in Nat : DOMAIN Values(M, S) = 1 .. k /\ Len(Values(M, S)) = k
           /\ \A i \in DOMAIN Values(M, S) : \E n \in S : Values(M, S)[i] = M[n]
           /\ \A n \in S : \E i \in DOMAIN Values(M, S) : Values(M, S)[i] = M[n]
<1>1. Cardinality(S) \in Nat /\ Lists(InOrder(S), S)
  BY FS_CardinalityType, InOrderLists
<1> DEFINE W == {M[n] : n \in S}
<1>2. \A n \in S : M[n] \in W
  OBVIOUS
<1> HIDE DEF W
<1>3. Len(Values(M, S)) = Cardinality(S)
  BY <1>2, ValuesAre
<1> QED
  BY <1>1, <1>3 DEF Lists, Values

\* What the walk finds is nested, and its rows are what is found.
LEMMA FoundIsNested ==
    ASSUME NEW t, IsTree(t), LinesNest(t), NEW cat
    PROVE  /\ Nested(CollectSymbols(t, cat))
           /\ RowsOfFound(Flattened(CollectSymbols(t, cat)), CollectSymbols(t, cat))
<1> DEFINE S == TopsBelow(t, 1, cat)
           M == SymbolFor(t, cat)
           N == NestedFor(t, cat)
           R == RowFor(t, cat)
           I(n) == InnerOf(t, n, cat)
           found == CollectSymbols(t, cat)
           all == Flattened(found)
           U == RowNodes(t, cat)
<1>1. found = Values(M, S) /\ all = Values(R, U)
  BY WalkFinds, RowsAre
<1>2. S \in SUBSET DOMAIN t /\ S \in SUBSET Nat /\ IsFiniteSet(S)
  BY OutermostAre, TopsAreFinite
<1>3. U \in SUBSET Nat /\ IsFiniteSet(U)
  BY RowsAre, TopsAreFinite
<1>4. ASSUME NEW n \in S PROVE I(n) \in SUBSET DOMAIN t /\ I(n) \in SUBSET Nat /\ IsFiniteSet(I(n))
  BY TopsAreFinite DEF InnerOf
<1>5. ASSUME NEW n \in S
      PROVE  /\ M[n].children = Values(N, I(n)) /\ M[n].node = n
             /\ \A m \in I(n) : m \in Sub(t, n) /\ m \notin S
  <2>1. M[n].children = Values(N, I(n)) /\ M[n].node = n
    BY <1>2, ChildrenAre
  <2>2. \A m \in I(n) : m \in Sub(t, n) /\ n < m
    BY <1>2, InnerIsBelow
  <2>3. \A m \in I(n) : m \notin S
    BY <1>2, <2>2, TopsApart
  <2> QED
    BY <2>1, <2>2, <2>3
<1>6. \A n \in DOMAIN t : /\ M[n].first = t[n].first /\ M[n].last = t[n].last
                          /\ N[n].first = t[n].first /\ N[n].last = t[n].last /\ N[n].node = n
                          /\ n # 0
  <2>1. \A n \in DOMAIN t : n # 0
    BY TreeNodes
  <2> QED
    BY <2>1 DEF SymbolFor, NestedFor, Symbol, Assigned
<1>7. \A n \in S : R[n] = M[n]
  BY <1>2 DEF RowFor
<1>8. \A n \in S : \A m \in I(n) : R[m] = N[m]
  BY <1>4, <1>5 DEF RowFor
<1>9. U = UNION {{n} \cup I(n) : n \in S}
  BY DEF RowNodes
<1> HIDE DEF found, all, S, M, N, R, I, U
<1>10. /\ \E k \in Nat : DOMAIN found = 1 .. k /\ Len(found) = k
       /\ \A i \in DOMAIN found : \E n \in S : found[i] = M[n]
       /\ \A n \in S : \E i \in DOMAIN found : found[i] = M[n]
  BY <1>1, <1>2, ValuesOccur
<1>11. /\ \E k \in Nat : DOMAIN all = 1 .. k /\ Len(all) = k
       /\ \A j \in DOMAIN all : \E n \in U : all[j] = R[n]
       /\ \A n \in U : \E j \in DOMAIN all : all[j] = R[n]
  BY <1>1, <1>3, ValuesOccur
<1>12. ASSUME NEW n \in S
       PROVE  /\ \E k \in Nat : DOMAIN M[n].children = 1 .. k
              /\ \A j \in DOMAIN M[n].children : \E m \in I(n) : M[n].children[j] = N[m]
              /\ \A m \in I(n) : \E j \in DOMAIN M[n].children : M[n].children[j] = N[m]
  <2>1. M[n].children = Values(N, I(n))
    BY <1>5
  <2> QED
    BY <1>4, <2>1, ValuesOccur
<1>13. ASSUME NEW n \in S
       PROVE  /\ HasLines(M[n])
              /\ \A m \in I(n) : HasLines(N[m]) /\ M[n].first <= N[m].first /\ N[m].last <= M[n].last
  <2>1. n \in DOMAIN t
    BY <1>2
  <2>2. HasLines(M[n])
    BY <1>5, <1>6, <2>1, LinesOfSub DEF HasLines
  <2>3. ASSUME NEW m \in I(n) PROVE HasLines(N[m]) /\ M[n].first <= N[m].first /\ N[m].last <= M[n].last
    <3>1. m \in DOMAIN t /\ m \in Sub(t, n)
      BY <1>4, <1>5
    <3>2. HasLines(N[m])
      BY <1>6, <3>1, LinesOfSub DEF HasLines
    <3>3. t[n].first <= t[m].first /\ t[m].last <= t[n].last
      BY <2>1, <3>1, LinesOfSub
    <3> QED
      BY <1>6, <2>1, <3>1, <3>2, <3>3
  <2> QED
    BY <2>2, <2>3
<1>14. Nested(found)
  <2> SUFFICES ASSUME NEW i \in DOMAIN found
               PROVE  /\ HasLines(found[i])
                      /\ \E k \in Nat : DOMAIN found[i].children = 1 .. k
                      /\ \A j \in DOMAIN found[i].children :
                           /\ HasLines(found[i].children[j])
                           /\ found[i].first <= found[i].children[j].first
                           /\ found[i].children[j].last <= found[i].last
    BY <1>10 DEF Nested
  <2>1. PICK n \in S : found[i] = M[n]
    BY <1>10
  <2>2. \A j \in DOMAIN M[n].children :
            /\ HasLines(M[n].children[j])
            /\ M[n].first <= M[n].children[j].first
            /\ M[n].children[j].last <= M[n].last
    BY <1>12, <1>13
  <2> QED
    BY <1>12, <1>13, <2>1, <2>2
<1>15. RowsOfFound(all, found)
  <2>1. ASSUME NEW j \in DOMAIN all
        PROVE  \E i \in DOMAIN found :
                 \/ all[j] = found[i]
                 \/ \E k \in DOMAIN found[i].children : all[j] = found[i].children[k]
    <3>1. PICK m \in U : all[j] = R[m]
      BY <1>11
    <3>2. PICK n \in S : m = n \/ m \in I(n)
      BY <1>9
    <3>3. PICK i \in DOMAIN found : found[i] = M[n]
      BY <1>10
    <3>4. m = n => all[j] = found[i]
      BY <1>7, <3>1, <3>3
    <3>5. m \in I(n) => \E k \in DOMAIN found[i].children : all[j] = found[i].children[k]
      BY <1>8, <1>12, <3>1, <3>3
    <3> QED
      BY <3>2, <3>4, <3>5
  <2>2. ASSUME NEW i \in DOMAIN found
        PROVE  /\ \E j \in DOMAIN all : all[j] = found[i]
               /\ \A k \in DOMAIN found[i].children :
                    \E j \in DOMAIN all : all[j] = found[i].children[k]
    <3>1. PICK n \in S : found[i] = M[n]
      BY <1>10
    <3>2. n \in U /\ I(n) \subseteq U
      BY <1>9
    <3>3. \E j \in DOMAIN all : all[j] = found[i]
      BY <1>7, <1>11, <3>1, <3>2
    <3>4. ASSUME NEW k \in DOMAIN M[n].children PROVE \E j \in DOMAIN all : all[j] = M[n].children[k]
      <4>1. PICK m \in I(n) : M[n].children[k] = N[m]
        BY <1>12
      <4>2. m \in U /\ R[m] = N[m]
        BY <1>8, <3>2
      <4> QED
        BY <1>11, <4>1, <4>2
    <3> QED
      BY <3>1, <3>3, <3>4
  <2> QED
    BY <1>11, <2>1, <2>2 DEF RowsOfFound
<1> QED
  BY <1>14, <1>15 DEF found, all

-----------------------------------------------------------------------------
(* Names *)

\* The first child of any kind is a node, if there is one.
FoundFirst(t, found) == IF found = {} THEN 0 ELSE CHOOSE m \in found : \A k \in found : m <= k

LEMMA FirstIsNode ==
    ASSUME NEW t, IsTree(t), NEW found \in SUBSET DOMAIN t
    PROVE  FoundFirst(t, found) = 0 \/ FoundFirst(t, found) \in DOMAIN t
<1>1. found # {} => \E x \in found : \A y \in found : x <= y
  <2>1. found \in SUBSET Nat
    BY TreeNodes
  <2> QED
    BY <2>1, LeastNumber
<1> QED
  BY <1>1 DEF FoundFirst

\* A name is a sequence of texts.
LEMMA NamesAreTexts ==
    ASSUME NEW t, IsTree(t), NEW n \in DOMAIN t, NEW kind, NEW cat
    PROVE  ExtractName(t, n, kind, cat) \in Seq(Int) /\ AssignedName(t, n, cat) \in Seq(Int)
<1>1. \A m \in DOMAIN t : t[m].text \in Int
  <2> DEFINE X == [kind : STRING, parent : Nat, field : STRING, text : Int, first : Nat, last : Nat]
  <2>1. t \in Seq(X) /\ DOMAIN t = 1 .. Len(t)
    BY TreeNodes DEF IsTree
  <2> HIDE DEF X
  <2>2. \A m \in DOMAIN t : t[m] \in X
    BY <2>1, ElementOfSeq
  <2> QED
    BY <2>2 DEF X
<1>2. ASSUME NEW m PROVE NameFromNode(t, m) \in Seq(Int)
  <2> DEFINE byField == {x \in DOMAIN t : t[x].parent = m /\ t[x].field = "name"}
             byKind  == {x \in DOMAIN t : t[x].parent = m /\ t[x].kind \in
                            {"identifier", "type_identifier", "package_identifier"}}
             s    == <<FoundFirst(t, byField), FoundFirst(t, byKind)>>
             some == {i \in DOMAIN s : s[i] # 0}
             at   == FirstOf(s)
  <2>1. NameFromNode(t, m) = IF at = 0 THEN <<>> ELSE <<t[at].text>>
    BY DEF NameFromNode, ChildByField, FirstChild, FoundFirst
  <2>2. \A i \in 1 .. 2 : s[i] = 0 \/ s[i] \in DOMAIN t
    <3> HIDE DEF byField, byKind
    <3>1. byField \in SUBSET DOMAIN t /\ byKind \in SUBSET DOMAIN t
      BY DEF byField, byKind
    <3> QED
      BY <3>1, FirstIsNode
  <2>3. DOMAIN s = 1 .. 2
    OBVIOUS
  <2> HIDE DEF s
  <2>4. some # {} => \E i \in some : \A k \in some : i <= k
    <3>1. some \in SUBSET Nat
      BY <2>3
    <3> QED
      BY <3>1, LeastNumber
  <2>5. at = 0 \/ \E i \in 1 .. 2 : at = s[i]
    BY <2>3, <2>4 DEF FirstOf
  <2>6. at = 0 \/ at \in DOMAIN t
    BY <2>2, <2>5
  <2> HIDE DEF at
  <2> QED
    BY <1>1, <2>1, <2>6
<1>3. RustImplName(t, n) \in Seq(Int)
  <2> DEFINE S == {m \in DOMAIN t : t[m].parent = n /\ t[m].kind \in
                     {"type_identifier", "scoped_type_identifier", "generic_type"}}
             types == InOrder(S)
             w == IF Len(types) = 1 THEN 1 ELSE 2
             texts == [i \in 1 .. w |-> t[types[i]].text]
  <2>1. S \in SUBSET DOMAIN t /\ S \in SUBSET Nat /\ IsFiniteSet(S)
    BY TopsAreFinite
  <2>2. Lists(types, S) /\ Cardinality(S) \in Nat
    BY <2>1, InOrderLists, FS_CardinalityType
  <2>3. RustImplName(t, n) = IF types = <<>> THEN <<>> ELSE <<ImplWord>> \o texts
    BY DEF RustImplName
  <2> HIDE DEF S, types
  <2>4. types \in Seq(S) /\ Len(types) = Cardinality(S)
    BY <2>2, IsSequence DEF Lists
  <2>5. CASE types # <<>>
    <3>1. w \in 1 .. Len(types)
      BY <2>2, <2>4, <2>5
    <3>2. \A i \in 1 .. w : types[i] \in DOMAIN t
      BY <2>1, <2>4, <3>1
    <3> HIDE DEF w
    <3>3. texts \in Seq(Int)
      BY <1>1, <2>2, <2>4, <3>1, <3>2, IsSequence
    <3> HIDE DEF texts
    <3> QED
      BY <2>3, <2>5, <3>3 DEF ImplWord
  <2> QED
    BY <2>3, <2>5
<1>4. ExtractName(t, n, kind, cat) \in Seq(Int)
  <2>1. <<t[n].text>> \in Seq(Int)
    BY <1>1
  <2> QED
    BY <1>2, <1>3, <2>1 DEF ExtractName
<1>5. AssignedName(t, n, cat) \in Seq(Int)
  BY <1>2 DEF AssignedName
<1> QED
  BY <1>4, <1>5

\* The rows of a tree are a sequence of symbols with such names.
WellNamed(s) == \E W : s \in Seq(W) /\ \A w \in W : w.name \in Seq(Int)

LEMMA RowsAreNamed ==
    ASSUME NEW t, IsTree(t), NEW cat PROVE WellNamed(Flattened(CollectSymbols(t, cat)))
<1> DEFINE R == RowFor(t, cat)
           U == RowNodes(t, cat)
           W == {R[n] : n \in U}
<1>1. /\ Flattened(CollectSymbols(t, cat)) = Values(R, U)
      /\ U \in SUBSET DOMAIN t /\ U \in SUBSET Nat /\ IsFiniteSet(U)
  BY RowsAre, TopsAreFinite
<1>2. ASSUME NEW n \in DOMAIN t PROVE R[n].name \in Seq(Int)
  <2>1. \A kind : ExtractName(t, n, kind, cat) \in Seq(Int)
    BY NamesAreTexts
  <2>2. AssignedName(t, n, cat) \in Seq(Int)
    BY NamesAreTexts
  <2>3. SymbolFor(t, cat)[n].name \in Seq(Int)
    BY <2>1, <2>2 DEF SymbolFor, Symbol, Assigned
  <2>4. NestedFor(t, cat)[n].name \in Seq(Int)
    BY <2>1 DEF NestedFor, Symbol
  <2> QED
    BY <2>3, <2>4 DEF RowFor
<1> HIDE DEF R, U
<1>3. \A w \in W : w.name \in Seq(Int)
  BY <1>1, <1>2
<1>4. \A n \in U : R[n] \in W
  OBVIOUS
<1> HIDE DEF W
<1>5. Values(R, U) \in Seq(W)
  BY <1>1, <1>4, ValuesAre
<1> QED
  BY <1>1, <1>3, <1>5 DEF WellNamed

-----------------------------------------------------------------------------
(* What is in sequences that are joined *)

Occurs(w, s) == \E i \in DOMAIN s : s[i] = w

LEMMA OccursInBoth ==
    ASSUME NEW W, NEW a \in Seq(W), NEW b \in Seq(W), NEW w
    PROVE  Occurs(w, a \o b) <=> Occurs(w, a) \/ Occurs(w, b)
<1>1. Len(a) \in Nat /\ Len(b) \in Nat /\ a \o b \in Seq(W)
  OBVIOUS
<1>2. /\ DOMAIN a = 1 .. Len(a) /\ DOMAIN b = 1 .. Len(b)
      /\ DOMAIN (a \o b) = 1 .. Len(a) + Len(b)
      /\ \A i \in 1 .. Len(a) + Len(b) :
           (a \o b)[i] = IF i <= Len(a) THEN a[i] ELSE b[i - Len(a)]
  OBVIOUS
<1>3. ASSUME Occurs(w, a \o b) PROVE Occurs(w, a) \/ Occurs(w, b)
  <2>1. PICK i \in 1 .. Len(a) + Len(b) : (a \o b)[i] = w
    BY <1>2, <1>3 DEF Occurs
  <2>2. i \in 1 .. Len(a) \/ (i - Len(a) \in 1 .. Len(b) /\ ~ (i <= Len(a)))
    BY <1>1
  <2> QED
    BY <1>2, <2>1, <2>2 DEF Occurs
<1>4. ASSUME Occurs(w, a) PROVE Occurs(w, a \o b)
  <2>1. PICK i \in 1 .. Len(a) : a[i] = w
    BY <1>2, <1>4 DEF Occurs
  <2>2. i \in 1 .. Len(a) + Len(b) /\ i <= Len(a)
    BY <1>1
  <2> QED
    BY <1>2, <2>1, <2>2 DEF Occurs
<1>5. ASSUME Occurs(w, b) PROVE Occurs(w, a \o b)
  <2>1. PICK i \in 1 .. Len(b) : b[i] = w
    BY <1>2, <1>5 DEF Occurs
  <2>2. i + Len(a) \in 1 .. Len(a) + Len(b) /\ ~ (i + Len(a) <= Len(a)) /\ (i + Len(a)) - Len(a) = i
    BY <1>1
  <2> QED
    BY <1>2, <2>1, <2>2 DEF Occurs
<1> QED
  BY <1>3, <1>4, <1>5

\* What occurs in joined sequences occurs in one of them.
LEMMA JoinedOccur ==
    ASSUME NEW W, NEW parts \in Seq(Seq(W)), NEW w
    PROVE  /\ Joined(parts) \in Seq(W)
           /\ Occurs(w, Joined(parts)) <=> \E i \in DOMAIN parts : Occurs(w, parts[i])
<1> DEFINE n == Len(parts)
<1>1. n \in Nat /\ DOMAIN parts = 1 .. n /\ \A i \in 1 .. n : parts[i] \in Seq(W)
  BY ElementOfSeq
<1>2. PICK f \in [0 .. n -> Seq(W)] : Grows(f, parts, n) /\ Joined(parts) = f[n]
  BY JoinedSteps
<1> HIDE DEF n
<1> DEFINE T == {k \in Nat : k <= n => (Occurs(w, f[k]) <=> \E i \in 1 .. k : Occurs(w, parts[i]))}
<1>3. 0 \in T
  BY <1>2 DEF Grows, Occurs
<1>4. ASSUME NEW k \in Nat, k \in T PROVE k + 1 \in T
  <2> SUFFICES ASSUME k + 1 <= n
               PROVE  Occurs(w, f[k + 1]) <=> \E i \in 1 .. k + 1 : Occurs(w, parts[i])
    OBVIOUS
  <2>1. k + 1 \in 1 .. n /\ k \in 0 .. n /\ k <= n /\ (k + 1) - 1 = k
    BY <1>1
  <2>2. f[k + 1] = f[k] \o parts[k + 1] /\ f[k] \in Seq(W) /\ parts[k + 1] \in Seq(W)
    BY <1>1, <1>2, <2>1 DEF Grows
  <2>3. Occurs(w, f[k + 1]) <=> Occurs(w, f[k]) \/ Occurs(w, parts[k + 1])
    BY <2>2, OccursInBoth
  <2>4. Occurs(w, f[k]) <=> \E i \in 1 .. k : Occurs(w, parts[i])
    BY <1>4, <2>1
  <2>5. 1 .. k + 1 = (1 .. k) \cup {k + 1}
    OBVIOUS
  <2> QED
    BY <2>3, <2>4, <2>5
<1>5. n \in T
  <2> HIDE DEF T
  <2> QED
    BY <1>1, <1>3, <1>4, AllNumbers
<1>6. Occurs(w, f[n]) <=> \E i \in 1 .. n : Occurs(w, parts[i])
  BY <1>1, <1>5
<1> HIDE DEF T
<1>7. f[n] \in Seq(W) /\ Joined(parts) = f[n]
  BY <1>1, <1>2
<1> QED
  BY <1>1, <1>6, <1>7

=============================================================================
