------------------------- MODULE VibeBalanceProofs -------------------------
(* The contract keeps its books, for any number of accounts, users and calls *)
(* and batches of any length.                                                *)
EXTENDS VibeBalance, Integers, FiniteSetTheorems, WellFoundedInduction, TLAPS

(* Induction for a set of naturals, by way of a least counterexample: unlike *)
(* the library's NatInduction it has no operator parameter.                  *)

\* A set that contains 0 and is closed under successor contains every natural
\* number: the induction principle for the loop lemmas about the Move code.
THEOREM NatSetInduction ==
  ASSUME NEW S, 0 \in S, \A n \in Nat : n \in S => n + 1 \in S
  PROVE  Nat \subseteq S
PROOF
<1> DEFINE T == Nat \ S
<1> SUFFICES ASSUME T # {} PROVE FALSE
  OBVIOUS
<1>1. \E x \in T : \A y \in T : ~ (<<y, x>> \in OpToRel(<, Nat))
  <2> HIDE DEF T
  <2>1. T \subseteq Nat
    BY DEF T
  <2> QED
    BY <2>1, NatLessThanWellFounded, WFMin
<1>2. PICK x \in T : \A y \in T : ~ (<<y, x>> \in OpToRel(<, Nat))
  BY <1>1
<1>3. x \in Nat /\ x \notin S /\ x # 0
  OBVIOUS
<1>4. x - 1 \in Nat /\ (x - 1) + 1 = x /\ x - 1 < x
  BY <1>3
<1>5. x - 1 \in S
  BY <1>2, <1>3, <1>4 DEF OpToRel
<1> QED
  BY <1>3, <1>4, <1>5

-----------------------------------------------------------------------------
(* Sums over all users.  SumOver takes the entries of a function one by one; *)
(* Sums(f)[s] is the part of the sum that the keys in s give.                *)

Pick(s) == CHOOSE x \in s : TRUE
Sums(f) ==
    LET sum[s \in SUBSET DOMAIN f] == IF s = {} THEN 0 ELSE f[Pick(s)] + sum[s \ {Pick(s)}]
    IN  sum

\* SumOver, whose fold is written with operator arguments, is the sum of the entries
\* taken one at a time.
LEMMA SumOverIsSums ==
  ASSUME NEW f
  PROVE  SumOver(f) = Sums(f)[DOMAIN f]
PROOF
  BY DEF SumOver, FoldFunction, FoldFunctionOnSet, MapThenFoldSet, Sums, Pick

\* An element taken out of a non-empty finite set leaves a smaller one.
LEMMA PickLeavesLess ==
  ASSUME NEW s, IsFiniteSet(s), s # {}
  PROVE  /\ Pick(s) \in s
         /\ Cardinality(s) \in Nat /\ Cardinality(s \ {Pick(s)}) = Cardinality(s) - 1
PROOF
<1>1. Pick(s) \in s
  BY DEF Pick
<1>2. Cardinality(s \ {Pick(s)}) = Cardinality(s) - 1
  BY <1>1, FS_RemoveElement
<1> QED
  BY <1>1, <1>2, FS_CardinalityType

\* Induction over the subsets of a finite set by taking out the element a sum takes.
LEMMA SubsetInduction ==
  ASSUME NEW D, IsFiniteSet(D), NEW T, {} \in T,
         \A s \in SUBSET D : s # {} /\ s \ {Pick(s)} \in T => s \in T
  PROVE  SUBSET D \subseteq T
PROOF
<1> DEFINE S == {n \in Nat : \A s \in SUBSET D : Cardinality(s) = n => s \in T}
<1>1. 0 \in S
  <2> SUFFICES ASSUME NEW s \in SUBSET D, Cardinality(s) = 0 PROVE s \in T
    OBVIOUS
  <2>1. IsFiniteSet(s)
    BY FS_Subset
  <2>2. s = {}
    BY <2>1, FS_EmptySet
  <2> QED
    BY <2>2
<1>2. ASSUME NEW n \in Nat, n \in S PROVE n + 1 \in S
  <2> SUFFICES ASSUME NEW s \in SUBSET D, Cardinality(s) = n + 1 PROVE s \in T
    OBVIOUS
  <2>1. IsFiniteSet(s)
    BY FS_Subset
  <2>2. s # {}
    BY FS_EmptySet
  <2>3. Cardinality(s \ {Pick(s)}) = Cardinality(s) - 1
    BY <2>1, <2>2, PickLeavesLess
  <2>4. s \ {Pick(s)} \in T
    BY <1>2, <2>3
  <2> QED
    BY <2>2, <2>4
<1>3. Nat \subseteq S
  <2> HIDE DEF S
  <2> QED
    BY <1>1, <1>2, NatSetInduction
<1> SUFFICES ASSUME NEW s \in SUBSET D PROVE s \in T
  OBVIOUS
<1>4. Cardinality(s) \in Nat
  BY FS_Subset, FS_CardinalityType
<1> QED
  BY <1>3, <1>4

\* The recursive definition of the sums has a solution, so it may be unfolded.
LEMMA SumsUnfold ==
  ASSUME NEW f, IsFiniteSet(DOMAIN f)
  PROVE  /\ Sums(f)[{}] = 0
         /\ \A s \in SUBSET DOMAIN f :
              s # {} => Sums(f)[s] = f[Pick(s)] + Sums(f)[s \ {Pick(s)}]
PROOF
<1> DEFINE D == DOMAIN f
           Upto(n) == {s \in SUBSET D : Cardinality(s) <= n}
           Step(g, s) == IF s = {} THEN 0 ELSE f[Pick(s)] + g[s \ {Pick(s)}]
           Body(g, n) == [s \in Upto(n) |-> Step(g, s)]
           S == {n \in Nat : \E g : g = Body(g, n)}
<1>1. \A s \in SUBSET D : /\ IsFiniteSet(s) /\ Cardinality(s) \in Nat /\ Cardinality(s) <= Cardinality(D)
                          /\ (Cardinality(s) = 0 => s = {})
                          /\ (s # {} => Cardinality(s \ {Pick(s)}) = Cardinality(s) - 1)
  <2> TAKE s \in SUBSET D
  <2>1. IsFiniteSet(s) /\ Cardinality(s) <= Cardinality(D)
    BY FS_Subset
  <2>2. Cardinality(s) \in Nat /\ (Cardinality(s) = 0 => s = {})
    BY <2>1, FS_CardinalityType, FS_EmptySet
  <2>3. s # {} => Cardinality(s \ {Pick(s)}) = Cardinality(s) - 1
    BY <2>1, PickLeavesLess
  <2> QED
    BY <2>1, <2>2, <2>3
<1>2. 0 \in S
  <2> DEFINE g == [s \in Upto(0) |-> 0]
  <2>1. ASSUME NEW s \in Upto(0) PROVE s = {}
    <3>1. s \in SUBSET D /\ Cardinality(s) <= 0
      OBVIOUS
    <3>2. Cardinality(s) \in Nat /\ (Cardinality(s) = 0 => s = {})
      BY <1>1, <3>1
    <3> QED
      BY <3>1, <3>2
  <2>2. g = Body(g, 0)
    BY <2>1
  <2>3. \E h : h = Body(h, 0)
    <3> HIDE DEF g, Body
    <3> QED
      BY <2>2
  <2> QED
    BY <2>3
<1>3. ASSUME NEW n \in Nat, n \in S PROVE n + 1 \in S
  <2>1. PICK g : g = Body(g, n)
    BY <1>3
  <2> DEFINE h == [s \in Upto(n + 1) |-> IF s \in Upto(n) THEN g[s] ELSE Step(g, s)]
  <2>2. ASSUME NEW s \in Upto(n + 1) PROVE h[s] = Step(h, s)
    <3>1. CASE s = {}
      <4>1. s \in Upto(n)
        BY <1>1, <3>1, FS_EmptySet
      <4>2. h[s] = g[s] /\ g[s] = Step(g, s)
        BY <2>1, <4>1
      <4> QED
        BY <3>1, <4>2
    <3>2. CASE s # {}
      <4> DEFINE r == s \ {Pick(s)}
      <4>1. r \in Upto(n) /\ r \in Upto(n + 1)
        BY <1>1, <3>2
      <4>2. h[r] = g[r]
        BY <4>1
      <4>3. Step(h, s) = Step(g, s)
        BY <3>2, <4>2
      <4>4. CASE s \in Upto(n)
        <5>1. h[s] = g[s] /\ g[s] = Step(g, s)
          BY <2>1, <4>4
        <5> QED
          BY <4>3, <5>1
      <4>5. CASE s \notin Upto(n)
        <5>1. h[s] = Step(g, s)
          BY <4>5
        <5> QED
          BY <4>3, <5>1
      <4> QED
        BY <4>4, <4>5
    <3> QED
      BY <3>1, <3>2
  <2>3. h = Body(h, n + 1)
    <3>1. h = [s \in Upto(n + 1) |-> h[s]]
      OBVIOUS
    <3> HIDE DEF h, Upto, Step
    <3> QED
      BY <2>2, <3>1
  <2>4. \E k : k = Body(k, n + 1)
    <3> HIDE DEF h, Body
    <3> QED
      BY <2>3
  <2> HIDE DEF Body
  <2> QED
    BY <2>4
<1>4. Cardinality(D) \in S
  <2>1. Cardinality(D) \in Nat
    BY FS_CardinalityType
  <2> HIDE DEF S
  <2> QED
    BY <1>2, <1>3, <2>1, NatSetInduction
<1>5. Upto(Cardinality(D)) = SUBSET D
  BY <1>1
<1> DEFINE Whole(g) == [s \in SUBSET D |-> Step(g, s)]
<1>6. \E g : g = Whole(g)
  <2>1. PICK g : g = Body(g, Cardinality(D))
    BY <1>4
  <2>2. g = Whole(g)
    <3> HIDE DEF Step
    <3> QED
    BY <1>5, <2>1
  <2> HIDE DEF Whole
  <2> QED
    BY <2>2
<1>7. Sums(f) = CHOOSE g : g = Whole(g)
  BY DEF Sums
<1> DEFINE sum == Sums(f)
<1>8. sum = Whole(sum)
  BY <1>6, <1>7
<1> HIDE DEF sum
<1>9. sum[{}] = 0
  BY <1>8
<1>10. ASSUME NEW s \in SUBSET D, s # {} PROVE sum[s] = f[Pick(s)] + sum[s \ {Pick(s)}]
  BY <1>8, <1>10
<1> QED
  BY <1>9, <1>10 DEF sum

\* A sum of integers is an integer.
LEMMA SumsInt ==
  ASSUME NEW D, IsFiniteSet(D), NEW f \in [D -> Int]
  PROVE  \A s \in SUBSET D : Sums(f)[s] \in Int
PROOF
<1> DEFINE T == {s \in SUBSET D : Sums(f)[s] \in Int}
<1>1. DOMAIN f = D
  OBVIOUS
<1>2. /\ Sums(f)[{}] = 0
      /\ \A s \in SUBSET D : s # {} => Sums(f)[s] = f[Pick(s)] + Sums(f)[s \ {Pick(s)}]
  BY <1>1, SumsUnfold
<1>3. {} \in T
  BY <1>2
<1>4. ASSUME NEW s \in SUBSET D, s # {}, s \ {Pick(s)} \in T PROVE s \in T
  <2>1. Pick(s) \in D
    BY <1>4 DEF Pick
  <2>2. f[Pick(s)] \in Int /\ Sums(f)[s \ {Pick(s)}] \in Int
    BY <1>4, <2>1
  <2>3. Sums(f)[s] = f[Pick(s)] + Sums(f)[s \ {Pick(s)}]
    BY <1>2, <1>4
  <2>4. Sums(f)[s] \in Int
    BY <2>2, <2>3
  <2> QED
    BY <2>4
<1>5. SUBSET D \subseteq T
  <2> HIDE DEF T
  <2> QED
    BY <1>3, <1>4, SubsetInduction
<1> QED
  BY <1>5

\* Sums are added key by key.
LEMMA SumsAdd ==
  ASSUME NEW D, IsFiniteSet(D), NEW f \in [D -> Int], NEW g \in [D -> Int], NEW h \in [D -> Int],
         \A u \in D : h[u] = f[u] + g[u]
  PROVE  \A s \in SUBSET D : Sums(h)[s] = Sums(f)[s] + Sums(g)[s]
PROOF
<1> DEFINE T == {s \in SUBSET D : Sums(h)[s] = Sums(f)[s] + Sums(g)[s]}
<1>1. DOMAIN f = D /\ DOMAIN g = D /\ DOMAIN h = D
  OBVIOUS
<1>2. /\ Sums(f)[{}] = 0
      /\ \A s \in SUBSET D : s # {} => Sums(f)[s] = f[Pick(s)] + Sums(f)[s \ {Pick(s)}]
  BY <1>1, SumsUnfold
<1>3. /\ Sums(g)[{}] = 0
      /\ \A s \in SUBSET D : s # {} => Sums(g)[s] = g[Pick(s)] + Sums(g)[s \ {Pick(s)}]
  BY <1>1, SumsUnfold
<1>4. /\ Sums(h)[{}] = 0
      /\ \A s \in SUBSET D : s # {} => Sums(h)[s] = h[Pick(s)] + Sums(h)[s \ {Pick(s)}]
  BY <1>1, SumsUnfold
<1>5. {} \in T
  BY <1>2, <1>3, <1>4
<1>6. ASSUME NEW s \in SUBSET D, s # {}, s \ {Pick(s)} \in T PROVE s \in T
  <2> DEFINE r == s \ {Pick(s)}
             u == Pick(s)
  <2>1. u \in D
    BY <1>6 DEF Pick
  <2>2. f[u] \in Int /\ g[u] \in Int /\ h[u] = f[u] + g[u]
    BY <2>1
  <2>3. Sums(f)[r] \in Int /\ Sums(g)[r] \in Int
    BY SumsInt
  <2>4. Sums(h)[r] = Sums(f)[r] + Sums(g)[r]
    BY <1>6
  <2>5. /\ Sums(f)[s] = f[u] + Sums(f)[r] /\ Sums(g)[s] = g[u] + Sums(g)[r]
        /\ Sums(h)[s] = h[u] + Sums(h)[r]
    BY <1>2, <1>3, <1>4, <1>6
  <2> HIDE DEF r, u
  <2> QED
    BY <2>2, <2>3, <2>4, <2>5
<1>7. SUBSET D \subseteq T
  <2> HIDE DEF T
  <2> QED
    BY <1>5, <1>6, SubsetInduction
<1> QED
  BY <1>7

\* The sum of a function that is zero but at one key.
LEMMA SumsSingle ==
  ASSUME NEW D, IsFiniteSet(D), NEW f \in [D -> Int], NEW v \in D, \A u \in D \ {v} : f[u] = 0
  PROVE  \A s \in SUBSET D : Sums(f)[s] = IF v \in s THEN f[v] ELSE 0
PROOF
<1> DEFINE T == {s \in SUBSET D : Sums(f)[s] = IF v \in s THEN f[v] ELSE 0}
<1>1. DOMAIN f = D
  OBVIOUS
<1>2. /\ Sums(f)[{}] = 0
      /\ \A s \in SUBSET D : s # {} => Sums(f)[s] = f[Pick(s)] + Sums(f)[s \ {Pick(s)}]
  BY <1>1, SumsUnfold
<1>3. {} \in T
  BY <1>2
<1>4. ASSUME NEW s \in SUBSET D, s # {}, s \ {Pick(s)} \in T PROVE s \in T
  <2> DEFINE u == Pick(s)
  <2>1. u \in s /\ u \in D
    BY <1>4 DEF Pick
  <2>2. Sums(f)[s] = f[u] + Sums(f)[s \ {u}] /\ Sums(f)[s \ {u}] = IF v \in s \ {u} THEN f[v] ELSE 0
    BY <1>2, <1>4
  <2> HIDE DEF u
  <2>3. f[u] \in Int /\ f[v] \in Int /\ (u # v => f[u] = 0)
    BY <2>1
  <2> QED
    BY <2>1, <2>2, <2>3
<1>5. SUBSET D \subseteq T
  <2> HIDE DEF T
  <2> QED
    BY <1>3, <1>4, SubsetInduction
<1> QED
  BY <1>5

\* The sum of a constant.
LEMMA SumsConstant ==
  ASSUME NEW D, IsFiniteSet(D), NEW c \in Nat, NEW f, f = [u \in D |-> c]
  PROVE  \A s \in SUBSET D : Sums(f)[s] = Cardinality(s) * c
PROOF
<1> DEFINE T == {s \in SUBSET D : Sums(f)[s] = Cardinality(s) * c}
<1>1. DOMAIN f = D
  OBVIOUS
<1>2. /\ Sums(f)[{}] = 0
      /\ \A s \in SUBSET D : s # {} => Sums(f)[s] = f[Pick(s)] + Sums(f)[s \ {Pick(s)}]
  BY <1>1, SumsUnfold
<1>3. {} \in T
  <2>1. Cardinality({}) = 0
    BY FS_EmptySet
  <2>2. 0 * c = 0
    OBVIOUS
  <2> QED
    BY <1>2, <2>1, <2>2
<1>4. ASSUME NEW s \in SUBSET D, s # {}, s \ {Pick(s)} \in T PROVE s \in T
  <2> DEFINE n == Cardinality(s)
             m == Cardinality(s \ {Pick(s)})
  <2>1. IsFiniteSet(s)
    BY FS_Subset
  <2>2. Pick(s) \in s /\ n \in Nat /\ m = n - 1
    BY <1>4, <2>1, PickLeavesLess
  <2>3. f[Pick(s)] = c
    BY <2>2
  <2>4. Sums(f)[s] = c + Sums(f)[s \ {Pick(s)}] /\ Sums(f)[s \ {Pick(s)}] = m * c
    BY <1>2, <1>4, <2>3
  <2> HIDE DEF n, m
  <2>5. c + (n - 1) * c = n * c
    BY <2>2
  <2>6. Sums(f)[s] = n * c
    BY <2>2, <2>4, <2>5
  <2> QED
    BY <2>6 DEF n
<1>5. SUBSET D \subseteq T
  <2> HIDE DEF T
  <2> QED
    BY <1>3, <1>4, SubsetInduction
<1> QED
  BY <1>5

\* A sum of naturals is a natural number, and no part exceeds it.
LEMMA SumsBound ==
  ASSUME NEW D, IsFiniteSet(D), NEW f \in [D -> Nat]
  PROVE  \A s \in SUBSET D : Sums(f)[s] \in Nat /\ \A u \in s : f[u] <= Sums(f)[s]
PROOF
<1> DEFINE T == {s \in SUBSET D : Sums(f)[s] \in Nat /\ \A u \in s : f[u] <= Sums(f)[s]}
<1>1. DOMAIN f = D
  OBVIOUS
<1>2. /\ Sums(f)[{}] = 0
      /\ \A s \in SUBSET D : s # {} => Sums(f)[s] = f[Pick(s)] + Sums(f)[s \ {Pick(s)}]
  BY <1>1, SumsUnfold
<1>3. {} \in T
  BY <1>2
<1>4. ASSUME NEW s \in SUBSET D, s # {}, s \ {Pick(s)} \in T PROVE s \in T
  <2> DEFINE v == Pick(s)
             rest == Sums(f)[s \ {v}]
  <2>1. v \in s /\ v \in D
    BY <1>4 DEF Pick
  <2>2. Sums(f)[s] = f[v] + rest
    BY <1>2, <1>4
  <2>3. rest \in Nat /\ \A u \in s \ {v} : f[u] <= rest
    BY <1>4
  <2> HIDE DEF v, rest
  <2>4. f[v] \in Nat /\ \A u \in s : f[u] \in Nat
    BY <2>1
  <2>5. Sums(f)[s] \in Nat
    BY <2>2, <2>3, <2>4
  <2>6. ASSUME NEW u \in s PROVE f[u] <= Sums(f)[s]
    <3>1. CASE u = v
      BY <2>2, <2>3, <2>4, <3>1
    <3>2. CASE u # v
      BY <2>2, <2>3, <2>4, <3>2
    <3> QED
      BY <3>1, <3>2
  <2> QED
    BY <2>5, <2>6
<1>5. SUBSET D \subseteq T
  <2> HIDE DEF T
  <2> QED
    BY <1>3, <1>4, SubsetInduction
<1> QED
  BY <1>5

\* What the proofs of the contract use: SumOver of tables over the users is additive, adds
\* what is added to one entry, is the multiple of a constant entry, and bounds each entry.
LEMMA SumOverAdd ==
  ASSUME NEW f \in [Users -> Int], NEW g \in [Users -> Int], NEW h \in [Users -> Int],
         \A u \in Users : h[u] = f[u] + g[u]
  PROVE  SumOver(h) = SumOver(f) + SumOver(g)
PROOF
<1>1. DOMAIN f = Users /\ DOMAIN g = Users /\ DOMAIN h = Users
  OBVIOUS
<1>2. \A s \in SUBSET Users : Sums(h)[s] = Sums(f)[s] + Sums(g)[s]
  BY SupplyAssumption, SumsAdd
<1>3. Sums(h)[Users] = Sums(f)[Users] + Sums(g)[Users]
  BY <1>2
<1> QED
  BY <1>1, <1>3, SumOverIsSums

\* A sum over the users is an integer, and with d more at one entry d more.
LEMMA SumOverChange ==
  ASSUME NEW f \in [Users -> Int], NEW v \in Users, NEW d \in Int
  PROVE  SumOver(f) \in Int /\ SumOver([f EXCEPT ![v] = @ + d]) = SumOver(f) + d
PROOF
<1> DEFINE g == [u \in Users |-> IF u = v THEN d ELSE 0]
           h == [f EXCEPT ![v] = @ + d]
<1>1. g \in [Users -> Int] /\ h \in [Users -> Int] /\ \A u \in Users : h[u] = f[u] + g[u]
  OBVIOUS
<1>2. g[v] = d /\ \A u \in Users \ {v} : g[u] = 0
  OBVIOUS
<1>3. DOMAIN g = Users /\ DOMAIN f = Users
  OBVIOUS
<1> HIDE DEF g, h
<1>4. \A s \in SUBSET Users : Sums(g)[s] = IF v \in s THEN g[v] ELSE 0
  BY <1>1, <1>2, SumsSingle, SupplyAssumption
<1>5. SumOver(g) = d
  BY <1>2, <1>3, <1>4, SumOverIsSums
<1>6. SumOver(h) = SumOver(f) + SumOver(g)
  BY <1>1, SumOverAdd
<1>7. \A s \in SUBSET Users : Sums(f)[s] \in Int
  BY SumsInt, SupplyAssumption
<1>8. SumOver(f) \in Int
  BY <1>3, <1>7, SumOverIsSums
<1> QED
  BY <1>5, <1>6, <1>8 DEF h

\* The sum over the users of one amount.
LEMMA SumOverConstant ==
  ASSUME NEW c \in Nat
  PROVE  SumOver([u \in Users |-> c]) = Cardinality(Users) * c
PROOF
<1> DEFINE f == [u \in Users |-> c]
<1>1. DOMAIN f = Users
  OBVIOUS
<1>2. \A s \in SUBSET Users : Sums(f)[s] = Cardinality(s) * c
  BY SumsConstant, SupplyAssumption
<1> HIDE DEF f
<1>3. SumOver(f) = Cardinality(Users) * c
  BY <1>1, <1>2, SumOverIsSums
<1> QED
  BY <1>3 DEF f

\* Each entry is at most the sum.
LEMMA SumOverBound ==
  ASSUME NEW f \in [Users -> Nat], NEW v \in Users
  PROVE  SumOver(f) \in Nat /\ f[v] <= SumOver(f)
PROOF
<1>1. DOMAIN f = Users
  OBVIOUS
<1>2. \A s \in SUBSET Users : Sums(f)[s] \in Nat /\ \A u \in s : f[u] <= Sums(f)[s]
  BY SumsBound, SupplyAssumption
<1> QED
  BY <1>1, <1>2, SumOverIsSums

-----------------------------------------------------------------------------
(* The while loop of batch_deduct.                                           *)

\* A vector of at most MaxBatch elements is a function on 1..Len.
LEMMA VectorType ==
  ASSUME NEW S, NEW v \in Vectors(S)
  PROVE  Len(v) \in Nat /\ v \in [1..Len(v) -> S]
PROOF
<1>1. PICK n \in 0..MaxBatch : v \in [1..n -> S]
  BY DEF Vectors
<1>2. n \in Nat /\ v \in Seq(S)
  BY <1>1, U64Assumption
<1>3. Len(v) = n
  BY <1>1, <1>2
<1> QED
  BY <1>1, <1>2, <1>3

\* The recursive definition of the loop has a solution, so DeductLoop
\* satisfies its own equation: loop[i] is one iteration after loop[i - 1].
LEMMA LoopUnfolds ==
  ASSUME NEW bal, NEW tak, NEW p, NEW users, NEW tokens, Len(users) \in Nat
  PROVE  /\ DeductLoop(bal, tak, p, users, tokens)[0] = DeductStart(bal, tak)
         /\ \A i \in 1..Len(users) :
              DeductLoop(bal, tak, p, users, tokens)[i] =
                Deduct(DeductLoop(bal, tak, p, users, tokens)[i - 1], users[i], tokens[i], p)
PROOF
<1> DEFINE Step(s, i) == Deduct(s, users[i], tokens[i], p)
           Body(g, n) == [i \in 0..n |-> IF i = 0 THEN DeductStart(bal, tak) ELSE Step(g[i - 1], i)]
           S == {n \in Nat : \E g : g = Body(g, n)}
<1>1. 0 \in S
  <2> DEFINE g == [i \in 0..0 |-> DeductStart(bal, tak)]
  <2>1. g = Body(g, 0)
    OBVIOUS
  <2> QED
    BY <2>1
<1>2. ASSUME NEW n \in Nat, n \in S
      PROVE  n + 1 \in S
  <2> HIDE DEF Step
  <2>1. PICK g : g = Body(g, n)
    BY <1>2
  <2> DEFINE h == [i \in 0..(n + 1) |-> IF i <= n THEN g[i] ELSE Step(g[n], n + 1)]
  <2>2. \A i \in 0..(n + 1) : h[i] = IF i = 0 THEN DeductStart(bal, tak) ELSE Step(h[i - 1], i)
    <3> TAKE i \in 0..(n + 1)
    <3>1. CASE i = 0
      BY <2>1, <3>1
    <3>2. CASE i # 0 /\ i <= n
      <4>1. h[i] = g[i] /\ h[i - 1] = g[i - 1]
        BY <3>2
      <4>2. g[i] = Step(g[i - 1], i)
        BY <2>1, <3>2
      <4> QED
        BY <3>2, <4>1, <4>2
    <3>3. CASE i = n + 1
      <4>1. h[i] = Step(g[n], n + 1) /\ h[i - 1] = g[n]
        BY <3>3
      <4> QED
        BY <3>3, <4>1
    <3> QED
      BY <3>1, <3>2, <3>3
  <2>3. h = Body(h, n + 1)
    BY <2>2
  <2>4. \E f : f = Body(f, n + 1)
    <3> HIDE DEF h, Body
    <3> QED
      BY <2>3
  <2> QED
    BY <2>4
<1>3. Len(users) \in S
  <2> HIDE DEF S
  <2> QED
    BY <1>1, <1>2, NatSetInduction
<1>4. \E g : g = Body(g, Len(users))
  BY <1>3
<1>5. DeductLoop(bal, tak, p, users, tokens) = CHOOSE g : g = Body(g, Len(users))
  BY DEF DeductLoop
<1> DEFINE loop == DeductLoop(bal, tak, p, users, tokens)
<1>6. loop = Body(loop, Len(users))
  BY <1>4, <1>5
<1> HIDE DEF loop, Step
<1>7. loop[0] = DeductStart(bal, tak)
  BY <1>6
<1>8. ASSUME NEW i \in 1..Len(users) PROVE loop[i] = Step(loop[i - 1], i)
  BY <1>6
<1> QED
  BY <1>7, <1>8 DEF loop, Step

LoopStates ==
    [balances : [Users -> U64], taken : [Users -> Nat],
     totalTokens : Nat, totalCoins : Nat, alive : BOOLEAN]

\* What every state of the loop has in common with the tables it started from.
SameBooks(s, bal, tak) ==
    /\ s \in LoopStates
    /\ \A u \in Users : s.balances[u] + s.taken[u] = bal[u] + tak[u]
    /\ \A u \in Users : s.taken[u] >= tak[u]

\* A charge is a natural number.
LEMMA CoinsForNat ==
  ASSUME NEW tokens \in Nat, NEW p \in Nat
  PROVE  CoinsFor(tokens, p) \in Nat
PROOF
<1>1. tokens * p \in Nat
  OBVIOUS
<1> DEFINE prod == tokens * p
<1> HIDE DEF prod
<1>2. prod \in Nat
  BY <1>1 DEF prod
<1>3. prod \div Million \in Nat
  BY <1>2, U64Assumption
<1> QED
  BY <1>3 DEF CoinsFor, prod

\* One iteration of the loop moves coins from a balance to the charges of the
\* same user, or nothing.
LEMMA DeductKeepsBooks ==
  ASSUME NEW bal \in [Users -> U64], NEW tak \in [Users -> Nat],
         NEW s, SameBooks(s, bal, tak),
         NEW user \in Users, NEW tokens \in Nat, NEW p \in U64
  PROVE  SameBooks(Deduct(s, user, tokens, p), bal, tak)
PROOF
<1> DEFINE coins == CoinsFor(tokens, p)
<1>1. p \in Nat
  BY U64Assumption DEF U64
<1>2. coins \in Nat
  BY <1>1, CoinsForNat
<1> HIDE DEF coins
<1>3. s \in LoopStates
  BY DEF SameBooks
<1>4. CASE ~s.alive \/ tokens * p \notin U64
  <2>1. Deduct(s, user, tokens, p) = [s EXCEPT !.alive = FALSE]
    BY <1>4 DEF Deduct
  <2> QED
    BY <1>3, <2>1 DEF SameBooks, LoopStates
<1>5. CASE s.alive /\ tokens * p \in U64 /\ ~(coins > 0 /\ s.balances[user] >= coins)
  <2>1. Deduct(s, user, tokens, p) = s
    BY <1>5 DEF Deduct, coins
  <2> QED
    BY <2>1
<1>6. CASE s.alive /\ tokens * p \in U64 /\ coins > 0 /\ s.balances[user] >= coins
  <2> DEFINE t == Deducted(s, user, tokens, coins)
  <2>1. Deduct(s, user, tokens, p) = t
    BY <1>6 DEF Deduct, coins
  <2>2. /\ t.balances = [s.balances EXCEPT ![user] = @ - coins]
        /\ t.taken = [s.taken EXCEPT ![user] = @ + coins]
    BY <1>3 DEF Deducted, LoopStates
  <2>3. s.balances \in [Users -> U64] /\ s.taken \in [Users -> Nat]
    BY <1>3 DEF LoopStates
  <2>4. s.balances[user] - coins \in U64
    BY <1>2, <1>6, <2>3, U64Assumption DEF U64
  <2>5. t \in LoopStates
    <3>1. t.balances \in [Users -> U64] /\ t.taken \in [Users -> Nat]
      BY <1>2, <2>2, <2>3, <2>4
    <3>2. s.totalTokens + tokens \in Nat /\ s.totalCoins + coins \in Nat
      BY <1>2, <1>3 DEF LoopStates
    <3> QED
      BY <3>1, <3>2 DEF Deducted, LoopStates
  <2>6. \A u \in Users : t.balances[u] + t.taken[u] = bal[u] + tak[u] /\ t.taken[u] >= tak[u]
    <3> TAKE u \in Users
    <3>1. s.balances[u] \in Nat /\ s.taken[u] \in Nat /\ bal[u] \in Nat /\ tak[u] \in Nat
      BY <2>3, U64Assumption DEF U64
    <3>2. s.balances[u] + s.taken[u] = bal[u] + tak[u] /\ s.taken[u] >= tak[u]
      BY DEF SameBooks
    <3>3. CASE u = user
      BY <1>2, <2>2, <2>3, <3>1, <3>2, <3>3
    <3>4. CASE u # user
      BY <2>2, <2>3, <3>2, <3>4
    <3> QED
      BY <3>3, <3>4
  <2> HIDE DEF t
  <2> QED
    BY <2>1, <2>5, <2>6 DEF SameBooks
<1> QED
  BY <1>4, <1>5, <1>6

\* By induction over the iterations, the whole loop keeps the books.
LEMMA LoopKeepsBooks ==
  ASSUME NEW bal, NEW tak, NEW p, NEW n, NEW users, NEW tokens,
         bal \in [Users -> U64], tak \in [Users -> Nat], p \in U64,
         n \in Nat, users \in [1..n -> Users], tokens \in [1..n -> Nat],
         Len(users) = n
  PROVE  SameBooks(DeductResult(bal, tak, p, users, tokens), bal, tak)
PROOF
<1> DEFINE loop == DeductLoop(bal, tak, p, users, tokens)
           S == {i \in Nat : i <= n => SameBooks(loop[i], bal, tak)}
<1>1. /\ loop[0] = DeductStart(bal, tak)
      /\ \A i \in 1..n : loop[i] = Deduct(loop[i - 1], users[i], tokens[i], p)
  <2>1. Len(users) \in Nat
    OBVIOUS
  <2>2. /\ DeductLoop(bal, tak, p, users, tokens)[0] = DeductStart(bal, tak)
        /\ \A i \in 1..Len(users) :
             DeductLoop(bal, tak, p, users, tokens)[i] =
               Deduct(DeductLoop(bal, tak, p, users, tokens)[i - 1], users[i], tokens[i], p)
    BY ONLY <2>1, LoopUnfolds
  <2> QED
    BY <2>2
<1> HIDE DEF loop
<1>2. 0 \in S
  <2>1. loop[0] = DeductStart(bal, tak)
    BY <1>1
  <2> DEFINE s == DeductStart(bal, tak)
  <2>2. s \in LoopStates /\ s.balances = bal /\ s.taken = tak
    BY DEF DeductStart, LoopStates
  <2>3. SameBooks(s, bal, tak)
    <3> HIDE DEF s
    <3> QED
      BY <2>2 DEF SameBooks
  <2> QED
    BY <2>1, <2>3
<1>3. ASSUME NEW i \in Nat, i \in S
      PROVE  i + 1 \in S
  <2> SUFFICES ASSUME i + 1 <= n
               PROVE  SameBooks(loop[i + 1], bal, tak)
    OBVIOUS
  <2>1. loop[i + 1] = Deduct(loop[i], users[i + 1], tokens[i + 1], p)
    BY <1>1
  <2>2. SameBooks(loop[i], bal, tak)
    BY <1>3
  <2>3. users[i + 1] \in Users /\ tokens[i + 1] \in Nat
    OBVIOUS
  <2> QED
    BY <2>1, <2>2, <2>3, DeductKeepsBooks
<1>4. n \in S
  <2> HIDE DEF S
  <2> QED
    BY <1>2, <1>3, NatSetInduction
<1> QED
  BY <1>4 DEF DeductResult, loop

\* batch_deduct as a whole: the tables of the signer's store keep their types,
\* every balance plus charge is what it was, and no charge is taken back.
LEMMA BatchDeductEffect ==
  ASSUME ContractTypeOK,
         NEW admin \in Admins,
         NEW n \in Nat, NEW users \in [1..n -> Users], NEW tokens \in [1..n -> Nat],
         Len(users) = n,
         BatchDeduct(admin, users, tokens)
  PROVE  /\ balances' \in [Admins -> [Users -> U64]]
         /\ taken' \in [Admins -> [Users -> Nat]]
         /\ \A a \in Admins \ {admin} : balances'[a] = balances[a] /\ taken'[a] = taken[a]
         /\ \A u \in Users : /\ balances'[admin][u] + taken'[admin][u] = balances[admin][u] + taken[admin][u]
                             /\ taken'[admin][u] >= taken[admin][u]
PROOF
<1> DEFINE end == DeductResult(balances[admin], taken[admin], tokenPrice[admin], users, tokens)
<1>1. balances[admin] \in [Users -> U64] /\ taken[admin] \in [Users -> Nat] /\ tokenPrice[admin] \in U64
  BY DEF ContractTypeOK
<1>2. SameBooks(end, balances[admin], taken[admin])
  BY <1>1, LoopKeepsBooks
<1>3. balances' = [balances EXCEPT ![admin] = end.balances] /\ taken' = [taken EXCEPT ![admin] = end.taken]
  BY DEF BatchDeduct
<1> HIDE DEF end
<1>4. end.balances \in [Users -> U64] /\ end.taken \in [Users -> Nat]
  BY <1>2 DEF SameBooks, LoopStates
<1>5. balances \in [Admins -> [Users -> U64]] /\ taken \in [Admins -> [Users -> Nat]]
  BY DEF ContractTypeOK
<1>6. balances'[admin] = end.balances /\ taken'[admin] = end.taken
  BY <1>3, <1>5
<1> QED
  BY <1>2, <1>3, <1>4, <1>5, <1>6 DEF SameBooks

-----------------------------------------------------------------------------
(* The invariants.  A store that is not published yet has no entries, which  *)
(* is what makes Initialize harmless.                                        *)

UnpublishedEmpty ==
    \A a \in Admins \ stores : \A u \in Users : balances[a][u] = 0 /\ taken[a][u] = 0

ContractInv ==
    /\ ContractTypeOK
    /\ BalanceIsLedger
    /\ ForeignStoresEmpty
    /\ UnpublishedEmpty

\* The invariant holds of a contract nobody has initialized.
LEMMA ContractInitInv == ContractInit => ContractInv
PROOF
<1> SUFFICES ASSUME ContractInit PROVE ContractInv
  OBVIOUS
<1>1. 0 \in U64
  BY U64Assumption DEF U64
<1>2. ContractTypeOK
  BY <1>1, U64Assumption DEF ContractInit, ContractTypeOK
<1> QED
  BY <1>2 DEF ContractInit, ContractInv, BalanceIsLedger, ForeignStoresEmpty, UnpublishedEmpty

\* initialize publishes an empty store where there was none.
LEMMA InitializeInv ==
  ASSUME ContractInv, NEW admin \in Admins, Initialize(admin)
  PROVE  ContractInv'
PROOF
<1>1. 0 \in U64
  BY U64Assumption DEF U64
<1>2. ContractTypeOK'
  BY <1>1, U64Assumption DEF ContractInv, ContractTypeOK, Initialize
<1>3. \A a \in Admins, u \in Users : balances'[a][u] = balances[a][u]
  BY DEF ContractInv, ContractTypeOK, Initialize, UnpublishedEmpty
<1>4. treasury' \in [Admins -> U64] /\ \A a \in Admins \ {Contract} : treasury'[a] = 0
  BY <1>1 DEF ContractInv, ContractTypeOK, Initialize, ForeignStoresEmpty
<1>5. UNCHANGED <<paid, taken>> /\ stores' = stores \cup {admin}
  BY DEF Initialize
<1> QED
  BY <1>2, <1>3, <1>4, <1>5
     DEF ContractInv, BalanceIsLedger, ForeignStoresEmpty, UnpublishedEmpty

\* deposit credits the user with what it takes from their wallet.
LEMMA DepositInv ==
  ASSUME ContractInv, NEW user \in Users, NEW amount \in U64, Deposit(user, amount)
  PROVE  ContractInv'
PROOF
<1>1. Contract \in Admins /\ amount \in Nat
  BY ContractAssumption, U64Assumption DEF U64
<1>2. /\ balances \in [Admins -> [Users -> U64]] /\ paid \in [Admins -> [Users -> Nat]]
      /\ wallet \in [Users -> U64] /\ treasury \in [Admins -> U64]
      /\ taken \in [Admins -> [Users -> Nat]]
  BY DEF ContractInv, ContractTypeOK
<1>3. ContractTypeOK'
  <2>1. wallet[user] - amount \in U64
    BY <1>1, <1>2, U64Assumption DEF Deposit, U64
  <2>2. paid[Contract][user] + amount \in Nat
    BY <1>1, <1>2
  <2> QED
    BY <1>1, <1>2, <2>1, <2>2 DEF ContractInv, ContractTypeOK, Deposit
<1>4. BalanceIsLedger'
  <2> SUFFICES ASSUME NEW a \in Admins, NEW u \in Users
               PROVE  balances'[a][u] + taken'[a][u] = paid'[a][u]
    BY DEF BalanceIsLedger
  <2>1. balances[a][u] + taken[a][u] = paid[a][u]
    BY DEF ContractInv, BalanceIsLedger
  <2>2. balances[a][u] \in Int /\ taken[a][u] \in Int /\ paid[a][u] \in Int
    BY <1>2, U64Assumption DEF U64
  <2>3. CASE a = Contract /\ u = user
    BY <1>1, <1>2, <2>1, <2>2, <2>3 DEF Deposit
  <2>4. CASE ~(a = Contract /\ u = user)
    BY <1>1, <1>2, <2>1, <2>4 DEF Deposit
  <2> QED
    BY <2>3, <2>4
<1>5. ForeignStoresEmpty'
  BY <1>1, <1>2 DEF ContractInv, ForeignStoresEmpty, Deposit
<1>6. UnpublishedEmpty'
  BY <1>1, <1>2 DEF ContractInv, UnpublishedEmpty, Deposit
<1> QED
  BY <1>3, <1>4, <1>5, <1>6 DEF ContractInv

\* batch_deduct moves coins between balances and charges of one store.
LEMMA BatchDeductInv ==
  ASSUME ContractInv, NEW admin \in Admins,
         NEW n \in Nat, NEW users \in [1..n -> Users], NEW tokens \in [1..n -> Nat],
         Len(users) = n,
         BatchDeduct(admin, users, tokens)
  PROVE  ContractInv'
PROOF
<1>1. ContractTypeOK
  BY DEF ContractInv
<1>2. /\ balances' \in [Admins -> [Users -> U64]]
      /\ taken' \in [Admins -> [Users -> Nat]]
      /\ \A a \in Admins \ {admin} : balances'[a] = balances[a] /\ taken'[a] = taken[a]
      /\ \A u \in Users : balances'[admin][u] + taken'[admin][u] = balances[admin][u] + taken[admin][u]
  BY <1>1, BatchDeductEffect
<1>3. UNCHANGED <<stores, whitelist, tokenPrice, treasury, wallet, paid>> /\ admin \in stores
  BY DEF BatchDeduct
<1>4. ContractTypeOK'
  BY <1>1, <1>2, <1>3 DEF ContractTypeOK
<1>5. \A a \in Admins, u \in Users : balances'[a][u] + taken'[a][u] = balances[a][u] + taken[a][u]
  BY <1>2
<1>6. BalanceIsLedger'
  BY <1>3, <1>5 DEF ContractInv, BalanceIsLedger
<1>7. \A a \in Admins, u \in Users :
         (balances[a][u] = 0 /\ taken[a][u] = 0) => (balances'[a][u] = 0 /\ taken'[a][u] = 0)
  <2> TAKE a \in Admins, u \in Users
  <2>1. balances'[a][u] \in Nat /\ taken'[a][u] \in Nat
    BY <1>2, U64Assumption DEF U64
  <2>2. balances'[a][u] + taken'[a][u] = balances[a][u] + taken[a][u]
    BY <1>5
  <2> DEFINE x == balances'[a][u]
             y == taken'[a][u]
  <2> HIDE DEF x, y
  <2>3. x \in Nat /\ y \in Nat /\ (x + y = 0 => x = 0 /\ y = 0)
    BY <2>1 DEF x, y
  <2> QED
    BY <2>2, <2>3 DEF x, y
<1>8. ForeignStoresEmpty' /\ UnpublishedEmpty'
  BY <1>3, <1>7 DEF ContractInv, ForeignStoresEmpty, UnpublishedEmpty
<1> QED
  BY <1>4, <1>6, <1>8 DEF ContractInv

\* Every entry function preserves the invariant.
LEMMA ContractNextInv ==
  ASSUME ContractInv, [ContractNext]_contractVars
  PROVE  ContractInv'
PROOF
<1> USE DEF ContractInv
<1>1. ASSUME NEW admin \in Admins, Initialize(admin) PROVE ContractInv'
  BY <1>1, InitializeInv
<1>2. ASSUME NEW admin \in Admins, NEW users \in SUBSET Users,
             whitelist' = [whitelist EXCEPT ![admin] = @ \cup users] \/ whitelist' = [whitelist EXCEPT ![admin] = @ \ users],
             UNCHANGED <<stores, balances, tokenPrice, treasury, wallet, paid, taken>>
      PROVE  ContractInv'
  BY <1>2 DEF ContractTypeOK, BalanceIsLedger, ForeignStoresEmpty, UnpublishedEmpty
<1>3. ASSUME NEW admin \in Admins, NEW p \in Prices, SetTokenPrice(admin, p) PROVE ContractInv'
  BY <1>3, U64Assumption DEF ContractTypeOK, BalanceIsLedger, ForeignStoresEmpty, UnpublishedEmpty, SetTokenPrice
<1>4. ASSUME NEW admin \in Admins, NEW users \in Vectors(Users), NEW tokens \in Vectors(TokenAmounts),
             BatchDeduct(admin, users, tokens)
      PROVE  ContractInv'
  <2>1. Len(users) \in Nat /\ users \in [1..Len(users) -> Users]
    BY VectorType
  <2>2. tokens \in [1..Len(tokens) -> TokenAmounts] /\ Len(tokens) = Len(users)
    BY <1>4, VectorType DEF BatchDeduct
  <2>3. tokens \in [1..Len(users) -> Nat]
    <3>1. TokenAmounts \subseteq Nat
      BY U64Assumption DEF U64
    <3>2. \A i \in 1..Len(users) : tokens[i] \in Nat
      BY <2>2, <3>1
    <3> QED
      BY <2>2, <3>2
  <2> QED
    BY <1>4, <2>1, <2>3, BatchDeductInv
<1>5. ASSUME NEW user \in Users, NEW amount \in Amounts, Deposit(user, amount) PROVE ContractInv'
  BY <1>5, U64Assumption, DepositInv
<1>6. CASE UNCHANGED contractVars
  BY <1>6 DEF contractVars, ContractTypeOK, BalanceIsLedger, ForeignStoresEmpty, UnpublishedEmpty
<1>7. ASSUME NEW admin \in Admins, NEW user \in Users,
             AddToWhitelist(admin, user) \/ RemoveFromWhitelist(admin, user)
      PROVE  ContractInv'
  <2>1. {user} \in SUBSET Users
    OBVIOUS
  <2> QED
    BY <1>2, <1>7, <2>1 DEF AddToWhitelist, RemoveFromWhitelist
<1>8. ASSUME NEW admin \in Admins, NEW users \in SUBSET Users,
             BatchAddToWhitelist(admin, users) \/ BatchRemoveFromWhitelist(admin, users)
      PROVE  ContractInv'
  BY <1>2, <1>8 DEF BatchAddToWhitelist, BatchRemoveFromWhitelist
<1> QED
  BY <1>1, <1>3, <1>4, <1>5, <1>6, <1>7, <1>8 DEF ContractNext

\* Every stored number is a u64 and every table has its type, for any sequence
\* of calls to the contract.
THEOREM ContractTypeCorrect == ContractSpec => []ContractTypeOK
PROOF
<1>1. ContractInv => ContractTypeOK
  BY DEF ContractInv
<1> QED
  BY ContractInitInv, ContractNextInv, <1>1, PTL DEF ContractSpec

\* A user's balance is what they deposited minus what the events say they were
\* charged, for every user, every store and any sequence of calls.
THEOREM LedgerCorrect == ContractSpec => []BalanceIsLedger
PROOF
<1>1. ContractInv => BalanceIsLedger
  BY DEF ContractInv
<1> QED
  BY ContractInitInv, ContractNextInv, <1>1, PTL DEF ContractSpec

\* No store but the one at @vibe_balance ever holds or charges a coin.
THEOREM ForeignStoresHarmless == ContractSpec => []ForeignStoresEmpty
PROOF
<1>1. ContractInv => ForeignStoresEmpty
  BY DEF ContractInv
<1> QED
  BY ContractInitInv, ContractNextInv, <1>1, PTL DEF ContractSpec
-----------------------------------------------------------------------------
(* The treasury.  Coins enter it by deposits only, and all of them come from *)
(* the wallets: what it holds is what was paid in, and together with the     *)
(* wallets it is the supply.                                                 *)

TreasuryIsPaidIn == \A a \in Admins : treasury[a] = SumOver(paid[a])
SupplyKept == treasury[Contract] + SumOver(wallet) = Cardinality(Users) * InitialCoins
CoinsKept == TreasuryIsPaidIn /\ SupplyKept

\* A store nobody paid into has a treasury of nothing.
LEMMA NothingPaid ==
  ASSUME ContractInv, NEW a \in Admins, \A u \in Users : balances[a][u] = 0 /\ taken[a][u] = 0
  PROVE  SumOver(paid[a]) = 0
PROOF
<1>1. paid[a] \in [Users -> Nat]
  BY DEF ContractInv, ContractTypeOK
<1>2. \A u \in Users : paid[a][u] = 0
  BY DEF ContractInv, BalanceIsLedger
<1>3. paid[a] = [u \in Users |-> 0]
  BY <1>1, <1>2
<1>4. SumOver([u \in Users |-> 0]) = Cardinality(Users) * 0
  BY SumOverConstant
<1>5. Cardinality(Users) \in Nat
  BY SupplyAssumption, FS_CardinalityType
<1> QED
  BY <1>3, <1>4, <1>5

\* Before any call, all coins are in the wallets.
LEMMA CoinsKeptInit == ContractInit => CoinsKept
PROOF
<1> SUFFICES ASSUME ContractInit PROVE CoinsKept
  OBVIOUS
<1>1. ContractInv
  BY ContractInitInv
<1>2. InitialCoins \in Nat /\ Contract \in Admins
  BY U64Assumption, ContractAssumption DEF U64
<1>3. TreasuryIsPaidIn
  <2> SUFFICES ASSUME NEW a \in Admins PROVE treasury[a] = SumOver(paid[a])
    BY DEF TreasuryIsPaidIn
  <2>1. \A u \in Users : balances[a][u] = 0 /\ taken[a][u] = 0
    BY DEF ContractInit
  <2>2. SumOver(paid[a]) = 0
    BY <1>1, <2>1, NothingPaid
  <2> QED
    BY <2>2 DEF ContractInit
<1>4. SumOver(wallet) = Cardinality(Users) * InitialCoins
  BY <1>2, SumOverConstant DEF ContractInit
<1>5. treasury[Contract] = 0
  BY <1>2 DEF ContractInit
<1>6. Cardinality(Users) * InitialCoins \in Nat
  BY SupplyAssumption, U64Assumption DEF U64
<1>7. SupplyKept
  BY <1>4, <1>5, <1>6 DEF SupplyKept
<1> QED
  BY <1>3, <1>7 DEF CoinsKept

\* Publishing a store resets a treasury that holds nothing.
LEMMA CoinsKeptInitialize ==
  ASSUME ContractInv, CoinsKept, NEW admin \in Admins, Initialize(admin)
  PROVE  CoinsKept'
PROOF
<1>1. \A u \in Users : balances[admin][u] = 0 /\ taken[admin][u] = 0
  BY DEF Initialize, ContractInv, UnpublishedEmpty
<1>2. SumOver(paid[admin]) = 0
  BY <1>1, NothingPaid
<1>3. treasury[admin] = 0
  BY <1>2 DEF CoinsKept, TreasuryIsPaidIn
<1>4. treasury \in [Admins -> U64]
  BY DEF ContractInv, ContractTypeOK
<1>5. treasury' = treasury /\ UNCHANGED <<paid, wallet>>
  BY <1>3, <1>4 DEF Initialize
<1> QED
  BY <1>5 DEF CoinsKept, TreasuryIsPaidIn, SupplyKept

\* A deposit moves coins from a wallet to the treasury.
LEMMA CoinsKeptDeposit ==
  ASSUME ContractInv, CoinsKept, NEW user \in Users, NEW amount \in U64, Deposit(user, amount)
  PROVE  CoinsKept'
PROOF
<1>1. Contract \in Admins /\ amount \in Int /\ -amount \in Int
  BY ContractAssumption, U64Assumption DEF U64
<1>2. /\ treasury \in [Admins -> U64] /\ paid \in [Admins -> [Users -> Nat]] /\ wallet \in [Users -> U64]
      /\ U64 \subseteq Int
  BY U64Assumption DEF ContractInv, ContractTypeOK, U64
<1>3. paid[Contract] \in [Users -> Int] /\ wallet \in [Users -> Int] /\ treasury[Contract] \in Int
  <2>1. paid[Contract] \in [Users -> Nat]
    BY <1>1, <1>2
  <2>2. treasury[Contract] \in U64
    BY <1>1, <1>2
  <2>3. \A u \in Users : paid[Contract][u] \in Int /\ wallet[u] \in Int
    <3> TAKE u \in Users
    <3>1. paid[Contract][u] \in Nat /\ wallet[u] \in U64
      BY <1>2, <2>1
    <3> QED
      BY <3>1, U64Assumption DEF U64
  <2> QED
    BY <1>2, <2>1, <2>2, <2>3
<1>4. /\ paid' = [paid EXCEPT ![Contract][user] = @ + amount]
      /\ treasury' = [treasury EXCEPT ![Contract] = @ + amount]
      /\ wallet' = [wallet EXCEPT ![user] = @ - amount]
  BY DEF Deposit
<1>5. paid'[Contract] = [paid[Contract] EXCEPT ![user] = @ + amount]
  BY <1>1, <1>2, <1>4
<1>6. wallet' = [wallet EXCEPT ![user] = @ + (-amount)]
  <2>1. wallet[user] - amount = wallet[user] + (-amount)
    BY <1>1, <1>3
  <2> QED
    BY <1>4, <2>1
<1>7. SumOver(paid[Contract]) \in Int /\ SumOver(paid'[Contract]) = SumOver(paid[Contract]) + amount
  <2>1. SumOver([paid[Contract] EXCEPT ![user] = @ + amount]) = SumOver(paid[Contract]) + amount
    BY <1>1, <1>3, SumOverChange
  <2>2. SumOver(paid[Contract]) \in Int
    BY <1>1, <1>3, SumOverChange
  <2> QED
    BY <1>5, <2>1, <2>2
<1>8. SumOver(wallet) \in Int /\ SumOver(wallet') = SumOver(wallet) + (-amount)
  <2>1. SumOver([wallet EXCEPT ![user] = @ + (-amount)]) = SumOver(wallet) + (-amount)
    BY <1>1, <1>3, SumOverChange
  <2>2. SumOver(wallet) \in Int
    BY <1>1, <1>3, SumOverChange
  <2> QED
    BY <1>6, <2>1, <2>2
<1>9. treasury'[Contract] = treasury[Contract] + amount
  BY <1>1, <1>2, <1>4
<1>10. TreasuryIsPaidIn'
  <2> SUFFICES ASSUME NEW a \in Admins PROVE treasury'[a] = SumOver(paid'[a])
    BY DEF TreasuryIsPaidIn
  <2>1. treasury[a] = SumOver(paid[a])
    BY DEF CoinsKept, TreasuryIsPaidIn
  <2>2. CASE a = Contract
    BY <1>7, <1>9, <2>1, <2>2
  <2>3. CASE a # Contract
    BY <1>2, <1>4, <2>1, <2>3
  <2> QED
    BY <2>2, <2>3
<1>11. SupplyKept'
  <2>1. treasury[Contract] + SumOver(wallet) = Cardinality(Users) * InitialCoins
    BY DEF CoinsKept, SupplyKept
  <2>2. treasury'[Contract] + SumOver(wallet') = treasury[Contract] + SumOver(wallet)
    BY <1>1, <1>3, <1>8, <1>9
  <2> QED
    BY <2>1, <2>2 DEF SupplyKept
<1> QED
  BY <1>10, <1>11 DEF CoinsKept

\* No other call moves a coin.
LEMMA CoinsKeptNext ==
  ASSUME ContractInv, CoinsKept, [ContractNext]_contractVars
  PROVE  CoinsKept'
PROOF
<1>1. ASSUME UNCHANGED <<treasury, wallet, paid>> PROVE CoinsKept'
  BY <1>1 DEF CoinsKept, TreasuryIsPaidIn, SupplyKept
<1>2. ASSUME NEW admin \in Admins, Initialize(admin) PROVE CoinsKept'
  BY <1>2, CoinsKeptInitialize
<1>3. ASSUME NEW user \in Users, NEW amount \in Amounts, Deposit(user, amount) PROVE CoinsKept'
  BY <1>3, U64Assumption, CoinsKeptDeposit
<1>4. ASSUME NEW admin \in Admins, NEW user \in Users,
             AddToWhitelist(admin, user) \/ RemoveFromWhitelist(admin, user)
      PROVE  UNCHANGED <<treasury, wallet, paid>>
  BY <1>4 DEF AddToWhitelist, RemoveFromWhitelist
<1>5. ASSUME NEW admin \in Admins, NEW users \in SUBSET Users,
             BatchAddToWhitelist(admin, users) \/ BatchRemoveFromWhitelist(admin, users)
      PROVE  UNCHANGED <<treasury, wallet, paid>>
  BY <1>5 DEF BatchAddToWhitelist, BatchRemoveFromWhitelist
<1>6. ASSUME NEW admin \in Admins, NEW p \in Prices, SetTokenPrice(admin, p)
      PROVE  UNCHANGED <<treasury, wallet, paid>>
  BY <1>6 DEF SetTokenPrice
<1>7. ASSUME NEW admin \in Admins, NEW users \in Vectors(Users), NEW tokens \in Vectors(TokenAmounts),
             BatchDeduct(admin, users, tokens)
      PROVE  UNCHANGED <<treasury, wallet, paid>>
  BY <1>7 DEF BatchDeduct
<1>8. CASE UNCHANGED contractVars
  BY <1>1, <1>8 DEF contractVars
<1> QED
  BY <1>1, <1>2, <1>3, <1>4, <1>5, <1>6, <1>7, <1>8 DEF ContractNext

\* What the treasury was paid is what its users have left and what they were charged.
LEMMA CoinsMakeSolvent ==
  ASSUME ContractInv, CoinsKept
  PROVE  TreasurySolvent
PROOF
<1> SUFFICES ASSUME NEW a \in Admins
             PROVE  treasury[a] = SumOver(balances[a]) + SumOver(taken[a])
  BY DEF TreasurySolvent
<1>1. /\ balances[a] \in [Users -> U64] /\ taken[a] \in [Users -> Nat] /\ paid[a] \in [Users -> Nat]
      /\ U64 \subseteq Int
  BY U64Assumption DEF ContractInv, ContractTypeOK, U64
<1>2. \A u \in Users : /\ balances[a][u] \in Int /\ taken[a][u] \in Int /\ paid[a][u] \in Int
                       /\ paid[a][u] = balances[a][u] + taken[a][u]
  <2> TAKE u \in Users
  <2>1. balances[a][u] \in U64 /\ taken[a][u] \in Nat /\ paid[a][u] \in Nat
    BY <1>1
  <2>2. balances[a][u] \in Int /\ taken[a][u] \in Int /\ paid[a][u] \in Int
    BY <2>1, U64Assumption DEF U64
  <2>3. balances[a][u] + taken[a][u] = paid[a][u]
    BY DEF ContractInv, BalanceIsLedger
  <2> QED
    BY <2>2, <2>3
<1>3. balances[a] \in [Users -> Int] /\ taken[a] \in [Users -> Int] /\ paid[a] \in [Users -> Int]
  BY <1>1, <1>2
<1>4. SumOver(paid[a]) = SumOver(balances[a]) + SumOver(taken[a])
  BY <1>2, <1>3, SumOverAdd
<1> QED
  BY <1>4 DEF CoinsKept, TreasuryIsPaidIn

\* The contract holds what it owes: each treasury is what its users have left plus what
\* they were charged, every number is a u64, and no store but the contract's own holds
\* anything, for any number of accounts and any sequence of calls.
THEOREM StoresAreSound == ContractSpec => []StoresSound
PROOF
<1>1. ContractInv /\ CoinsKept => StoresSound
  BY CoinsMakeSolvent DEF StoresSound, ContractInv
<1>2. ContractInit => ContractInv /\ CoinsKept
  BY ContractInitInv, CoinsKeptInit
<1>3. ContractInv /\ CoinsKept /\ [ContractNext]_contractVars => (ContractInv /\ CoinsKept)'
  BY ContractNextInv, CoinsKeptNext
<1> QED
  BY <1>1, <1>2, <1>3, PTL DEF ContractSpec

\* The coins of a user and those in the treasury, or in the user's balance, are together
\* no more than the supply.
LEMMA CoinsFit ==
  ASSUME ContractInv, CoinsKept
  PROVE  DepositNeverOverflows
PROOF
<1> SUFFICES ASSUME NEW u \in Users
             PROVE  /\ treasury[Contract] + wallet[u] \in U64
                    /\ balances[Contract][u] + wallet[u] \in U64
  BY DEF DepositNeverOverflows
<1> DEFINE supply == Cardinality(Users) * InitialCoins
           t == treasury[Contract]
           w == wallet[u]
           b == balances[Contract][u]
           p == paid[Contract][u]
           ws == SumOver(wallet)
           ps == SumOver(paid[Contract])
<1>1. Contract \in Admins /\ MaxU64 \in Nat /\ supply \in U64
  BY ContractAssumption, U64Assumption, SupplyAssumption
<1>2. /\ t \in U64 /\ w \in U64 /\ b \in U64 /\ taken[Contract][u] \in Nat /\ p \in Nat
      /\ paid[Contract] \in [Users -> Nat] /\ wallet \in [Users -> U64]
  BY <1>1 DEF ContractInv, ContractTypeOK
<1>3. wallet \in [Users -> Nat]
  <2>1. \A x \in Users : wallet[x] \in Nat
    BY <1>1, <1>2 DEF U64
  <2> QED
    BY <1>2, <2>1
<1>4. ws \in Nat /\ w <= ws
  BY <1>3, SumOverBound
<1>5. ps \in Nat /\ p <= ps
  BY <1>2, SumOverBound
<1>6. b <= p
  <2>1. b + taken[Contract][u] = p
    BY <1>1 DEF ContractInv, BalanceIsLedger
  <2> QED
    BY <1>1, <1>2, <2>1 DEF U64
<1>7. t = ps /\ t + ws = supply
  BY <1>1 DEF CoinsKept, TreasuryIsPaidIn, SupplyKept
<1> HIDE DEF supply, t, w, b, p, ws, ps
<1>8. t + w \in U64 /\ b + w \in U64
  BY <1>1, <1>2, <1>4, <1>5, <1>6, <1>7 DEF U64
<1> QED
  BY <1>8 DEF t, w, b

\* A deposit that a user can pay for never aborts by overflow, neither in the treasury nor
\* in the balance, as all the coins in existence fit in a u64.
THEOREM DepositsFit == ContractSpec => []DepositNeverOverflows
PROOF
<1>1. ContractInv /\ CoinsKept => DepositNeverOverflows
  BY CoinsFit
<1>2. ContractInit => ContractInv /\ CoinsKept
  BY ContractInitInv, CoinsKeptInit
<1>3. ContractInv /\ CoinsKept /\ [ContractNext]_contractVars => (ContractInv /\ CoinsKept)'
  BY ContractNextInv, CoinsKeptNext
<1> QED
  BY <1>1, <1>2, <1>3, PTL DEF ContractSpec
-----------------------------------------------------------------------------
(* A batch without repeated users charges each user alone.                   *)

\* What a user who has b coins has left after a charge of that many.
LeftAfter(b, coins) == IF coins <= b THEN b - coins ELSE b

\* A state of the loop after i iterations: unless the transaction is lost, the users so far
\* are charged and the others are as they were.
ChargedSoFar(s, i, bal, p, users, tokens) ==
    s.alive =>
        /\ \A j \in 1..i : s.balances[users[j]] = LeftAfter(bal[users[j]], CoinsFor(tokens[j], p))
        /\ \A u \in Users : (\A j \in 1..i : users[j] # u) => s.balances[u] = bal[u]

\* One iteration charges one user, who has not been charged before.
LEMMA DeductChargesOne ==
  ASSUME NEW s \in LoopStates, NEW user \in Users, NEW tokens \in Nat, NEW p \in Nat,
         Deduct(s, user, tokens, p).alive
  PROVE  /\ s.alive
         /\ Deduct(s, user, tokens, p).balances[user] = LeftAfter(s.balances[user], CoinsFor(tokens, p))
         /\ \A u \in Users \ {user} : Deduct(s, user, tokens, p).balances[u] = s.balances[u]
PROOF
<1> DEFINE coins == CoinsFor(tokens, p)
           t == Deduct(s, user, tokens, p)
<1>1. coins \in Nat
  BY CoinsForNat
<1>2. s.balances \in [Users -> U64] /\ s.balances[user] \in Nat
  <2>1. s.balances \in [Users -> U64]
    BY DEF LoopStates
  <2>2. s.balances[user] \in U64
    BY <2>1
  <2> QED
    BY <2>1, <2>2, U64Assumption DEF U64
<1>3. s.alive /\ tokens * p \in U64
  <2> SUFFICES ASSUME ~s.alive \/ tokens * p \notin U64 PROVE FALSE
    OBVIOUS
  <2>1. t = [s EXCEPT !.alive = FALSE]
    BY DEF Deduct
  <2>2. t.alive = FALSE
    BY <2>1 DEF LoopStates
  <2> QED
    BY <2>2
<1> HIDE DEF coins
<1>4. CASE coins > 0 /\ s.balances[user] >= coins
  <2>1. t = Deducted(s, user, tokens, coins)
    BY <1>3, <1>4 DEF Deduct, coins
  <2>2. t.balances = [s.balances EXCEPT ![user] = @ - coins]
    BY <2>1 DEF Deducted
  <2> HIDE DEF t
  <2>3. t.balances[user] = s.balances[user] - coins /\ \A u \in Users \ {user} : t.balances[u] = s.balances[u]
    BY <1>2, <2>2
  <2>4. LeftAfter(s.balances[user], coins) = s.balances[user] - coins
    BY <1>1, <1>2, <1>4 DEF LeftAfter
  <2> QED
    BY <1>3, <2>3, <2>4 DEF t, coins
<1>5. CASE ~(coins > 0 /\ s.balances[user] >= coins)
  <2>1. t = s
    BY <1>3, <1>5 DEF Deduct, coins
  <2>2. LeftAfter(s.balances[user], coins) = s.balances[user]
    BY <1>1, <1>2, <1>5 DEF LeftAfter
  <2> QED
    BY <1>3, <2>1, <2>2 DEF coins
<1> QED
  BY <1>4, <1>5

\* By induction over the iterations, every user of the batch is charged alone.
LEMMA LoopChargesAlone ==
  ASSUME NEW bal, NEW tak, NEW p, NEW n, NEW users, NEW tokens,
         bal \in [Users -> U64], tak \in [Users -> Nat], p \in U64,
         n \in Nat, users \in [1..n -> Users], tokens \in [1..n -> Nat],
         Len(users) = n, IsInjective(users)
  PROVE  /\ SameBooks(DeductResult(bal, tak, p, users, tokens), bal, tak)
         /\ ChargedSoFar(DeductResult(bal, tak, p, users, tokens), n, bal, p, users, tokens)
PROOF
<1> DEFINE loop == DeductLoop(bal, tak, p, users, tokens)
           S == {i \in Nat : i <= n => /\ SameBooks(loop[i], bal, tak)
                                       /\ ChargedSoFar(loop[i], i, bal, p, users, tokens)}
<1>1. /\ loop[0] = DeductStart(bal, tak)
      /\ \A i \in 1..n : loop[i] = Deduct(loop[i - 1], users[i], tokens[i], p)
  <2>1. Len(users) \in Nat
    OBVIOUS
  <2>2. /\ DeductLoop(bal, tak, p, users, tokens)[0] = DeductStart(bal, tak)
        /\ \A i \in 1..Len(users) :
             DeductLoop(bal, tak, p, users, tokens)[i] =
               Deduct(DeductLoop(bal, tak, p, users, tokens)[i - 1], users[i], tokens[i], p)
    BY ONLY <2>1, LoopUnfolds
  <2> QED
    BY <2>2
<1> HIDE DEF loop
<1>2. p \in Nat
  BY U64Assumption DEF U64
<1>3. 0 \in S
  <2> DEFINE s == DeductStart(bal, tak)
  <2>1. s \in LoopStates /\ s.balances = bal /\ s.taken = tak
    BY DEF DeductStart, LoopStates
  <2>2. SameBooks(s, bal, tak) /\ ChargedSoFar(s, 0, bal, p, users, tokens)
    <3> HIDE DEF s
    <3> QED
      BY <2>1 DEF SameBooks, ChargedSoFar
  <2> QED
    BY <1>1, <2>2
<1>4. ASSUME NEW i \in Nat, i \in S
      PROVE  i + 1 \in S
  <2> SUFFICES ASSUME i + 1 <= n
               PROVE  /\ SameBooks(loop[i + 1], bal, tak)
                      /\ ChargedSoFar(loop[i + 1], i + 1, bal, p, users, tokens)
    OBVIOUS
  <2> DEFINE user == users[i + 1]
             s == loop[i]
             t == Deduct(s, user, tokens[i + 1], p)
  <2>1. loop[i + 1] = t
    BY <1>1
  <2>2. SameBooks(s, bal, tak) /\ ChargedSoFar(s, i, bal, p, users, tokens)
    BY <1>4
  <2>3. i + 1 \in 1..n /\ user \in Users /\ tokens[i + 1] \in Nat
    OBVIOUS
  <2>4. SameBooks(t, bal, tak)
    BY <2>2, <2>3, DeductKeepsBooks
  <2>5. ASSUME t.alive
        PROVE  /\ \A j \in 1..(i + 1) : t.balances[users[j]] = LeftAfter(bal[users[j]], CoinsFor(tokens[j], p))
               /\ \A u \in Users : (\A j \in 1..(i + 1) : users[j] # u) => t.balances[u] = bal[u]
    <3>1. s \in LoopStates
      BY <2>2 DEF SameBooks
    <3>2. /\ s.alive
          /\ t.balances[user] = LeftAfter(s.balances[user], CoinsFor(tokens[i + 1], p))
          /\ \A u \in Users \ {user} : t.balances[u] = s.balances[u]
      <4>1. user \in Users /\ tokens[i + 1] \in Nat /\ p \in Nat /\ t.alive
        BY <1>2, <2>3, <2>5
      <4> HIDE DEF s, user
      <4>2. PICK k \in Nat : k = tokens[i + 1] /\ t = Deduct(s, user, k, p)
        BY <4>1
      <4>3. Deduct(s, user, k, p).alive
        BY <4>1, <4>2
      <4> HIDE DEF t
      <4>4. /\ s.alive
            /\ Deduct(s, user, k, p).balances[user] = LeftAfter(s.balances[user], CoinsFor(k, p))
            /\ \A u \in Users \ {user} : Deduct(s, user, k, p).balances[u] = s.balances[u]
        BY <3>1, <4>1, <4>3, DeductChargesOne, Z3
      <4> QED
        BY <4>2, <4>4
    <3> HIDE DEF t, s
    <3>3. /\ \A j \in 1..i : s.balances[users[j]] = LeftAfter(bal[users[j]], CoinsFor(tokens[j], p))
          /\ \A u \in Users : (\A j \in 1..i : users[j] # u) => s.balances[u] = bal[u]
      BY <2>2, <3>2 DEF ChargedSoFar
    <3>4. \A j \in 1..i : j \in 1..n /\ users[j] \in Users /\ users[j] # user
      <4> TAKE j \in 1..i
      <4>1. j \in 1..n /\ j # i + 1
        BY <2>3
      <4> QED
        BY <2>3, <4>1 DEF IsInjective
    <3>5. ASSUME NEW j \in 1..(i + 1)
          PROVE  t.balances[users[j]] = LeftAfter(bal[users[j]], CoinsFor(tokens[j], p))
      <4>1. CASE j = i + 1
        <5>1. s.balances[user] = bal[user]
          BY <2>3, <3>3, <3>4
        <5> QED
          BY <3>2, <4>1, <5>1
      <4>2. CASE j # i + 1
        <5>1. j \in 1..i
          BY <4>2
        <5> QED
          BY <3>2, <3>3, <3>4, <5>1
      <4> QED
        BY <4>1, <4>2
    <3>6. ASSUME NEW u \in Users, \A j \in 1..(i + 1) : users[j] # u PROVE t.balances[u] = bal[u]
      <4>1. u # user /\ \A j \in 1..i : users[j] # u
        BY <2>3, <3>6
      <4> QED
        BY <3>2, <3>3, <4>1
    <3> QED
      BY <3>5, <3>6
  <2>6. ChargedSoFar(t, i + 1, bal, p, users, tokens)
    <3> HIDE DEF t
    <3> QED
      BY <2>5 DEF ChargedSoFar
  <2> QED
    BY <2>1, <2>4, <2>6
<1>5. n \in S
  <2> HIDE DEF S
  <2> QED
    BY <1>3, <1>4, NatSetInduction
<1> QED
  BY <1>5 DEF DeductResult, loop

\* In every state of the contract, whatever batch is sent.
LEMMA StateChargesAlone ==
  ASSUME ContractTypeOK
  PROVE  BatchChargesEachAlone
PROOF
<1> DEFINE bal == balances[Contract]
           tak == taken[Contract]
           p == tokenPrice[Contract]
<1>1. bal \in [Users -> U64] /\ tak \in [Users -> Nat] /\ p \in U64
  BY ContractAssumption DEF ContractTypeOK
<1> HIDE DEF bal, tak, p
<1> SUFFICES ASSUME NEW users \in Vectors(Users), NEW tokens \in Vectors(TokenAmounts),
                    IsInjective(users), DOMAIN users = DOMAIN tokens,
                    DeductResult(bal, tak, p, users, tokens).alive
             PROVE  DeductResult(bal, tak, p, users, tokens).balances = ChargedAlone(bal, p, users, tokens)
  BY DEF BatchChargesEachAlone, bal, tak, p
<1> DEFINE end == DeductResult(bal, tak, p, users, tokens)
           n == Len(users)
<1>2. n \in Nat /\ users \in [1..n -> Users]
  BY VectorType
<1>3. tokens \in [1..n -> Nat]
  <2>1. Len(tokens) \in Nat /\ tokens \in [1..Len(tokens) -> TokenAmounts]
    BY VectorType
  <2>2. DOMAIN tokens = 1..n
    BY <1>2
  <2>3. TokenAmounts \subseteq Nat
    BY U64Assumption DEF U64
  <2>4. \A i \in 1..n : tokens[i] \in Nat
    BY <2>1, <2>2, <2>3
  <2>5. tokens = [i \in 1..n |-> tokens[i]]
    BY <2>1, <2>2
  <2> HIDE DEF n
  <2> QED
    BY <2>4, <2>5
<1>4. SameBooks(end, bal, tak) /\ ChargedSoFar(end, n, bal, p, users, tokens)
  <2>1. Len(users) = n
    OBVIOUS
  <2> HIDE DEF n
  <2>2. /\ SameBooks(DeductResult(bal, tak, p, users, tokens), bal, tak)
        /\ ChargedSoFar(DeductResult(bal, tak, p, users, tokens), n, bal, p, users, tokens)
    BY <1>1, <1>2, <1>3, <2>1, LoopChargesAlone
  <2> QED
    BY <2>2
<1> HIDE DEF end, n
<1>5. end.balances \in [Users -> U64]
  BY <1>4 DEF SameBooks, LoopStates
<1>6. end.alive
  BY DEF end
<1>7. /\ \A j \in 1..n : end.balances[users[j]] = LeftAfter(bal[users[j]], CoinsFor(tokens[j], p))
      /\ \A u \in Users : (\A j \in 1..n : users[j] # u) => end.balances[u] = bal[u]
  BY <1>4, <1>6 DEF ChargedSoFar
<1>8. ASSUME NEW u \in Users
      PROVE  end.balances[u] = ChargedAlone(bal, p, users, tokens)[u]
  <2>1. CASE \E i \in DOMAIN users : users[i] = u
    <3> DEFINE i == CHOOSE j \in DOMAIN users : users[j] = u
    <3>1. i \in 1..n /\ users[i] = u
      BY <1>2, <2>1
    <3>2. ChargedAlone(bal, p, users, tokens)[u] = LeftAfter(bal[u], CoinsFor(tokens[i], p))
      BY <2>1 DEF ChargedAlone, LeftAfter
    <3> QED
      BY <1>7, <3>1, <3>2
  <2>2. CASE ~ \E i \in DOMAIN users : users[i] = u
    <3>1. ChargedAlone(bal, p, users, tokens)[u] = bal[u]
      BY <2>2 DEF ChargedAlone
    <3> QED
      BY <1>2, <1>7, <2>2, <3>1
  <2> QED
    BY <2>1, <2>2
<1>9. DOMAIN ChargedAlone(bal, p, users, tokens) = Users
  BY DEF ChargedAlone
<1>10. \E f : ChargedAlone(bal, p, users, tokens) = [u \in Users |-> f[u]]
  <2>1. ChargedAlone(bal, p, users, tokens) = [u \in Users |-> ChargedAlone(bal, p, users, tokens)[u]]
    BY DEF ChargedAlone
  <2> QED
    BY <2>1
<1>11. end.balances = ChargedAlone(bal, p, users, tokens)
  BY <1>5, <1>8, <1>9, <1>10
<1> QED
  BY <1>11 DEF end

\* batch_deduct on a batch without repeated users charges each of them as if alone, in full
\* or not at all, whatever the order of the vectors, their length and the prices.
THEOREM BatchesChargeAlone == ContractSpec => []BatchChargesEachAlone
PROOF
<1>1. ContractInv => BatchChargesEachAlone
  BY StateChargesAlone DEF ContractInv
<1> QED
  BY ContractInitInv, ContractNextInv, <1>1, PTL DEF ContractSpec
=============================================================================
