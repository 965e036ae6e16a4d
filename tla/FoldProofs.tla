---- MODULE FoldProofs ----
(***************************************************************************)
(* Induction over data for the proofs about folds and recursive functions. *)
(* What is to be shown of every number or finite set is given as the set   *)
(* of those of which it holds, and the step of a recursion as a function.  *)
(***************************************************************************)
EXTENDS Integers, FiniteSets, FiniteSetsExt, FiniteSetTheorems, WellFoundedInduction, TLAPS

(* A set of numbers that has zero and with a number the next one has all.  *)
LEMMA NatSetInduction ==
    ASSUME NEW P \in SUBSET Nat, 0 \in P, \A n \in P : n + 1 \in P
    PROVE  P = Nat
<1> DEFINE R == OpToRel(<, Nat)
<1>1. SUFFICES ASSUME Nat \ P # {} PROVE FALSE
    OBVIOUS
<1>2. PICK m \in Nat \ P : \A y \in Nat \ P : ~ (<<y, m>> \in R)
    BY <1>1, WFMin, NatLessThanWellFounded, Zenon
<1>3. m # 0
    OBVIOUS
<1>4. m - 1 \in Nat /\ m - 1 < m /\ (m - 1) + 1 = m
    BY <1>3
<1>5. m - 1 \notin P
    BY <1>4
<1>6. <<m - 1, m>> \in R
    BY <1>4 DEF OpToRel
<1>7. QED
    BY <1>2, <1>4, <1>5, <1>6

(* The same up to a bound.                                                 *)
LEMMA UpToInduction ==
    ASSUME NEW k \in Nat, NEW P, 0 \in P, \A n \in 1 .. k : n - 1 \in P => n \in P
    PROVE  \A n \in 0 .. k : n \in P
<1> DEFINE Q == {n \in Nat : n <= k => n \in P}
<1>1. 0 \in Q
    OBVIOUS
<1>2. ASSUME NEW n \in Q PROVE n + 1 \in Q
    <2>1. CASE n + 1 <= k
        <3>1. n + 1 \in 1 .. k /\ (n + 1) - 1 = n /\ n <= k
            BY <2>1
        <3>2. QED
            BY <3>1
    <2>2. CASE ~(n + 1 <= k)
        BY <2>2
    <2>3. QED
        BY <2>1, <2>2
<1>3. Q = Nat
    <2> HIDE DEF Q
    <2>1. Q \in SUBSET Nat
        BY DEF Q
    <2>2. QED
        BY <1>1, <1>2, <2>1, NatSetInduction
<1>4. QED
    BY <1>3

(* What holds of the empty set and of a set when it holds of it without    *)
(* one of its elements holds of every finite set.                          *)
LEMMA SetInduction ==
    ASSUME NEW S, IsFiniteSet(S), NEW P, {} \in P,
           \A T \in (SUBSET S) \ {{}} : \E x \in T : T \ {x} \in P => T \in P
    PROVE  \A T \in SUBSET S : T \in P
<1> DEFINE Q == {n \in Nat : \A T \in SUBSET S : Cardinality(T) = n => T \in P}
<1>1. ASSUME NEW T \in SUBSET S
      PROVE IsFiniteSet(T) /\ Cardinality(T) \in Nat
    BY FS_Subset, FS_CardinalityType
<1>2. 0 \in Q
    <2>1. ASSUME NEW T \in SUBSET S, Cardinality(T) = 0 PROVE T \in P
        BY <1>1, <2>1, FS_EmptySet
    <2>2. QED
        BY <2>1
<1>3. ASSUME NEW n \in Q PROVE n + 1 \in Q
    <2>1. SUFFICES ASSUME NEW T \in SUBSET S, Cardinality(T) = n + 1 PROVE T \in P
        OBVIOUS
    <2>2. n \in Nat /\ n + 1 # 0 /\ T # {}
        <3>1. n \in Nat
            OBVIOUS
        <3>2. Cardinality({}) = 0
            BY FS_EmptySet
        <3>3. QED
            BY <2>1, <3>1, <3>2
    <2>3. PICK x \in T : T \ {x} \in P => T \in P
        BY <2>2
    <2>4. Cardinality(T \ {x}) = n
        BY <1>1, <2>1, <2>2, FS_RemoveElement
    <2>5. T \ {x} \in P
        BY <2>4
    <2>6. QED
        BY <2>3, <2>5
<1>4. Q = Nat
    <2> HIDE DEF Q
    <2>1. Q \in SUBSET Nat
        BY DEF Q
    <2>2. QED
        BY <1>2, <1>3, <2>1, NatSetInduction
<1>5. QED
    BY <1>1, <1>4

(* A finite set that is not empty has an element of the highest rank.      *)
LEMMA HighestRank ==
    ASSUME NEW S, IsFiniteSet(S), NEW rank \in [S -> Int], NEW T \in SUBSET S, T # {}
    PROVE  \E x \in T : \A y \in T : rank[y] <= rank[x]
<1> DEFINE Has(U) == U # {} => \E x \in U : \A y \in U : rank[y] <= rank[x]
           P == {U \in SUBSET S : Has(U)}
<1>1. {} \in P
    OBVIOUS
<1>2. ASSUME NEW U \in (SUBSET S) \ {{}} PROVE \E x \in U : U \ {x} \in P => U \in P
    <2>1. PICK x \in U : TRUE
        OBVIOUS
    <2>2. ASSUME U \ {x} \in P PROVE U \in P
        <3>1. CASE U = {x}
            BY <3>1
        <3>2. CASE U # {x}
            <4>1. PICK h \in U \ {x} : \A y \in U \ {x} : rank[y] <= rank[h]
                BY <2>2, <3>2
            <4>2. rank[h] \in Int /\ rank[x] \in Int /\ \A y \in U : rank[y] \in Int
                OBVIOUS
            <4>3. CASE rank[x] <= rank[h]
                BY <4>1, <4>3
            <4>4. CASE rank[h] <= rank[x]
                BY <4>1, <4>2, <4>4
            <4>5. QED
                BY <4>2, <4>3, <4>4
        <3>3. QED
            BY <3>1, <3>2
    <2>3. QED
        BY <2>2
<1>3. \A U \in SUBSET S : U \in P
    <2> HIDE DEF P
    <2>1. QED
        BY <1>1, <1>2, SetInduction
<1>4. QED
    BY <1>3

(* A strict order in which of two elements one comes first.                *)
IsOrder(R, S) ==
    /\ \A x \in S, y \in S : x # y => <<x, y>> \in R \/ <<y, x>> \in R
    /\ \A x \in S, y \in S, z \in S : <<x, y>> \in R /\ <<y, z>> \in R => <<x, z>> \in R

(* A finite set that is not empty has a first element.                     *)
LEMMA FirstInOrder ==
    ASSUME NEW S, IsFiniteSet(S), NEW R, IsOrder(R, S), NEW T \in SUBSET S, T # {}
    PROVE  \E x \in T : \A y \in T \ {x} : <<x, y>> \in R
<1> DEFINE Has(U) == U # {} => \E x \in U : \A y \in U \ {x} : <<x, y>> \in R
           P == {U \in SUBSET S : Has(U)}
<1>1. {} \in P
    OBVIOUS
<1>2. ASSUME NEW U \in (SUBSET S) \ {{}} PROVE \E x \in U : U \ {x} \in P => U \in P
    <2>1. PICK x \in U : TRUE
        OBVIOUS
    <2>2. ASSUME U \ {x} \in P PROVE U \in P
        <3>1. CASE U = {x}
            BY <3>1
        <3>2. CASE U # {x}
            <4>1. PICK y \in U \ {x} : \A z \in (U \ {x}) \ {y} : <<y, z>> \in R
                BY <2>2, <3>2
            <4>2. CASE <<x, y>> \in R
                BY <4>1, <4>2 DEF IsOrder
            <4>3. CASE <<y, x>> \in R
                BY <4>1, <4>3
            <4>4. QED
                BY <4>2, <4>3 DEF IsOrder
        <3>3. QED
            BY <3>1, <3>2
    <2>3. QED
        BY <2>2
<1>3. \A U \in SUBSET S : U \in P
    <2> HIDE DEF P
    <2>1. QED
        BY <1>1, <1>2, SetInduction
<1>4. QED
    BY <1>3

(* One element is picked of every set, and what a fold does with it.       *)
Picks(pick, S) ==
    /\ pick \in [(SUBSET S) \ {{}} -> S]
    /\ \A T \in (SUBSET S) \ {{}} : pick[T] \in T

IsFold(f, S, base, pick, step) ==
    /\ f[{}] = base
    /\ \A T \in (SUBSET S) \ {{}} : f[T] = step[<<pick[T], f[T \ {pick[T]}]>>]

(* A fold over a finite set is well defined: there is a function on its    *)
(* subsets that gives the base for the empty one, and for another the step *)
(* from what it gives without the element picked.                          *)
LEMMA FoldExists ==
    ASSUME NEW S, IsFiniteSet(S), NEW V, NEW base \in V,
           NEW pick, Picks(pick, S), NEW step \in [S \X V -> V]
    PROVE  \E f \in [SUBSET S -> V] : IsFold(f, S, base, pick, step)
<1> DEFINE Sub(n) == {T \in SUBSET S : Cardinality(T) <= n}
           Folds(f, n) == /\ f \in [Sub(n) -> V]
                          /\ f[{}] = base
                          /\ \A T \in Sub(n) \ {{}} :
                                f[T] = step[<<pick[T], f[T \ {pick[T]}]>>]
           Q == {n \in Nat : \E f : Folds(f, n)}
<1>1. ASSUME NEW T \in SUBSET S
      PROVE IsFiniteSet(T) /\ Cardinality(T) \in Nat /\ (Cardinality(T) = 0 <=> T = {})
    BY FS_Subset, FS_CardinalityType, FS_EmptySet
<1>2. 0 \in Q
    <2>1. Sub(0) = {{}}
        BY <1>1
    <2>2. Folds([T \in {{}} |-> base], 0)
        BY <2>1
    <2>3. QED
        BY <2>2
<1>3. ASSUME NEW n \in Q PROVE n + 1 \in Q
    <2>1. n \in Nat /\ \E f : Folds(f, n)
        OBVIOUS
    <2>2. PICK f : Folds(f, n)
        BY <2>1
    <2>3. ASSUME NEW T \in Sub(n + 1) \ {{}}
          PROVE pick[T] \in S /\ T \ {pick[T]} \in Sub(n)
        <3>1. pick[T] \in T /\ T \in SUBSET S
            BY DEF Picks
        <3>2. Cardinality(T \ {pick[T]}) = Cardinality(T) - 1
            BY <1>1, <3>1, FS_RemoveElement
        <3>3. QED
            BY <1>1, <2>1, <3>1, <3>2
    <2> DEFINE g == [T \in Sub(n + 1) |->
                        IF T = {} THEN base ELSE step[<<pick[T], f[T \ {pick[T]}]>>]]
    <2>4. ASSUME NEW T \in Sub(n) PROVE T \in Sub(n + 1) /\ g[T] = f[T]
        <3>1. T \in Sub(n + 1)
            BY <1>1, <2>1
        <3>2. QED
            BY <2>2, <3>1
    <2>5. {} \in Sub(n + 1) /\ g[{}] = base
        BY <1>1, <2>1
    <2>6. ASSUME NEW T \in Sub(n + 1) PROVE g[T] \in V
        <3>1. CASE T = {}
            BY <3>1
        <3>2. CASE T # {}
            <4>1. pick[T] \in S /\ f[T \ {pick[T]}] \in V
                <5> HIDE DEF Sub
                <5>1. QED
                    BY <2>2, <2>3, <3>2
            <4>2. step[<<pick[T], f[T \ {pick[T]}]>>] \in V
                BY <4>1
            <4>3. QED
                BY <3>2, <4>2
        <3>3. QED
            BY <3>1, <3>2
    <2>7. ASSUME NEW T \in Sub(n + 1) \ {{}}
          PROVE  g[T] = step[<<pick[T], g[T \ {pick[T]}]>>]
        <3>1. g[T] = step[<<pick[T], f[T \ {pick[T]}]>>]
            OBVIOUS
        <3>2. g[T \ {pick[T]}] = f[T \ {pick[T]}]
            <4> HIDE DEF Sub, g
            <4>1. QED
                BY <2>3, <2>4
        <3>3. QED
            BY <3>1, <3>2
    <2>8. Folds(g, n + 1)
        <3>1. g \in [Sub(n + 1) -> V]
            BY <2>6
        <3> HIDE DEF g, Sub
        <3>2. QED
            BY <2>5, <2>7, <3>1
    <2>9. QED
        <3> HIDE DEF g, Folds
        <3>1. QED
            BY <2>1, <2>8
<1>4. Q = Nat
    <2> HIDE DEF Q
    <2>1. Q \in SUBSET Nat
        BY DEF Q
    <2>2. QED
        BY <1>2, <1>3, <2>1, NatSetInduction
<1>5. Cardinality(S) \in Q
    BY <1>1, <1>4
<1>6. PICK f : Folds(f, Cardinality(S))
    BY <1>5
<1>7. Sub(Cardinality(S)) = SUBSET S
    BY <1>1, FS_Subset
<1>8. QED
    <2> HIDE DEF Sub
    <2>1. QED
        BY <1>6, <1>7 DEF IsFold

IsRecursion(f, k, base, step) ==
    f[0] = base /\ \A n \in 1 .. k : f[n] = step[<<n, f[n - 1]>>]

(* So is a recursion up to a bound.                                        *)
LEMMA RecursionExists ==
    ASSUME NEW k \in Nat, NEW V, NEW base \in V, NEW step \in [Int \X V -> V]
    PROVE  \E f \in [0 .. k -> V] : IsRecursion(f, k, base, step)
<1> DEFINE Defines(f, m) == /\ f \in [0 .. m -> V]
                            /\ f[0] = base
                            /\ \A n \in 1 .. m : f[n] = step[<<n, f[n - 1]>>]
           Q == {m \in Nat : \E f : Defines(f, m)}
<1>1. 0 \in Q
    <2>1. Defines([n \in 0 .. 0 |-> base], 0)
        OBVIOUS
    <2>2. QED
        BY <2>1
<1>2. ASSUME NEW m \in Q PROVE m + 1 \in Q
    <2>1. PICK f : Defines(f, m)
        OBVIOUS
    <2> DEFINE g == [n \in 0 .. m + 1 |-> IF n <= m THEN f[n] ELSE step[<<n, f[m]>>]]
    <2>2. m \in Nat /\ f[m] \in V /\ step[<<m + 1, f[m]>>] \in V
        BY <2>1
    <2>3. ASSUME NEW n \in 0 .. m + 1 PROVE g[n] \in V
        <3>1. CASE n <= m
            BY <2>1, <3>1
        <3>2. CASE ~(n <= m)
            <4>1. n = m + 1
                BY <2>2, <3>2
            <4>2. QED
                BY <2>2, <3>2, <4>1
        <3>3. QED
            BY <3>1, <3>2
    <2>4. ASSUME NEW n \in 1 .. m + 1 PROVE g[n] = step[<<n, g[n - 1]>>]
        <3>1. CASE n <= m
            BY <2>1, <2>2, <3>1
        <3>2. CASE ~(n <= m)
            <4>1. n = m + 1 /\ n - 1 = m /\ n - 1 \in 0 .. m + 1
                BY <2>2, <3>2
            <4>2. g[n - 1] = f[m] /\ g[n] = step[<<n, f[m]>>]
                BY <2>2, <3>2, <4>1
            <4>3. QED
                BY <4>2
        <3>3. QED
            BY <3>1, <3>2
    <2>5. g[0] = base
        BY <2>1, <2>2
    <2>6. Defines(g, m + 1)
        <3>1. g \in [0 .. m + 1 -> V]
            BY <2>3
        <3> HIDE DEF g
        <3>2. QED
            BY <2>4, <2>5, <3>1
    <2>7. QED
        <3> HIDE DEF g, Defines
        <3>1. QED
            BY <2>2, <2>6
<1>3. Q = Nat
    <2> HIDE DEF Q
    <2>1. Q \in SUBSET Nat
        BY DEF Q
    <2>2. QED
        BY <1>1, <1>2, <2>1, NatSetInduction
<1>4. k \in Q
    BY <1>3
<1>5. QED
    BY <1>4 DEF IsRecursion

(* The greatest number is what a fold over a sequence picks.               *)
Greatest(k) == [T \in (SUBSET (1 .. k)) \ {{}} |-> Max(T)]

LEMMA GreatestPicks ==
    ASSUME NEW k \in Nat
    PROVE  /\ \A T \in (SUBSET (1 .. k)) \ {{}} :
                 Greatest(k)[T] = Max(T) /\ Max(T) \in T /\ Max(T) \in 1 .. k
           /\ \A n \in 1 .. k : Max(1 .. n) = n
           /\ Picks(Greatest(k), 1 .. k)
<1>1. IsFiniteSet(1 .. k)
    BY FS_Interval
<1>2. ASSUME NEW T \in (SUBSET (1 .. k)) \ {{}}
      PROVE  Max(T) \in T /\ \A y \in T : Max(T) >= y
    <2> DEFINE rank == [x \in 1 .. k |-> x]
    <2>1. rank \in [1 .. k -> Int]
        OBVIOUS
    <2>2. PICK x \in T : \A y \in T : rank[y] <= rank[x]
        <3> HIDE DEF rank
        <3> QED BY <1>1, <2>1, HighestRank
    <2>3. \A y \in T : x >= y
        BY <2>2
    <2>4. QED
        BY <2>3 DEF Max
<1>3. ASSUME NEW n \in 1 .. k PROVE Max(1 .. n) = n
    <2>1. 1 .. n \in (SUBSET (1 .. k)) \ {{}} /\ n \in 1 .. n
        OBVIOUS
    <2>2. Max(1 .. n) \in 1 .. n /\ Max(1 .. n) >= n
        BY <1>2, <2>1
    <2>3. QED
        BY <2>2
<1>4. QED
    BY <1>2, <1>3 DEF Greatest, Picks

(* What a fold over a sequence of k elements is, and that it does one step *)
(* for each of them.                                                       *)
FoldsLeft(f, k, V, base, step) ==
    /\ f[{}] = base
    /\ \A T \in (SUBSET (1 .. k)) \ {{}} :
          f[T \ {Max(T)}] \in V => f[T] = step[<<Max(T), f[T \ {Max(T)}]>>]

LEMMA LeftFoldExists ==
    ASSUME NEW k \in Nat, NEW V, NEW base \in V, NEW step \in [(1 .. k) \X V -> V]
    PROVE  \E f \in [SUBSET (1 .. k) -> V] : FoldsLeft(f, k, V, base, step)
<1>1. IsFiniteSet(1 .. k)
    BY FS_Interval
<1>2. PICK f \in [SUBSET (1 .. k) -> V] : IsFold(f, 1 .. k, base, Greatest(k), step)
    BY <1>1, GreatestPicks, FoldExists
<1>3. QED
    BY <1>2, GreatestPicks DEF IsFold, FoldsLeft

(* The same, number by number.                                             *)
StepsUp(g, k, base, step, last) ==
    /\ g[0] = base /\ g[k] = last
    /\ \A n \in 1 .. k : g[n] = step[<<n, g[n - 1]>>]

LEMMA LeftFoldSteps ==
    ASSUME NEW k \in Nat, NEW V, NEW base \in V, NEW step \in [(1 .. k) \X V -> V],
           NEW f, FoldsLeft(f, k, V, base, step)
    PROVE  \E g \in [0 .. k -> V] : StepsUp(g, k, base, step, f[1 .. k])
<1> DEFINE P == {T \in SUBSET (1 .. k) : f[T] \in V}
           g == [n \in 0 .. k |-> f[1 .. n]]
<1>1. IsFiniteSet(1 .. k)
    BY FS_Interval
<1>2. {} \in P
    BY DEF FoldsLeft
<1>3. ASSUME NEW T \in (SUBSET (1 .. k)) \ {{}} PROVE \E x \in T : T \ {x} \in P => T \in P
    <2>1. Max(T) \in T /\ Max(T) \in 1 .. k
        BY GreatestPicks
    <2>2. f[T \ {Max(T)}] \in V => f[T] \in V
        BY <2>1 DEF FoldsLeft
    <2>3. QED
        BY <2>1, <2>2
<1>4. \A T \in SUBSET (1 .. k) : f[T] \in V
    <2>1. \A T \in SUBSET (1 .. k) : T \in P
        <3> HIDE DEF P
        <3> QED BY <1>1, <1>2, <1>3, SetInduction
    <2>2. QED
        BY <2>1
<1>5. ASSUME NEW n \in 1 .. k PROVE g[n] = step[<<n, g[n - 1]>>]
    <2>1. 1 .. n \in (SUBSET (1 .. k)) \ {{}} /\ (1 .. n) \ {n} = 1 .. (n - 1)
          /\ 1 .. (n - 1) \in SUBSET (1 .. k)
        OBVIOUS
    <2>2. Max(1 .. n) = n
        BY GreatestPicks
    <2>3. f[1 .. n] = step[<<n, f[1 .. (n - 1)]>>]
        BY <1>4, <2>1, <2>2 DEF FoldsLeft
    <2>4. n \in 0 .. k /\ n - 1 \in 0 .. k
        OBVIOUS
    <2>5. QED
        BY <2>3, <2>4
<1>6. g[0] = base /\ g[k] = f[1 .. k] /\ g \in [0 .. k -> V]
    <2>1. 1 .. 0 = {} /\ \A n \in 0 .. k : 1 .. n \in SUBSET (1 .. k)
        OBVIOUS
    <2>2. QED
        BY <1>4, <2>1 DEF FoldsLeft
<1>7. StepsUp(g, k, base, step, f[1 .. k])
    <2> HIDE DEF g
    <2> QED BY <1>5, <1>6 DEF StepsUp
<1>8. QED
    BY <1>6, <1>7

(* A finite set of no more than one element has one at most.               *)
LEMMA AtMostOne ==
    ASSUME NEW M, IsFiniteSet(M), ~(Cardinality(M) > 1), NEW a \in M, NEW b \in M
    PROVE  a = b
<1>1. SUFFICES ASSUME a # b PROVE FALSE
    OBVIOUS
<1>2. IsFiniteSet({a}) /\ Cardinality({a}) = 1
    BY FS_Singleton
<1>3. Cardinality({a} \cup {b}) = 2
    <2>1. b \notin {a}
        BY <1>1
    <2>2. Cardinality({a} \cup {b}) = Cardinality({a}) + 1
        <3> DEFINE A == {a}
        <3>1. IsFiniteSet(A) /\ b \notin A
            BY <1>2, <2>1
        <3> HIDE DEF A
        <3>2. Cardinality(A \cup {b}) = Cardinality(A) + 1
            BY <3>1, FS_AddElement
        <3>3. QED
            BY <3>2 DEF A
    <2>3. QED
        BY <1>2, <2>2
<1>4. Cardinality({a} \cup {b}) <= Cardinality(M) /\ Cardinality(M) \in Nat
    <2>1. {a} \cup {b} \subseteq M
        OBVIOUS
    <2>2. QED
        BY <2>1, FS_Subset, FS_CardinalityType
<1>5. QED
    BY <1>3, <1>4

(* An element makes a finite set greater by one at most.                   *)
LEMMA OneMore ==
    ASSUME NEW S, IsFiniteSet(S), NEW x
    PROVE  /\ IsFiniteSet(S \cup {x}) /\ Cardinality(S \cup {x}) \in Nat
           /\ Cardinality(S \cup {x}) <= Cardinality(S) + 1
<1> DEFINE U == S \cup {x}
<1>1. Cardinality(S) \in Nat
    BY FS_CardinalityType
<1>2. IsFiniteSet(U) /\ (Cardinality(U) = Cardinality(S) \/ Cardinality(U) = Cardinality(S) + 1)
    <2>1. CASE x \in S
        <3>1. U = S
            BY <2>1
        <3> HIDE DEF U
        <3>2. QED
            BY <3>1
    <2>2. CASE x \notin S
        BY <2>2, FS_AddElement
    <2>3. QED
        BY <2>1, <2>2
<1> HIDE DEF U
<1>3. IsFiniteSet(U) /\ Cardinality(U) \in Nat /\ Cardinality(U) <= Cardinality(S) + 1
    BY <1>1, <1>2
<1>4. QED
    BY <1>3 DEF U

(* A set in which all elements are equal has no more than one.             *)
LEMMA OneAtMost ==
    ASSUME NEW M, \A a \in M, b \in M : a = b
    PROVE  IsFiniteSet(M) /\ Cardinality(M) <= 1
<1>1. CASE M = {}
    BY <1>1, FS_EmptySet
<1>2. ASSUME NEW a \in M PROVE IsFiniteSet(M) /\ Cardinality(M) = 1
    <2>1. M = {a}
        OBVIOUS
    <2>2. QED
        BY <2>1, FS_Singleton
<1>3. QED
    BY <1>1, <1>2

(* A function has no more values than arguments.                           *)
LEMMA ImageIsFinite ==
    ASSUME NEW S, IsFiniteSet(S), NEW f
    PROVE  /\ IsFiniteSet({f[x] : x \in S})
           /\ Cardinality({f[x] : x \in S}) <= Cardinality(S)
<1> DEFINE g == [x \in S |-> f[x]]
<1>1. g \in Surjection(S, {f[x] : x \in S})
    BY DEF Surjection
<1>2. QED
    <2> HIDE DEF g
    <2>1. QED
        BY <1>1, FS_Surjection
====
