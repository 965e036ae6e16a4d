---- MODULE InferenceProofs ----
(***************************************************************************)
(* Proofs about the way from a document to suggestions.  At every step the *)
(* document is the normalized one of the input, the graph what its links   *)
(* declare, and a pair that deserves to be suggested is still to come or   *)
(* was suggested; the suggestions can be told apart, so that each cut is   *)
(* one of the least.  What a parameter, a link, a walk through schemas and *)
(* a fingerprint are is shown before, by induction over sequences, depths  *)
(* and the flow where the operators are folds or recursive functions.      *)
(***************************************************************************)
EXTENDS Inference, FoldProofs, TLAPS

(* The sum of a finite set of weights is a number.                         *)
LEMMA ScoreIsANumber ==
    ASSUME NEW evidence, IsFiniteSet(evidence), \A e \in evidence : e[2] \in Int
    PROVE  Score(evidence) \in Int
<1> DEFINE chosen(T) == CHOOSE x \in T : TRUE
           pick == [T \in (SUBSET evidence) \ {{}} |-> chosen(T)]
           V == Int
           step == [p \in evidence \X V |-> p[1][2] + p[2]]
           Is(f) == f = [s \in SUBSET evidence |->
                            IF s = {} THEN 0 ELSE chosen(s)[2] + f[s \ {chosen(s)}]]
           sum == CHOOSE f : Is(f)
<1>1. \A T \in (SUBSET evidence) \ {{}} : chosen(T) \in T /\ chosen(T) \in evidence
    OBVIOUS
<1>2. Picks(pick, evidence)
    <2> HIDE DEF chosen
    <2> QED BY <1>1 DEF Picks
<1>3. step \in [evidence \X V -> V] /\ 0 \in V
    OBVIOUS
<1>4. PICK f \in [SUBSET evidence -> V] : IsFold(f, evidence, 0, pick, step)
    <2> HIDE DEF pick, step, V
    <2> QED BY <1>2, <1>3, FoldExists
<1>5. Is(f)
    <2>1. ASSUME NEW T \in SUBSET evidence, T # {}
          PROVE  f[T] = chosen(T)[2] + f[T \ {chosen(T)}]
        <3>1. /\ T \in (SUBSET evidence) \ {{}} /\ T \ {chosen(T)} \in SUBSET evidence
              /\ chosen(T) \in evidence
            BY <1>1, <2>1
        <3>2. f[T] = step[<<pick[T], f[T \ {pick[T]}]>>]
            BY <1>4, <3>1 DEF IsFold
        <3>3. pick[T] = chosen(T)
            BY <3>1
        <3> HIDE DEF pick, chosen
        <3>4. f[T \ {chosen(T)}] \in Int
            BY <3>1
        <3> QED BY <3>1, <3>2, <3>3, <3>4
    <2>2. f[{}] = 0
        BY <1>4 DEF IsFold
    <2> HIDE DEF chosen
    <2> QED BY <2>1, <2>2
<1>6. Is(sum)
    BY <1>5
<1>7. Score(evidence) = sum[evidence]
    BY DEF Score, MapThenSumSet, MapThenFoldSet
<1> DEFINE P == {T \in SUBSET evidence : sum[T] \in Int}
<1>8. \A T \in SUBSET evidence : T \in P
    <2> HIDE DEF sum
    <2>1. {} \in P
        <3>1. {} \in SUBSET evidence /\ sum[{}] = 0
            BY <1>6
        <3> QED BY <3>1
    <2>2. ASSUME NEW T \in (SUBSET evidence) \ {{}} PROVE \E x \in T : T \ {x} \in P => T \in P
        <3>1. chosen(T) \in T /\ chosen(T) \in evidence /\ T \in SUBSET evidence /\ T # {}
            BY <1>1
        <3>2. sum[T] = chosen(T)[2] + sum[T \ {chosen(T)}]
            BY <1>6, <3>1
        <3>3. chosen(T)[2] \in Int
            BY <3>1
        <3>4. T \ {chosen(T)} \in P => T \in P
            BY <3>1, <3>2, <3>3
        <3> QED BY <3>1, <3>4
    <2> HIDE DEF P
    <2> QED BY <2>1, <2>2, SetInduction
<1> QED BY <1>7, <1>8

(* The evidence for a pair is a choice of the rules there are.             *)
LEMMA EvidenceIsFinite ==
    ASSUME NEW d, NEW pair
    PROVE  IsFiniteSet(Evidence(d, pair)) /\ \A e \in Evidence(d, pair) : e[2] \in Int
<1> DEFINE rules == <<"NAME-EXACT", "NAME-NORMALIZED", "RESOURCE-ID", "SCHEMA-TYPE",
                      "SCHEMA-FORMAT", "RESOURCE-PATH", "LIFECYCLE-CREATE-READ", "AUTH-BEARER",
                      "TAG-SAME", "OPERATION-NAME", "GENERIC-ID", "VARIANT-SCHEMA",
                      "CROSS-RESOURCE">>
           Rules == {rules[i] : i \in 1 .. 13}
<1>1. IsFiniteSet(Rules)
    <2>1. IsFiniteSet(1 .. 13)
        <3> DEFINE n == 13
        <3>1. n \in Nat
            OBVIOUS
        <3> HIDE DEF n
        <3>2. IsFiniteSet(1 .. n)
            BY <3>1, FS_Interval
        <3> QED BY <3>2 DEF n
    <2> HIDE DEF rules
    <2> QED BY <2>1, ImageIsFinite
<1>2. /\ rules[1] \in Rules /\ rules[2] \in Rules /\ rules[3] \in Rules /\ rules[4] \in Rules
      /\ rules[5] \in Rules /\ rules[6] \in Rules /\ rules[7] \in Rules /\ rules[8] \in Rules
      /\ rules[9] \in Rules /\ rules[10] \in Rules /\ rules[11] \in Rules
      /\ rules[12] \in Rules /\ rules[13] \in Rules
    <2> HIDE DEF rules
    <2> QED OBVIOUS
<1>3. \A r \in {"NAME-EXACT", "NAME-NORMALIZED", "RESOURCE-ID", "SCHEMA-TYPE", "SCHEMA-FORMAT",
                 "RESOURCE-PATH", "LIFECYCLE-CREATE-READ", "AUTH-BEARER", "TAG-SAME",
                 "OPERATION-NAME", "GENERIC-ID", "VARIANT-SCHEMA", "CROSS-RESOURCE"} :
          r \in Rules
    <2> HIDE DEF Rules
    <2> QED BY <1>2
<1> HIDE DEF rules, Rules
<1>4. ASSUME NEW e \in Evidence(d, pair)
      PROVE  \/ e = <<"NAME-EXACT", 25>> \/ e = <<"NAME-NORMALIZED", 18>>
             \/ e = <<"RESOURCE-ID", 25>> \/ e = <<"SCHEMA-TYPE", 12>>
             \/ e = <<"SCHEMA-FORMAT", 10>> \/ e = <<"RESOURCE-PATH", 15>>
             \/ e = <<"LIFECYCLE-CREATE-READ", 20>> \/ e = <<"AUTH-BEARER", 65>>
             \/ e = <<"TAG-SAME", 4>> \/ e = <<"OPERATION-NAME", 6>>
             \/ e = <<"GENERIC-ID", 3>> \/ e = <<"VARIANT-SCHEMA", -10>>
             \/ e = <<"CROSS-RESOURCE", -20>>
    <2> DEFINE if(holds, rule, weight) == IF holds THEN {<<rule, weight>>} ELSE {}
    <2>1. \A holds, r, w : e \in if(holds, r, w) => e = <<r, w>>
        OBVIOUS
    <2> QED BY <2>1, Zenon DEF Evidence
<1>5. \A e \in Evidence(d, pair) : e \in Rules \X (-20 .. 65) /\ e[2] \in Int
    BY <1>3, <1>4
<1>6. IsFiniteSet(Rules \X (-20 .. 65))
    <2> DEFINE m == -20
               n == 65
    <2>1. m \in Int /\ n \in Int
        OBVIOUS
    <2> HIDE DEF m, n
    <2>2. IsFiniteSet(m .. n)
        BY <2>1, FS_Interval
    <2>3. IsFiniteSet(Rules \X (m .. n))
        BY <1>1, <2>2, FS_Product
    <2> QED BY <2>3 DEF m, n
<1>7. Evidence(d, pair) \in SUBSET (Rules \X (-20 .. 65))
    BY <1>5
<1> QED BY <1>5, <1>6, <1>7, FS_Subset

(* The confidence is a number of hundredths, whatever the evidence.        *)
LEMMA ConfidenceIsANumber ==
    ASSUME NEW d, NEW pair
    PROVE  LET evidence == Evidence(d, pair)
           IN Score(evidence) \in Int /\ Confidence(evidence) \in 0 .. 100
<1> DEFINE evidence == Evidence(d, pair)
           score == Score(evidence)
           weak == IF score < 0 THEN 0 ELSE IF score < 59 THEN score ELSE 59
           full == CASE score >= 80 -> 95
                     [] score \in 65 .. 79 -> 88
                     [] score \in 50 .. 64 -> 78
                     [] score \in 35 .. 49 -> 68
                     [] OTHER -> weak
<1>1. score \in Int
    <2> HIDE DEF evidence
    <2>1. IsFiniteSet(evidence) /\ \A e \in evidence : e[2] \in Int
        BY EvidenceIsFinite DEF evidence
    <2> QED BY <2>1, ScoreIsANumber
<1> HIDE DEF score
<1>2. weak \in 0 .. 59
    BY <1>1
<1> HIDE DEF weak
<1>3. full \in 0 .. 100
    BY <1>1, <1>2
<1> HIDE DEF full
<1>4. Confidence(evidence) = IF \E e \in evidence : e[1] \in StrongRules \/ full <= 59
                             THEN full ELSE 59
    BY DEF Confidence, full, weak, score
<1>5. Confidence(evidence) \in 0 .. 100
    BY <1>3, <1>4
<1> QED BY <1>1, <1>5 DEF score

(* A suggestion that is kept has one of the bands.                         *)
LEMMA KeptIsConfident ==
    ASSUME NEW d, NEW pair, NEW c, NEW candidate, candidate = Candidate(d, pair), Kept(c, candidate)
    PROVE  candidate.score \in Int /\ candidate.confidence \in 60 .. 100
<1>1. candidate.score \in Int /\ candidate.confidence \in 0 .. 100
    BY ConfidenceIsANumber DEF Candidate
<1>2. Band(candidate.confidence) # "none"
    BY DEF Kept
<1> QED BY <1>1, <1>2 DEF Band
-----------------------------------------------------------------------------
(* Suggestions that can be told apart come one before the other.           *)
Comparable(S) ==
    /\ \A c \in S : c.confidence \in Int /\ c.score \in Int /\ c.found \in Int
    /\ \A c \in S, d \in S : c.found = d.found => c = d

(* Of suggestions that can be told apart one comes before the other, and   *)
(* the one after is not more confident.                                    *)
LEMMA BeforeIsAnOrder ==
    ASSUME NEW S, Comparable(S)
    PROVE  /\ \A c \in S : ~Before(c, c)
           /\ \A c \in S, d \in S : c # d => Before(c, d) \/ Before(d, c)
           /\ \A c \in S, d \in S : ~Before(c, d) => d.confidence >= c.confidence
           /\ \A c \in S, d \in S, e \in S : Before(c, d) /\ Before(d, e) => Before(c, e)
<1>1. \A c \in S : ~Before(c, c)
    BY DEF Comparable, Before
<1>2. \A c \in S, d \in S : c # d => Before(c, d) \/ Before(d, c)
    BY DEF Comparable, Before
<1>3. \A c \in S, d \in S : ~Before(c, d) => d.confidence >= c.confidence
    BY DEF Comparable, Before
<1>4. ASSUME NEW c \in S, NEW d \in S, NEW e \in S, Before(c, d), Before(d, e) PROVE Before(c, e)
    BY <1>4 DEF Comparable, Before
<1> QED BY <1>1, <1>2, <1>3, <1>4

(* The better of a finite set, and how many there are before one.          *)
Better(S, c) == {d \in S : Before(d, c)}

(* A suggestion has fewer better ones than there are, and than any that it *)
(* comes before.                                                           *)
LEMMA BetterAreFewer ==
    ASSUME NEW S, IsFiniteSet(S), Comparable(S), NEW c \in S
    PROVE  /\ Cardinality(Better(S, c)) \in 0 .. Cardinality(S) - 1
           /\ \A d \in S : Before(c, d) => Cardinality(Better(S, c)) < Cardinality(Better(S, d))
<1>1. Better(S, c) \in SUBSET S /\ c \notin Better(S, c)
    BY BeforeIsAnOrder DEF Better
<1>2. \A T \in SUBSET S :
          IsFiniteSet(T) /\ Cardinality(T) \in Nat /\ Cardinality(T) <= Cardinality(S)
    BY FS_Subset, FS_CardinalityType
<1>3. ASSUME NEW T \in SUBSET S, Better(S, c) \subseteq T, c \in T
      PROVE  Cardinality(Better(S, c)) < Cardinality(T)
    <2>1. IsFiniteSet(T) /\ Cardinality(T) \in Nat /\ Better(S, c) \in SUBSET T
        BY <1>2, <1>3
    <2>2. Cardinality(Better(S, c)) <= Cardinality(T) /\ Cardinality(Better(S, c)) # Cardinality(T)
        BY <1>1, <1>3, <2>1, FS_Subset
    <2>3. Cardinality(Better(S, c)) \in Nat
        BY <1>1, <1>2
    <2> QED BY <2>1, <2>2, <2>3
<1>4. ASSUME NEW d \in S, Before(c, d)
      PROVE  Cardinality(Better(S, c)) < Cardinality(Better(S, d))
    <2>1. Better(S, d) \in SUBSET S /\ Better(S, c) \subseteq Better(S, d) /\ c \in Better(S, d)
        BY <1>4, BeforeIsAnOrder DEF Better
    <2> QED BY <1>3, <2>1
<1>5. Cardinality(Better(S, c)) \in Nat /\ Cardinality(Better(S, c)) < Cardinality(S)
      /\ Cardinality(S) \in Nat
    BY <1>1, <1>2, <1>3
<1> QED BY <1>4, <1>5

(* The best are as many as are asked for unless there are fewer, and none  *)
(* that is left out comes before one of them.                              *)
LEMMA BestAreBest ==
    ASSUME NEW S, IsFiniteSet(S), Comparable(S), NEW k \in Nat
    PROVE  /\ Best(S, k) \subseteq S /\ Cardinality(Best(S, k)) <= k
           /\ Cardinality(S) <= k => Best(S, k) = S
           /\ \A c \in S \ Best(S, k) :
                 /\ Cardinality(Best(S, k)) = k
                 /\ \A d \in Best(S, k) : ~Before(c, d)
<1> DEFINE n == Cardinality(S)
           rank == [c \in S |-> Cardinality(Better(S, c))]
           B == {c \in S : rank[c] < k}
<1>1. n \in Nat /\ IsFiniteSet(0 .. n - 1) /\ Cardinality(0 .. n - 1) = n
    <2>1. n \in Nat
        BY FS_CardinalityType
    <2> HIDE DEF n
    <2>2. /\ IsFiniteSet(0 .. n - 1)
          /\ Cardinality(0 .. n - 1) = IF 0 > n - 1 THEN 0 ELSE (n - 1) - 0 + 1
        BY <2>1, FS_Interval
    <2> QED BY <2>1, <2>2
<1>2. rank \in [S -> 0 .. n - 1]
    BY BetterAreFewer
<1>3. \A c \in S, d \in S : Before(c, d) => rank[c] < rank[d]
    BY BetterAreFewer
<1>4. B = Best(S, k)
    BY DEF Best, Better
<1> HIDE DEF rank
<1>5. \A c \in S : rank[c] \in 0 .. n - 1
    BY <1>2
<1>6. \A c \in S, d \in S : rank[c] = rank[d] => c = d
    BY <1>1, <1>3, <1>5, BeforeIsAnOrder
<1>7. \A i \in 0 .. n - 1 : \E c \in S : rank[c] = i
    <2>1. rank \in Injection(S, 0 .. n - 1)
        BY <1>2, <1>6 DEF Injection, IsInjective
    <2> HIDE DEF n
    <2>2. rank \in Surjection(S, 0 .. n - 1)
        BY <1>1, <2>1, FS_Injection DEF n
    <2> QED BY <2>2 DEF Surjection
<1> HIDE DEF n
<1>8. IsFiniteSet(0 .. k - 1) /\ Cardinality(0 .. k - 1) = k
    <2>1. /\ IsFiniteSet(0 .. k - 1)
          /\ Cardinality(0 .. k - 1) = IF 0 > k - 1 THEN 0 ELSE (k - 1) - 0 + 1
        BY FS_Interval
    <2> QED BY <2>1
<1> DEFINE place == [c \in B |-> rank[c]]
<1>9. place \in Injection(B, 0 .. k - 1)
    <2>1. place \in [B -> 0 .. k - 1]
        BY <1>1, <1>5
    <2> QED BY <1>6, <2>1 DEF Injection, IsInjective
<1>10. /\ IsFiniteSet(B) /\ Cardinality(B) <= k
       /\ Cardinality(B) = k <=> place \in Surjection(B, 0 .. k - 1)
    <2> HIDE DEF place, B
    <2> QED BY <1>8, <1>9, FS_Injection
<1>11. n <= k => B = S
    BY <1>1, <1>5
<1>12. ASSUME NEW c \in S \ B PROVE Cardinality(B) = k /\ \A d \in B : ~Before(c, d)
    <2>1. rank[c] >= k /\ rank[c] \in 0 .. n - 1
        BY <1>5
    <2>2. \A i \in 0 .. k - 1 : \E d \in B : place[d] = i
        BY <1>1, <1>7, <2>1
    <2>3. place \in Surjection(B, 0 .. k - 1)
        BY <1>9, <2>2 DEF Injection, Surjection
    <2>4. \A d \in B : ~Before(c, d)
        BY <1>1, <1>3, <1>5, <2>1
    <2> QED BY <1>10, <2>3, <2>4
<1> HIDE DEF B
<1> QED BY <1>4, <1>10, <1>11, <1>12 DEF n, Best

-----------------------------------------------------------------------------
(* From where one starts, what is reached is closed under the flow.        *)
LEMMA ReachedIsClosed ==
    ASSUME NEW declared, IsFiniteSet(Flow(declared)), NEW operation
    PROVE  /\ operation \in ReachedFrom(operation, declared)
           /\ \A f \in Flow(declared) :
                 f[1] \in ReachedFrom(operation, declared) =>
                     f[2] \in ReachedFrom(operation, declared)
<1> DEFINE F == Flow(declared)
           k == Cardinality(F)
           all == {f[2] : f \in F} \cup {operation}
           V == SUBSET all
           After(S) == S \cup {e[2] : e \in {f \in F : f[1] \in S}}
           step == [p \in Int \X V |-> After(p[2])]
           Is(g) == g = [n \in 0 .. k |-> IF n = 0 THEN {operation} ELSE After(g[n - 1])]
           near == CHOOSE g : Is(g)
           Closed(S) == \A f \in F : f[1] \in S => f[2] \in S
<1>1. k \in Nat /\ IsFiniteSet(all) /\ Cardinality(all) <= k + 1
    <2> DEFINE heads == {f[2] : f \in F}
               second == [f \in F |-> f[2]]
    <2>1. IsFiniteSet(F) /\ k \in Nat
        BY FS_CardinalityType
    <2>2. heads = {second[f] : f \in F}
        OBVIOUS
    <2>3. IsFiniteSet(heads) /\ Cardinality(heads) <= k
        <3> HIDE DEF heads, second, F
        <3>1. /\ IsFiniteSet({second[f] : f \in F})
              /\ Cardinality({second[f] : f \in F}) <= Cardinality(F)
            BY <2>1, ImageIsFinite
        <3> QED BY <2>2, <3>1
    <2> HIDE DEF heads, k
    <2>4. /\ IsFiniteSet(heads \cup {operation}) /\ Cardinality(heads) \in Nat
          /\ Cardinality(heads \cup {operation}) \in Nat
          /\ Cardinality(heads \cup {operation}) <= Cardinality(heads) + 1
        BY <2>3, OneMore, FS_CardinalityType
    <2>5. Cardinality(heads \cup {operation}) <= k + 1
        BY <2>1, <2>3, <2>4
    <2> QED BY <2>1, <2>4, <2>5 DEF heads
<1>2. \A T \in V : After(T) \in V
    OBVIOUS
<1>3. step \in [Int \X V -> V] /\ {operation} \in V
    BY <1>2
<1>4. PICK g \in [0 .. k -> V] : IsRecursion(g, k, {operation}, step)
    <2> HIDE DEF step, V, k
    <2> QED BY <1>1, <1>3, RecursionExists
<1>5. Is(g)
    <2>1. ASSUME NEW n \in 0 .. k, n # 0 PROVE g[n] = After(g[n - 1])
        <3>1. n \in 1 .. k /\ n - 1 \in 0 .. k /\ n \in Int
            BY <1>1, <2>1
        <3>2. g[n] = step[<<n, g[n - 1]>>] /\ g[n - 1] \in V
            BY <1>4, <3>1 DEF IsRecursion
        <3> QED BY <3>1, <3>2
    <2>2. g[0] = {operation}
        BY <1>4 DEF IsRecursion
    <2> HIDE DEF After, V, k
    <2> QED BY <1>4, <2>1, <2>2
<1>6. Is(near)
    BY <1>5
<1>7. ReachedFrom(operation, declared) = near[k]
    BY DEF ReachedFrom
<1>8. /\ near[0] = {operation} /\ \A n \in 1 .. k : near[n] = After(near[n - 1])
      /\ 0 \in 0 .. k /\ k \in 0 .. k
    <2> HIDE DEF near, After, k
    <2>1. /\ \A n \in 1 .. k : n \in 0 .. k /\ n # 0
          /\ 0 \in 0 .. k /\ k \in 0 .. k
        BY <1>1
    <2> QED BY <1>6, <2>1
<1> HIDE DEF near
<1> DEFINE P == {n \in 0 .. k : /\ near[n] \in V /\ operation \in near[n]
                                /\ Closed(near[n]) \/ Cardinality(near[n]) > n}
<1>9. \A T \in V : IsFiniteSet(T) /\ Cardinality(T) \in Nat /\ Cardinality(T) <= Cardinality(all)
    <2> HIDE DEF all
    <2> QED BY <1>1, FS_Subset, FS_CardinalityType
<1>10. 0 \in P
    <2>1. Cardinality({operation}) = 1
        BY FS_Singleton
    <2>2. near[0] \in V /\ operation \in near[0] /\ Cardinality(near[0]) > 0
        BY <1>3, <1>8, <2>1
    <2> QED BY <1>8, <2>2
<1>11. ASSUME NEW n \in 1 .. k, n - 1 \in P PROVE n \in P
    <2> DEFINE T == near[n - 1]
    <2>1. /\ near[n] = After(T) /\ n \in 0 .. k /\ n \in Int /\ T \in V /\ operation \in T
          /\ Closed(T) \/ Cardinality(T) > n - 1
        BY <1>1, <1>8, <1>11
    <2> HIDE DEF T
    <2>2. near[n] \in V /\ T \subseteq near[n] /\ operation \in near[n]
        BY <1>2, <2>1
    <2>3. CASE near[n] = T
        <3>1. Closed(near[n])
            BY <2>1, <2>3
        <3> HIDE DEF Closed, V
        <3> QED BY <2>1, <2>2, <3>1
    <2>4. CASE near[n] # T
        <3>1. ~Closed(T)
            BY <2>1, <2>4
        <3> HIDE DEF Closed, V
        <3>2. Cardinality(T) <= Cardinality(near[n]) /\ Cardinality(T) # Cardinality(near[n])
            BY <1>9, <2>2, <2>4, FS_Subset
        <3>3. Cardinality(T) \in Nat /\ Cardinality(near[n]) \in Nat
            BY <1>9, <2>1, <2>2
        <3>4. Cardinality(near[n]) > n
            BY <2>1, <3>1, <3>2, <3>3
        <3> QED BY <2>1, <2>2, <3>4
    <2> QED BY <2>3, <2>4
<1>12. \A n \in 0 .. k : n \in P
    <2> HIDE DEF P, k
    <2> QED BY <1>1, <1>10, <1>11, UpToInduction
<1>13. /\ near[k] \in V /\ operation \in near[k]
       /\ Closed(near[k]) \/ Cardinality(near[k]) > k
    BY <1>8, <1>12
<1>14. Closed(near[k])
    <2>1. CASE Cardinality(near[k]) > k
        <3>1. Cardinality(near[k]) = Cardinality(all)
            BY <1>1, <1>9, <1>13, <2>1, FS_CardinalityType
        <3>2. near[k] = all
            <4> HIDE DEF all
            <4> QED BY <1>1, <1>13, <3>1, FS_Subset
        <3> QED BY <3>2
    <2> QED BY <1>13, <2>1
<1> QED BY <1>7, <1>13, <1>14

(* A step back to where one cannot be reached from closes no new cycle.    *)
LEMMA NoNewCycle ==
    ASSUME NEW declared, IsFiniteSet(Flow(declared)), NEW from, NEW to,
           ~ClosesCycle(declared, from, to), Cyclic(Flow(declared) \cup {<<from, to>>})
    PROVE  Cyclic(Flow(declared))
<1> DEFINE F == Flow(declared)
           more == F \cup {<<from, to>>}
           R == ReachedFrom(to, declared)
<1>1. from \notin R /\ to \in R /\ \A f \in F : f[1] \in R => f[2] \in R
    BY ReachedIsClosed DEF ClosesCycle
<1>2. PICK S : S # {} /\ \A x \in S : \E y \in S : <<x, y>> \in more
    BY DEF Cyclic
<1> HIDE DEF F, R
<1>3. ASSUME NEW T, T # {}, \A x \in T : \E y \in T : <<x, y>> \in F
      PROVE  Cyclic(F)
    <2>1. \A x \in T : \E f \in F : x = f[1]
        <3>1. \A x, y : <<x, y>>[1] = x
            OBVIOUS
        <3> QED BY <1>3, <3>1
    <2>2. T \in (SUBSET {s[1] : s \in F}) \ {{}}
        BY <1>3, <2>1
    <2> QED BY <1>3, <2>2 DEF Cyclic
<1>4. CASE \A x \in S : \E y \in S : <<x, y>> \in F
    BY <1>2, <1>3, <1>4 DEF F
<1>5. CASE ~ \A x \in S : \E y \in S : <<x, y>> \in F
    <2>1. from \in S /\ to \in S
        BY <1>2, <1>5
    <2>2. \A x \in S \cap R : \E y \in S \cap R : <<x, y>> \in F
        <3>1. SUFFICES ASSUME NEW x \in S \cap R PROVE \E y \in S \cap R : <<x, y>> \in F
            OBVIOUS
        <3>2. PICK y \in S : <<x, y>> \in more
            BY <1>2
        <3>3. <<x, y>> \in F
            BY <1>1, <3>2
        <3>4. y \in R
            BY <1>1, <3>3
        <3> QED BY <3>3, <3>4
    <2>3. S \cap R # {}
        BY <1>1, <2>1
    <2> QED BY <1>3, <2>2, <2>3 DEF F
<1> QED BY <1>4, <1>5

-----------------------------------------------------------------------------
(* A document that was not normalized has no operations.                   *)
LEMMA NormalizedIs ==
    ASSUME NEW r
    PROVE  LET d == Normalized(r)
           IN \/ d.operations = {} /\ d.ok = FALSE
              \/ /\ r.paths # Bad /\ Misplaced(r) = {}
                 /\ d.operations = ResolvedLinks(Operations(r))
                 /\ d.schemas =
                       [s \in DOMAIN r.schemas |-> NormalSchema(r.schemas[s], r.components)]
<1>1. CASE ~VersionOf(r).ok
    BY <1>1 DEF Normalized, NoDocument
<1>2. CASE VersionOf(r).ok /\ r.paths = Bad
    BY <1>2 DEF Normalized, NoDocument
<1>3. CASE VersionOf(r).ok /\ r.paths # Bad /\ Misplaced(r) # {}
    BY <1>3 DEF Normalized, NoDocument
<1>4. CASE VersionOf(r).ok /\ r.paths # Bad /\ Misplaced(r) = {}
    BY <1>4 DEF Normalized
<1> QED BY <1>1, <1>2, <1>3, <1>4

(* An operation is that of one place in the document.                      *)
LEMMA OperationIs ==
    ASSUME NEW r, NEW o \in ResolvedLinks(Operations(r))
    PROVE  \E p \in DOMAIN r.paths :
              \E m \in Methods \cap DOMAIN r.paths[p].operations :
                 /\ o = ResolvedOperation(Operations(r), NormalOperation(r, p, m))
                 /\ NormalOperation(r, p, m) \in Operations(r)
                 /\ <<m, p>> \in Places(r)
<1>1. PICK place \in Places(r) :
           o = ResolvedOperation(Operations(r), NormalOperation(r, place[2], place[1]))
    BY DEF ResolvedLinks, Operations
<1>2. PICK p \in DOMAIN r.paths :
          place \in {<<m, p>> : m \in Methods \cap DOMAIN r.paths[p].operations}
    BY <1>1 DEF Places
<1>3. PICK m \in Methods \cap DOMAIN r.paths[p].operations : place = <<m, p>>
    BY <1>2
<1>4. place[1] = m /\ place[2] = p
    BY <1>3
<1>5. NormalOperation(r, p, m) \in Operations(r)
    BY <1>1, <1>4 DEF Operations
<1> QED BY <1>1, <1>3, <1>4, <1>5

(* What a resolved operation keeps of the operation in the document.       *)
LEMMA OperationHas ==
    ASSUME NEW r, NEW p, NEW m, NEW operations
    PROVE  LET o == ResolvedOperation(operations, NormalOperation(r, p, m))
               item == r.paths[p]
               own == item.operations[m]
           IN /\ o.id = <<m, p>> /\ o.path = p /\ o.method = m
              /\ o.parameters = MergedParameters(item.parameters, own.parameters)
              /\ o.body = WithoutBad(own.body)
              /\ DOMAIN o.responses = DOMAIN own.responses
              /\ \A i \in DOMAIN own.responses :
                    o.responses[i].media = WithoutBad(own.responses[i].media)
<1> DEFINE n == NormalOperation(r, p, m)
           o == ResolvedOperation(operations, n)
           item == r.paths[p]
           own == item.operations[m]
           responses == [i \in DOMAIN n.responses |->
                            ResolvedResponse(operations, n.responses[i])]
<1>1. o = [n EXCEPT !.responses = responses]
    <2> HIDE DEF n
    <2> QED BY DEF ResolvedOperation
<1>2. /\ n.id = <<m, p>> /\ n.path = p /\ n.method = m
      /\ n.parameters = MergedParameters(item.parameters, own.parameters)
      /\ n.body = WithoutBad(own.body)
      /\ n.responses = [i \in DOMAIN own.responses |-> NormalResponse(own.responses[i])]
      /\ {"id", "path", "method", "parameters", "body", "responses"} \subseteq DOMAIN n
    BY DEF NormalOperation, Key
<1> HIDE DEF n, responses
<1>3. /\ o.id = n.id /\ o.path = n.path /\ o.method = n.method /\ o.parameters = n.parameters
      /\ o.body = n.body /\ o.responses = responses
    BY <1>1, <1>2
<1>4. ASSUME NEW i \in DOMAIN own.responses
      PROVE  responses[i].media = WithoutBad(own.responses[i].media)
    <2>1. n.responses[i] = NormalResponse(own.responses[i]) /\ i \in DOMAIN n.responses
        BY <1>2
    <2>2. /\ n.responses[i].media = WithoutBad(own.responses[i].media)
          /\ {"media", "links"} \subseteq DOMAIN n.responses[i]
        <3> DEFINE x == own.responses[i]
                   y == NormalResponse(x)
        <3>1. y.media = WithoutBad(x.media) /\ {"media", "links"} \subseteq DOMAIN y
            <4> HIDE DEF x
            <4>1. y.media = WithoutBad(x.media)
                BY DEF NormalResponse
            <4>2. DOMAIN y = {"status", "media", "links"}
                BY DEF NormalResponse
            <4> QED BY <4>1, <4>2
        <3> QED BY <2>1, <3>1
    <2>3. responses[i].media = n.responses[i].media
        BY <2>1, <2>2 DEF responses, ResolvedResponse
    <2> QED BY <2>2, <2>3
<1>5. DOMAIN responses = DOMAIN own.responses
    BY <1>2 DEF responses
<1> HIDE DEF o
<1>6. QED
    BY <1>2, <1>3, <1>4, <1>5 DEF o, n

(* Of the parameters with the same key the one that the operation says     *)
(* last is kept, alone.                                                    *)
LEMMA LastParameterCounts ==
    ASSUME NEW path, InOrder(path), NEW own, InOrder(own), NEW i \in DOMAIN own, IsParameter(own[i])
    PROVE  \E p \in MergedParameters(path, own) :
              /\ p \in ToSet(own) /\ ParameterKey(p) = ParameterKey(own[i])
              /\ \A q \in MergedParameters(path, own) : ParameterKey(q) = ParameterKey(p) => q = p
<1> DEFINE all == path \o own
           found == {k \in DOMAIN all : IsParameter(all[k])}
           alike == {k \in found : ParameterKey(all[k]) = ParameterKey(own[i])}
           n == Len(path) + i
<1>1. /\ Len(path) \in Nat /\ Len(own) \in Nat /\ i \in 1 .. Len(own)
      /\ n \in 1 .. Len(path) + Len(own)
      /\ DOMAIN all = 1 .. Len(path) + Len(own)
      /\ \A k \in 1 .. Len(path) + Len(own) :
            all[k] = IF k <= Len(path) THEN path[k] ELSE own[k - Len(path)]
    BY DEF InOrder
<1> HIDE DEF all
<1>2. all[n] = own[i] /\ n \in DOMAIN all
    BY <1>1
<1> HIDE DEF n
<1>3. n \in alike
    BY <1>2
<1>4. PICK last \in alike : \A k \in alike : k <= last
    <2> DEFINE S == 1 .. Len(path) + Len(own)
               rank == [k \in S |-> k]
    <2>1. IsFiniteSet(S)
        <3>1. Len(path) + Len(own) \in Int
            BY <1>1
        <3> QED BY <3>1, FS_Interval
    <2>2. rank \in [S -> Int] /\ alike \in SUBSET S /\ \A k \in alike : rank[k] = k
        BY <1>1
    <2> HIDE DEF S, rank, alike
    <2>3. PICK x \in alike : \A y \in alike : rank[y] <= rank[x]
        BY <1>3, <2>1, <2>2, HighestRank
    <2> QED BY <2>2, <2>3
<1>5. n <= last /\ last \in 1 .. Len(path) + Len(own)
    BY <1>1, <1>3, <1>4
<1>6. all[last] \in ToSet(own)
    <2>1. all[last] = own[last - Len(path)] /\ last - Len(path) \in 1 .. Len(own)
        BY <1>1, <1>5 DEF n
    <2> QED BY <2>1 DEF ToSet, InOrder
<1>7. MergedParameters(path, own) =
        {all[k] : k \in {x \in found :
            \A j \in found : ParameterKey(all[j]) = ParameterKey(all[x]) => j <= x}}
    BY DEF MergedParameters, all
<1>8. all[last] \in MergedParameters(path, own) /\ ParameterKey(all[last]) = ParameterKey(own[i])
    BY <1>4, <1>7
<1>9. ASSUME NEW q \in MergedParameters(path, own), ParameterKey(q) = ParameterKey(all[last])
      PROVE  q = all[last]
    <2>1. PICK k \in found :
               q = all[k] /\ \A j \in found : ParameterKey(all[j]) = ParameterKey(all[k]) => j <= k
        BY <1>7
    <2>2. k \in alike /\ last <= k /\ k <= last
        BY <1>4, <1>8, <1>9, <2>1
    <2>3. k = last
        BY <1>1, <1>5, <2>1, <2>2
    <2> QED BY <2>1, <2>3
<1> QED BY <1>6, <1>8, <1>9

(* What is kept of the parameters has one of the places there are.         *)
LEMMA ParametersHavePlaces ==
    ASSUME NEW path, NEW own, NEW p \in MergedParameters(path, own)
    PROVE  p.location \in Locations
BY DEF MergedParameters, IsParameter

(* An operation of the document and the place it is from.                  *)
LEMMA OperationComesFrom ==
    ASSUME NEW given \in Inputs, NEW o \in Normalized(given.raw).operations
    PROVE  LET r == given.raw
           IN /\ r.paths # Bad /\ Normalized(r).operations = ResolvedLinks(Operations(r))
              /\ Normalized(r).schemas =
                    [s \in DOMAIN r.schemas |-> NormalSchema(r.schemas[s], r.components)]
              /\ \E p \in DOMAIN r.paths :
                    \E m \in Methods \cap DOMAIN r.paths[p].operations :
                       /\ o = ResolvedOperation(Operations(r), NormalOperation(r, p, m))
                       /\ r.paths[p].operations[m] # Bad
<1> DEFINE r == given.raw
<1>1. /\ r.paths # Bad /\ Misplaced(r) = {}
      /\ Normalized(r).operations = ResolvedLinks(Operations(r))
      /\ Normalized(r).schemas =
            [s \in DOMAIN r.schemas |-> NormalSchema(r.schemas[s], r.components)]
    BY NormalizedIs
<1>2. PICK p \in DOMAIN r.paths, m \in Methods :
         /\ m \in DOMAIN r.paths[p].operations
         /\ o = ResolvedOperation(Operations(r), NormalOperation(r, p, m))
         /\ <<m, p>> \in Places(r)
    <2>1. o \in ResolvedLinks(Operations(r))
        BY <1>1
    <2> HIDE DEF r
    <2> QED BY <2>1, OperationIs
<1>3. r.paths[p].operations[m] # Bad
    <2> HIDE DEF r
    <2>1. <<m, p>>[1] = m /\ <<m, p>>[2] = p
        OBVIOUS
    <2> QED BY <1>1, <1>2, <2>1 DEF Misplaced
<1> QED BY <1>1, <1>2, <1>3

(* The parameters of a normalized document are those that speak last.      *)
LEMMA SpeaksLast ==
    ASSUME NEW given \in Inputs, raw = given.raw, document = Normalized(raw)
    PROVE  OperationsSpeakLast
<1>1. SUFFICES ASSUME NEW o \in document.operations
      PROVE  LET own == raw.paths[o.path].operations[o.method].parameters
             IN \A i \in DOMAIN own :
                  IsParameter(own[i]) =>
                      \E p \in o.parameters :
                          /\ p \in ToSet(own) /\ ParameterKey(p) = ParameterKey(own[i])
                          /\ \A q \in o.parameters : ParameterKey(q) = ParameterKey(p) => q = p
    BY DEF OperationsSpeakLast
<1>2. PICK p \in DOMAIN raw.paths, m \in Methods :
           /\ m \in DOMAIN raw.paths[p].operations
           /\ o = ResolvedOperation(Operations(raw), NormalOperation(raw, p, m))
           /\ raw.paths # Bad /\ raw.paths[p].operations[m] # Bad
    BY <1>1, OperationComesFrom
<1> DEFINE item == raw.paths[p]
           own == item.operations[m].parameters
<1>3. InOrder(item.parameters) /\ InOrder(own)
    BY <1>2, InputsAssumption
<1>4. o.path = p /\ o.method = m /\ o.parameters = MergedParameters(item.parameters, own)
    BY <1>2, OperationHas
<1>5. raw.paths[o.path].operations[o.method].parameters = own
    BY <1>4
<1>6. \A i \in DOMAIN own : IsParameter(own[i]) =>
          \E q \in o.parameters :
              /\ q \in ToSet(own) /\ ParameterKey(q) = ParameterKey(own[i])
              /\ \A s \in o.parameters : ParameterKey(s) = ParameterKey(q) => s = q
    <2> HIDE DEF item, own
    <2> QED BY <1>3, <1>4, LastParameterCounts
<1> HIDE DEF own
<1> QED BY <1>5, <1>6

-----------------------------------------------------------------------------
(* An operation is known by its method and its path.                       *)
LEMMA IdsAreUnique ==
    ASSUME NEW given \in Inputs, NEW d, d = Normalized(given.raw), NEW o \in d.operations
    PROVE  o.id # Absent /\ \A t \in d.operations : t.id = o.id => t = o
<1> DEFINE r == given.raw
<1>1. ASSUME NEW t \in d.operations
      PROVE  \E p \in DOMAIN r.paths, m \in Methods :
                /\ m \in DOMAIN r.paths[p].operations /\ r.paths # Bad
                /\ t = ResolvedOperation(Operations(r), NormalOperation(r, p, m))
                /\ t.id = <<m, p>>
    <2>1. PICK p \in DOMAIN r.paths, m \in Methods :
              /\ m \in DOMAIN r.paths[p].operations /\ r.paths # Bad
              /\ t = ResolvedOperation(Operations(r), NormalOperation(r, p, m))
        BY OperationComesFrom
    <2>2. t.id = <<m, p>>
        <3> HIDE DEF r
        <3> QED BY <2>1, OperationHas
    <2> QED BY <2>1, <2>2
<1>2. PICK p \in DOMAIN r.paths, m \in Methods :
          /\ m \in DOMAIN r.paths[p].operations /\ r.paths # Bad
          /\ o = ResolvedOperation(Operations(r), NormalOperation(r, p, m))
          /\ o.id = <<m, p>>
    BY <1>1
<1>3. o.id # Absent
    BY <1>2, InputsAssumption DEF Key
<1>4. ASSUME NEW t \in d.operations, t.id = o.id PROVE t = o
    <2>1. PICK q \in DOMAIN r.paths, k \in Methods :
              /\ t = ResolvedOperation(Operations(r), NormalOperation(r, q, k))
              /\ t.id = <<k, q>>
        BY <1>1
    <2>2. q = p /\ k = m
        BY <1>2, <1>4, <2>1
    <2> QED BY <1>2, <2>1, <2>2
<1> QED BY <1>3, <1>4

(* A link that leads to an operation is joined to it.                      *)
LEMMA LinksAreJoined ==
    ASSUME NEW given \in Inputs, NEW d, d = Normalized(given.raw),
           NEW o \in d.operations, NEW t \in d.operations, NEW l \in LinksOf(o), l.to = t.id
    PROVE  [from |-> o.id, to |-> t, link |-> l] \in Joined(d)
<1>1. l.to # Absent /\ (CHOOSE x \in d.operations : x.id = l.to) = t
    BY IdsAreUnique
<1> DEFINE To(k) == CHOOSE x \in d.operations : x.id = k.to
           Of(x) == {[from |-> x.id, to |-> To(k), link |-> k] :
                        k \in {k \in LinksOf(x) : k.to # Absent}}
<1>2. Joined(d) = UNION {Of(x) : x \in d.operations}
    BY DEF Joined
<1>3. [from |-> o.id, to |-> t, link |-> l] \in Of(o)
    <2>1. l \in {k \in LinksOf(o) : k.to # Absent} /\ To(l) = t
        BY <1>1
    <2> HIDE DEF To
    <2> QED BY <2>1
<1> HIDE DEF Of
<1> QED BY <1>2, <1>3

(* What a joined link maps is on the edge between its two operations.      *)
LEMMA MappingsAreOnEdges ==
    ASSUME NEW d, NEW j \in Joined(d), NEW m \in LinkMappings(j.to, j.link)
    PROVE  \E e \in LinkEdges(d) :
              e.kind = "data" /\ e.from = j.from /\ e.to = j.to.id /\ m \in e.mappings
<1> DEFINE from == j.from
           to == j.to.id
           e == [kind |-> "data", from |-> from, to |-> to, mappings |-> Bucket(d, from, to)]
<1>1. m \in Bucket(d, from, to)
    <2>1. j \in {k \in Joined(d) : k.from = from /\ k.to.id = to}
        OBVIOUS
    <2> QED BY <2>1 DEF Bucket
<1>2. <<from, to>> \in {x \in {<<k.from, k.to.id>> : k \in Joined(d)} : Bucket(d, x[1], x[2]) # {}}
    <2>1. <<from, to>> \in {<<k.from, k.to.id>> : k \in Joined(d)}
        OBVIOUS
    <2>2. <<from, to>>[1] = from /\ <<from, to>>[2] = to
        OBVIOUS
    <2> HIDE DEF from, to
    <2> QED BY <1>1, <2>1, <2>2
<1>3. e \in LinkEdges(d)
    <2> DEFINE Ends == {x \in {<<k.from, k.to.id>> : k \in Joined(d)} : Bucket(d, x[1], x[2]) # {}}
               On(x) == [kind |-> "data", from |-> x[1], to |-> x[2],
                         mappings |-> Bucket(d, x[1], x[2])]
    <2>1. LinkEdges(d) = {On(x) : x \in Ends}
        BY DEF LinkEdges
    <2>2. e = On(<<from, to>>) /\ <<from, to>> \in Ends
        BY <1>2
    <2> HIDE DEF from, to, e, On, Ends
    <2> QED BY <2>1, <2>2
<1> QED BY <1>1, <1>3

(* All that links declare is data.                                         *)
LEMMA EdgesAreData == ASSUME NEW d PROVE \A e \in LinkEdges(d) : e.kind = "data"
BY DEF LinkEdges

(* The flow is that of the edges which come from somewhere else.           *)
LEMMA FlowIsGiven ==
    ASSUME NEW d, NEW others, IsFiniteSet(others)
    PROVE  IsFiniteSet(Flow(LinkEdges(d) \cup others))
<1> DEFINE F == Flow(LinkEdges(d) \cup others)
           flow == {e \in others : e.kind \in {"control", "dependency"}}
           ends == [e \in flow |-> <<e.from, e.to>>]
<1>1. F = {ends[e] : e \in flow}
    BY EdgesAreData DEF Flow
<1>2. IsFiniteSet(flow)
    BY FS_Subset
<1> HIDE DEF F, ends, flow
<1>3. IsFiniteSet({ends[e] : e \in flow})
    BY <1>2, ImageIsFinite
<1> QED BY <1>1, <1>3 DEF F

(* If no link has a problem, what the links give is on the edges.          *)
LEMMA NoProblemsNoLoss ==
    ASSUME NEW given \in Inputs, raw = given.raw, document = Normalized(raw),
           ProjectionProblems(document) = {}, LinkEdges(document) \subseteq edges
    PROVE  LinksAreKept
<1>1. SUFFICES ASSUME NEW o \in document.operations, NEW t \in document.operations,
                      NEW l \in LinksOf(o), l.to = t.id
      PROVE LET declared == UNION {e.mappings : e \in {f \in edges : f.kind = "data"
                                                    /\ f.from = o.id /\ f.to = t.id}}
            IN /\ \A i \in DOMAIN l.parameters :
                     \E p \in t.parameters :
                         DataMapping(Selector(Expression(l.parameters[i][2])), TargetOf(p))
                            \in declared
               /\ \A i \in DOMAIN l.body :
                     \/ ToSet(l.body[i][1]) \cap SecretKeys # {}
                     \/ Projection(Template(l.body[i][2])).selector = NoSelector
                     \/ DataMapping(Projection(Template(l.body[i][2])).selector,
                                    <<"request-body", l.body[i][1]>>) \in declared
    BY DEF LinksAreKept
<1> DEFINE declared == UNION {e.mappings : e \in {f \in edges : f.kind = "data"
                                                   /\ f.from = o.id /\ f.to = t.id}}
           j == [from |-> o.id, to |-> t, link |-> l]
<1>2. j \in Joined(document) /\ j.from = o.id /\ j.to = t /\ j.link = l
    BY <1>1, LinksAreJoined
<1>3. LinkProblems(t, l) = {}
    BY <1>2 DEF ProjectionProblems
<1> HIDE DEF j
<1>4. ASSUME NEW m \in LinkMappings(t, l) PROVE m \in declared
    <2>1. PICK e \in LinkEdges(document) :
              e.kind = "data" /\ e.from = o.id /\ e.to = t.id /\ m \in e.mappings
        BY <1>2, MappingsAreOnEdges
    <2> QED BY <2>1
<1> HIDE DEF declared
<1>5. ASSUME NEW i \in DOMAIN l.parameters
      PROVE  \E p \in t.parameters :
                 DataMapping(Selector(Expression(l.parameters[i][2])), TargetOf(p)) \in declared
    <2> DEFINE there == l.parameters[i][1]
               words == l.parameters[i][2]
               found == Meant(t, there)
    <2>1. ParameterMapping(t, there, words) # {}
        BY <1>3 DEF LinkProblems
    <2>2. ParameterMapping(t, there, words) \subseteq LinkMappings(t, l)
        BY DEF LinkMappings
    <2> HIDE DEF there, words
    <2>3. /\ Cardinality(found) = 1
          /\ ParameterMapping(t, there, words) =
                {DataMapping(Selector(Expression(words)), TargetOf(CHOOSE p \in found : TRUE))}
        BY <2>1 DEF ParameterMapping
    <2>4. found # {} /\ found \subseteq t.parameters
        BY <2>3, FS_EmptySet DEF Meant
    <2>5. (CHOOSE p \in found : TRUE) \in t.parameters
        BY <2>4
    <2> QED BY <1>4, <2>2, <2>3, <2>5 DEF words
<1>6. ASSUME NEW i \in DOMAIN l.body, Projection(Template(l.body[i][2])).selector # NoSelector
      PROVE  DataMapping(Projection(Template(l.body[i][2])).selector,
                         <<"request-body", l.body[i][1]>>) \in declared
    <2>1. BodyMapping(l.body[i][1], l.body[i][2]) =
              {DataMapping(Projection(Template(l.body[i][2])).selector,
                           <<"request-body", l.body[i][1]>>)}
        BY <1>6 DEF BodyMapping
    <2>2. BodyMapping(l.body[i][1], l.body[i][2]) \subseteq LinkMappings(t, l)
        <3> DEFINE Of(k) == BodyMapping(l.body[k][1], l.body[k][2])
                  Other == UNION {ParameterMapping(t, l.parameters[k][1], l.parameters[k][2]) :
                                     k \in DOMAIN l.parameters}
        <3>1. UNION {Of(k) : k \in DOMAIN l.body} \subseteq LinkMappings(t, l)
            <4>1. LinkMappings(t, l) = Other \cup UNION {Of(k) : k \in DOMAIN l.body}
                BY Zenon DEF LinkMappings
            <4> HIDE DEF Other, Of
            <4> QED BY <4>1
        <3>2. i \in DOMAIN l.body
            OBVIOUS
        <3>3. Of(i) \subseteq UNION {Of(k) : k \in DOMAIN l.body}
            <4> HIDE DEF Of
            <4> QED BY <3>2
        <3> QED BY <3>1, <3>3
    <2> QED BY <1>4, <2>1, <2>2
<1> QED BY <1>5, <1>6 DEF declared

-----------------------------------------------------------------------------
(* Schemas among which every part leads to one of them.                    *)
Linked(schemas) ==
    /\ IsFiniteSet(DOMAIN schemas)
    /\ \A s \in DOMAIN schemas :
          /\ schemas[s].ref \in DOMAIN schemas \cup {Absent}
          /\ schemas[s].items \in DOMAIN schemas \cup {Absent}
          /\ ToSet(schemas[s].properties) \subseteq DOMAIN schemas
          /\ ToSet(schemas[s].allOf) \subseteq DOMAIN schemas
          /\ ToSet(schemas[s].variants) \subseteq DOMAIN schemas

Names(schemas) == UNION {DOMAIN schemas[s].properties : s \in DOMAIN schemas}
Walk(schemas) == [schema : DOMAIN schemas, way : Seq(DOMAIN schemas), names : Seq(Names(schemas)),
                  arrays : Nat, variant : BOOLEAN]

(* A sequence with one more entry is one of the same set.                  *)
LEMMA Appended ==
    ASSUME NEW S, NEW q \in Seq(S), NEW x \in S
    PROVE  Append(q, x) \in Seq(S)
OBVIOUS

(* A step of a walk leads to the schema and notes it on the way.           *)
LEMMA StepIs ==
    ASSUME NEW schemas, NEW walk \in Walk(schemas), NEW s \in DOMAIN schemas
    PROVE  LET w == Step(walk, s)
           IN w \in Walk(schemas) /\ w.schema = s /\ w.way = Append(walk.way, s)
<1>1. walk.way \in Seq(DOMAIN schemas)
    BY DEF Walk
<1>2. Append(walk.way, s) \in Seq(DOMAIN schemas)
    BY <1>1, Appended
<1> QED BY <1>2 DEF Step, Walk

(* What else is noted of a step leaves the schema and the way.             *)
LEMMA StepWith ==
    ASSUME NEW schemas, NEW walk \in Walk(schemas),
           NEW w, \/ \E n \in Names(schemas) : w = [walk EXCEPT !.names = Append(@, n)]
                  \/ w = [walk EXCEPT !.arrays = @ + 1]
                  \/ w = [walk EXCEPT !.variant = TRUE]
    PROVE  w \in Walk(schemas) /\ w.schema = walk.schema /\ w.way = walk.way
<1>1. ASSUME NEW n \in Names(schemas), w = [walk EXCEPT !.names = Append(@, n)]
      PROVE  w \in Walk(schemas) /\ w.schema = walk.schema /\ w.way = walk.way
    <2>1. walk.names \in Seq(Names(schemas))
        BY DEF Walk
    <2>2. Append(walk.names, n) \in Seq(Names(schemas))
        BY <2>1, Appended
    <2> QED BY <1>1, <2>2 DEF Walk
<1>2. CASE w = [walk EXCEPT !.arrays = @ + 1]
    BY <1>2 DEF Walk
<1>3. CASE w = [walk EXCEPT !.variant = TRUE]
    BY <1>3 DEF Walk
<1> QED BY <1>1, <1>2, <1>3

(* Each part of a schema is a step farther.                                *)
LEMMA PartIs ==
    ASSUME NEW schemas, Linked(schemas), NEW walk \in Walk(schemas),
           NEW next \in Parts(schemas, walk)
    PROVE  next \in Walk(schemas) /\ next.way = Append(walk.way, next.schema)
<1> DEFINE s == schemas[walk.schema]
           To(x) == Step(walk, x)
<1>1. walk.schema \in DOMAIN schemas
    BY DEF Walk
<1>2. /\ s.ref \in DOMAIN schemas \cup {Absent} /\ s.items \in DOMAIN schemas \cup {Absent}
      /\ \A i \in DOMAIN s.properties : s.properties[i] \in DOMAIN schemas /\ i \in Names(schemas)
      /\ ToSet(s.allOf) \subseteq DOMAIN schemas /\ ToSet(s.variants) \subseteq DOMAIN schemas
    BY <1>1 DEF Linked, ToSet, Names
<1>3. \A x \in DOMAIN schemas :
          To(x) \in Walk(schemas) /\ To(x).way = Append(walk.way, x) /\ To(x).schema = x
    BY StepIs
<1>4. CASE next \in {To(r) : r \in {s.ref} \ {Absent, walk.schema}}
    <2> HIDE DEF To
    <2> QED BY <1>2, <1>3, <1>4
<1>5. CASE next \in {[To(s.properties[i]) EXCEPT !.names = Append(@, i)] :
                        i \in DOMAIN s.properties}
    <2> HIDE DEF To
    <2> QED BY <1>2, <1>3, <1>5, StepWith
<1>6. CASE next \in {[To(s.items) EXCEPT !.arrays = @ + 1]} /\ s.items # Absent
    <2> HIDE DEF To
    <2> QED BY <1>2, <1>3, <1>6, StepWith
<1>7. CASE next \in {To(a) : a \in ToSet(s.allOf)}
    <2> HIDE DEF To
    <2> QED BY <1>2, <1>3, <1>7
<1>8. CASE next \in {[To(v) EXCEPT !.variant = TRUE] : v \in ToSet(s.variants)}
    <2> HIDE DEF To
    <2> QED BY <1>2, <1>3, <1>8, StepWith
<1> QED BY <1>4, <1>5, <1>6, <1>7, <1>8 DEF Parts

(* The walks of each length, as the recursion in Walks has them.           *)
Start(root) == [schema |-> root, way |-> <<root>>, names |-> <<>>, arrays |-> 0, variant |-> FALSE]
Farther(schemas, walks) == UNION {Onward(schemas, walk) : walk \in walks}
GoesOn(schemas, root, far, k) ==
    /\ far[0] = {Start(root)}
    /\ \A n \in 1 .. k : far[n] = Farther(schemas, far[n - 1])

(* A walk starts at a schema.                                              *)
LEMMA StartIs ==
    ASSUME NEW schemas, NEW root \in DOMAIN schemas
    PROVE  Start(root) \in Walk(schemas)
BY DEF Start, Walk

(* Walks that go on are walks.                                             *)
LEMMA FartherIs ==
    ASSUME NEW schemas, Linked(schemas), NEW walks \in SUBSET Walk(schemas)
    PROVE  Farther(schemas, walks) \in SUBSET Walk(schemas)
<1>1. ASSUME NEW next \in Farther(schemas, walks) PROVE next \in Walk(schemas)
    <2>1. PICK walk \in walks : next \in Onward(schemas, walk)
        BY DEF Farther
    <2>2. next \in Parts(schemas, walk) /\ walk \in Walk(schemas)
        BY <2>1 DEF Onward
    <2> QED BY <2>2, PartIs
<1> QED BY <1>1

(* The walks up to a depth are those of each length, one after the other.  *)
LEMMA WalksAre ==
    ASSUME NEW schemas, Linked(schemas), NEW root \in DOMAIN schemas, NEW k \in Nat
    PROVE  \E far \in [0 .. k -> SUBSET Walk(schemas)] :
              /\ GoesOn(schemas, root, far, k)
              /\ Walks(schemas, root, k) = UNION {far[n] : n \in 0 .. k}
<1> DEFINE V == SUBSET Walk(schemas)
           base == {Start(root)}
           step == [p \in Int \X V |-> Farther(schemas, p[2])]
           Is(g) == g = [n \in 0 .. k |-> IF n = 0 THEN base ELSE Farther(schemas, g[n - 1])]
           all == CHOOSE g : Is(g)
<1>1. base \in V
    BY StartIs
<1>2. step \in [Int \X V -> V]
    <2>1. \A T \in V : Farther(schemas, T) \in V
        BY FartherIs
    <2> HIDE DEF V
    <2> QED BY <2>1
<1>3. PICK g \in [0 .. k -> V] : IsRecursion(g, k, base, step)
    <2> HIDE DEF step, V, base
    <2> QED BY <1>1, <1>2, RecursionExists
<1>4. ASSUME NEW n \in 1 .. k PROVE g[n] = Farther(schemas, g[n - 1])
    <2>1. n - 1 \in 0 .. k /\ n \in Int
        OBVIOUS
    <2>2. g[n] = step[<<n, g[n - 1]>>] /\ g[n - 1] \in V
        BY <1>3, <2>1 DEF IsRecursion
    <2> HIDE DEF V
    <2> QED BY <2>1, <2>2
<1>5. g[0] = base
    BY <1>3 DEF IsRecursion
<1>6. Is(g)
    <2> HIDE DEF V, base
    <2>1. \A n \in 0 .. k : n # 0 => n \in 1 .. k
        OBVIOUS
    <2> QED BY <1>3, <1>4, <1>5, <2>1
<1>7. Is(all)
    BY <1>6
<1>8. Walks(schemas, root, k) = UNION {all[n] : n \in 0 .. k}
    BY DEF Walks, Farther, Start
<1> HIDE DEF all
<1>9. all[0] = base /\ \A n \in 1 .. k : all[n] = Farther(schemas, all[n - 1])
    <2> HIDE DEF base
    <2>1. 0 \in 0 .. k /\ \A n \in 1 .. k : n \in 0 .. k /\ n # 0
        OBVIOUS
    <2> QED BY <1>7, <2>1
<1> DEFINE P == {n \in 0 .. k : all[n] = g[n]}
<1>10. \A n \in 0 .. k : n \in P
    <2>1. 0 \in P
        <3>1. all[0] = g[0] /\ 0 \in 0 .. k
            BY <1>5, <1>9
        <3> QED BY <3>1
    <2>2. ASSUME NEW n \in 1 .. k, n - 1 \in P PROVE n \in P
        BY <1>4, <1>9, <2>2
    <2> HIDE DEF P
    <2> QED BY <2>1, <2>2, UpToInduction
<1>11. Walks(schemas, root, k) = UNION {g[n] : n \in 0 .. k}
    BY <1>8, <1>10
<1> QED BY <1>3, <1>4, <1>5, <1>11 DEF GoesOn

(* A shorter depth has the same walks as far as it goes.                   *)
LEMMA WalksAgree ==
    ASSUME NEW schemas, Linked(schemas), NEW root \in DOMAIN schemas,
           NEW m \in Nat, NEW k \in 0 .. m, NEW far, GoesOn(schemas, root, far, m)
    PROVE  Walks(schemas, root, k) = UNION {far[n] : n \in 0 .. k}
<1>1. PICK g \in [0 .. k -> SUBSET Walk(schemas)] :
          /\ GoesOn(schemas, root, g, k)
          /\ Walks(schemas, root, k) = UNION {g[n] : n \in 0 .. k}
    <2>1. k \in Nat
        OBVIOUS
    <2> QED BY <2>1, WalksAre
<1> DEFINE P == {n \in 0 .. k : far[n] = g[n]}
<1>2. \A n \in 0 .. k : n \in P
    <2>1. 0 \in P
        <3>1. far[0] = g[0] /\ 0 \in 0 .. k
            BY <1>1 DEF GoesOn
        <3> QED BY <3>1
    <2>2. ASSUME NEW n \in 1 .. k, n - 1 \in P PROVE n \in P
        <3>1. n \in 1 .. m /\ far[n - 1] = g[n - 1]
            BY <2>2
        <3> QED BY <1>1, <3>1 DEF GoesOn
    <2>3. k \in Nat
        OBVIOUS
    <2> HIDE DEF P
    <2> QED BY <2>1, <2>2, <2>3, UpToInduction
<1> QED BY <1>1, <1>2

(* A walk has come as many steps far as its way is long, and was nowhere   *)
(* twice.                                                                  *)
OnItsWay(walk, n) ==
    /\ Len(walk.way) = n + 1
    /\ \A i \in 1 .. n + 1, j \in 1 .. n + 1 : walk.way[i] = walk.way[j] => i = j

(* By induction over the length: walks are on their way.                   *)
LEMMA WaysAre ==
    ASSUME NEW schemas, Linked(schemas), NEW root \in DOMAIN schemas, NEW k \in Nat,
           NEW far, GoesOn(schemas, root, far, k)
    PROVE  \A n \in 0 .. k : \A walk \in far[n] : walk \in Walk(schemas) /\ OnItsWay(walk, n)
<1> DEFINE P == {n \in 0 .. k : \A walk \in far[n] : walk \in Walk(schemas) /\ OnItsWay(walk, n)}
<1>1. 0 \in P
    <2>1. far[0] = {Start(root)} /\ Start(root) \in Walk(schemas)
        BY StartIs DEF GoesOn
    <2>2. OnItsWay(Start(root), 0)
        BY DEF OnItsWay, Start
    <2> QED BY <2>1, <2>2
<1>2. ASSUME NEW n \in 1 .. k, n - 1 \in P PROVE n \in P
    <2>1. SUFFICES ASSUME NEW next \in far[n] PROVE next \in Walk(schemas) /\ OnItsWay(next, n)
        OBVIOUS
    <2>2. PICK walk \in far[n - 1] : next \in Onward(schemas, walk)
        BY DEF GoesOn, Farther
    <2>3. /\ walk \in Walk(schemas) /\ OnItsWay(walk, n - 1)
          /\ next \in Parts(schemas, walk) /\ next.schema \notin ToSet(walk.way)
        BY <1>2, <2>2 DEF Onward
    <2>4. next \in Walk(schemas) /\ next.way = Append(walk.way, next.schema)
        BY <2>3, PartIs
    <2>5. walk.way \in Seq(DOMAIN schemas) /\ Len(walk.way) = n
        BY <2>3 DEF Walk, OnItsWay
    <2>6. /\ Len(next.way) = n + 1 /\ next.way[n + 1] = next.schema
          /\ \A i \in 1 .. n : next.way[i] = walk.way[i] /\ next.way[i] # next.schema
          /\ \A i \in 1 .. n, j \in 1 .. n : walk.way[i] = walk.way[j] => i = j
        BY <2>3, <2>4, <2>5 DEF ToSet, OnItsWay
    <2>7. ASSUME NEW i \in 1 .. n + 1, NEW j \in 1 .. n + 1, next.way[i] = next.way[j] PROVE i = j
        BY <2>6, <2>7
    <2> QED BY <2>4, <2>6, <2>7 DEF OnItsWay
<1> HIDE DEF P
<1>3. \A n \in 0 .. k : n \in P
    BY <1>1, <1>2, UpToInduction
<1> QED BY <1>3 DEF P

(* No walk is longer than there are schemas.                               *)
LEMMA WalksAreShort ==
    ASSUME NEW schemas, Linked(schemas), NEW n \in Nat,
           NEW walk \in Walk(schemas), OnItsWay(walk, n)
    PROVE  n < Cardinality(DOMAIN schemas)
<1> DEFINE S == DOMAIN schemas
           I == 1 .. n + 1
           place == [i \in I |-> walk.way[i]]
<1>1. IsFiniteSet(S) /\ Cardinality(S) \in Nat
    BY FS_CardinalityType DEF Linked
<1>2. place \in Injection(I, S)
    BY DEF Walk, OnItsWay, Injection, IsInjective
<1>3. Cardinality(I) = n + 1
    <2>1. n + 1 \in Int /\ 1 \in Int
        OBVIOUS
    <2>2. Cardinality(1 .. n + 1) = IF 1 > n + 1 THEN 0 ELSE (n + 1) - 1 + 1
        BY <2>1, FS_Interval
    <2> QED BY <2>2
<1> HIDE DEF I, S, place
<1>4. Cardinality(I) <= Cardinality(S)
    BY <1>1, <1>2, FS_Injection
<1> QED BY <1>1, <1>3, <1>4 DEF S

(* Where no walk goes on there are none that are longer.                   *)
LEMMA NoneLonger ==
    ASSUME NEW schemas, NEW root, NEW m \in Nat, NEW far, GoesOn(schemas, root, far, m),
           NEW k \in 0 .. m, far[k] = {}
    PROVE  \A n \in k .. m : far[n] = {}
<1> DEFINE P == {n \in 0 .. m : n >= k => far[n] = {}}
<1>1. 0 \in P
    BY DEF GoesOn
<1>2. ASSUME NEW n \in 1 .. m, n - 1 \in P PROVE n \in P
    <2>1. CASE n - 1 >= k
        BY <1>2, <2>1 DEF GoesOn, Farther
    <2>2. CASE n = k
        BY <2>2
    <2>3. CASE n < k
        BY <2>3
    <2> QED BY <2>1, <2>2, <2>3
<1> HIDE DEF P
<1>3. \A n \in 0 .. m : n \in P
    BY <1>1, <1>2, UpToInduction
<1> QED BY <1>3 DEF P

(* Looking deeper than where nothing was cut off finds no more, and so     *)
(* does looking deeper than there are schemas.                             *)
LEMMA NoneHidden ==
    ASSUME NEW schemas, Linked(schemas), NEW root \in DOMAIN schemas, NEW depth \in Nat,
           ~CutOff(schemas, root, depth)
    PROVE  Leaves(schemas, root, Cardinality(DOMAIN schemas) + 1) = Leaves(schemas, root, depth)
<1> DEFINE deep == Cardinality(DOMAIN schemas) + 1
           m == IF deep <= depth THEN depth ELSE deep
<1>1. deep \in Nat /\ Cardinality(DOMAIN schemas) \in Nat
    BY FS_CardinalityType DEF Linked
<1> HIDE DEF deep
<1>2. m \in Nat /\ deep \in 0 .. m /\ depth \in 0 .. m
    BY <1>1
<1>3. PICK far \in [0 .. m -> SUBSET Walk(schemas)] : GoesOn(schemas, root, far, m)
    BY <1>2, WalksAre
<1>4. /\ Walks(schemas, root, deep) = UNION {far[n] : n \in 0 .. deep}
      /\ Walks(schemas, root, depth) = UNION {far[n] : n \in 0 .. depth}
    BY <1>2, <1>3, WalksAgree
<1>5. \A n \in 0 .. m : \A walk \in far[n] : walk \in Walk(schemas) /\ OnItsWay(walk, n)
    BY <1>2, <1>3, WaysAre
<1>6. Walks(schemas, root, deep) = Walks(schemas, root, depth)
    <2>1. CASE deep <= depth
        <3>1. \A n \in 0 .. depth : n \notin 0 .. deep => far[n] = {}
            <4>1. SUFFICES ASSUME NEW n \in 0 .. depth, n \notin 0 .. deep, NEW walk \in far[n]
                           PROVE  FALSE
                OBVIOUS
            <4>2. walk \in Walk(schemas) /\ OnItsWay(walk, n) /\ n \in Nat
                BY <1>2, <1>5, <4>1
            <4>3. n < Cardinality(DOMAIN schemas)
                BY <4>2, WalksAreShort
            <4> QED BY <1>1, <4>1, <4>3 DEF deep
        <3>2. 0 .. deep \subseteq 0 .. depth
            BY <1>1, <2>1
        <3> HIDE DEF m
        <3> QED BY <1>4, <3>1, <3>2
    <2>2. CASE ~(deep <= depth)
        <3>1. depth + 1 \in 1 .. m /\ (depth + 1) - 1 = depth /\ m = deep
            BY <1>1, <2>2
        <3>2. far[depth + 1] = {}
            <4>1. SUFFICES \A walk \in far[depth] : Onward(schemas, walk) = {}
                <5>1. far[depth + 1] = Farther(schemas, far[depth])
                    <6> HIDE DEF m
                    <6> QED BY <1>3, <3>1 DEF GoesOn
                <5>2. Farther(schemas, far[depth]) = {}
                    BY <4>1 DEF Farther
                <5> QED BY <5>1, <5>2
            <4>2. SUFFICES ASSUME NEW walk \in far[depth] PROVE Onward(schemas, walk) = {}
                OBVIOUS
            <4>3. walk \in Walks(schemas, root, depth) /\ Len(walk.way) = depth + 1
                BY <1>2, <1>4, <1>5 DEF OnItsWay
            <4>4. Parts(schemas, walk) = {}
                BY <4>3 DEF CutOff
            <4> QED BY <4>4 DEF Onward
        <3>3. \A n \in depth + 1 .. m : far[n] = {}
            <4> HIDE DEF m
            <4>1. depth + 1 \in 0 .. m
                BY <1>2, <3>1
            <4> QED BY <1>2, <1>3, <3>2, <4>1, NoneLonger
        <3>4. \A n \in 0 .. deep : n \notin 0 .. depth => far[n] = {}
            BY <1>1, <3>1, <3>3
        <3>5. 0 .. depth \subseteq 0 .. deep
            BY <1>1, <2>2
        <3> HIDE DEF m
        <3> QED BY <1>4, <3>4, <3>5
    <2> QED BY <2>1, <2>2
<1> QED BY <1>6 DEF Leaves, deep

-----------------------------------------------------------------------------
(* What is left without what is of another type.                           *)
LEMMA WithoutBadIs ==
    ASSUME NEW f, NEW S, ToSet(f) \subseteq S \cup {Bad}
    PROVE  ToSet(WithoutBad(f)) \subseteq S
BY DEF WithoutBad, Restrict, ToSet

(* The schemas of a normalized document lead to one another, and what its  *)
(* operations answer and take are some of them.                            *)
LEMMA DocumentIsLinked ==
    ASSUME NEW given \in Inputs, NEW d, d = Normalized(given.raw), NEW o \in d.operations
    PROVE  /\ Linked(d.schemas)
           /\ \A i \in DOMAIN o.responses : ToSet(o.responses[i].media) \subseteq DOMAIN d.schemas
           /\ ToSet(o.body) \subseteq DOMAIN d.schemas
<1> DEFINE r == given.raw
           named == DOMAIN r.schemas
<1>1. /\ IsFiniteSet(named) /\ r.components \subseteq named
      /\ \A s \in named :
            /\ r.schemas[s].items \in named \cup {Bad, Absent}
            /\ ToSet(r.schemas[s].properties) \subseteq named \cup {Bad}
            /\ ToSet(r.schemas[s].allOf) \subseteq named \cup {Bad}
            /\ ToSet(r.schemas[s].variants) \subseteq named \cup {Bad}
    BY InputsAssumption
<1>2. d.schemas = [s \in named |-> NormalSchema(r.schemas[s], r.components)]
    BY OperationComesFrom
<1>3. PICK p \in DOMAIN r.paths, m \in Methods :
          /\ m \in DOMAIN r.paths[p].operations /\ r.paths # Bad
          /\ o = ResolvedOperation(Operations(r), NormalOperation(r, p, m))
          /\ r.paths[p].operations[m] # Bad
    BY OperationComesFrom
<1> DEFINE own == r.paths[p].operations[m]
<1>4. /\ ToSet(own.body) \subseteq named \cup {Bad}
      /\ \A i \in DOMAIN own.responses : ToSet(own.responses[i].media) \subseteq named \cup {Bad}
    BY <1>3, InputsAssumption
<1> HIDE DEF r, named
<1>5. /\ o.body = WithoutBad(own.body) /\ DOMAIN o.responses = DOMAIN own.responses
      /\ \A i \in DOMAIN own.responses : o.responses[i].media = WithoutBad(own.responses[i].media)
    BY <1>3, OperationHas
<1> HIDE DEF own
<1>6. ASSUME NEW s \in named
      PROVE  /\ d.schemas[s].ref \in named \cup {Absent}
             /\ d.schemas[s].items \in named \cup {Absent}
             /\ ToSet(d.schemas[s].properties) \subseteq named
             /\ ToSet(d.schemas[s].allOf) \subseteq named
             /\ ToSet(d.schemas[s].variants) \subseteq named
    <2> DEFINE n == NormalSchema(r.schemas[s], r.components)
    <2>1. d.schemas[s] = n
        BY <1>2
    <2>2. /\ n.properties = WithoutBad(r.schemas[s].properties)
          /\ n.allOf = WithoutBad(r.schemas[s].allOf)
          /\ n.variants = WithoutBad(r.schemas[s].variants)
          /\ n.items = IF r.schemas[s].items = Bad THEN Absent ELSE r.schemas[s].items
          /\ n.ref = IF r.schemas[s].ref \in r.components THEN r.schemas[s].ref ELSE Absent
        BY DEF NormalSchema
    <2> HIDE DEF n
    <2> QED BY <1>1, <2>1, <2>2, WithoutBadIs
<1>7. DOMAIN d.schemas = named
    BY <1>2
<1> QED BY <1>1, <1>4, <1>5, <1>6, <1>7, WithoutBadIs DEF Linked

(* If there is no warning of the depth, looking deeper finds no more.      *)
LEMMA NothingIsHidden ==
    ASSUME NEW given \in Inputs, raw = given.raw, document = Normalized(raw),
           config.depth \in Nat, SchemaWarnings(document, config.depth) \subseteq warnings
    PROVE  at \in {"pairs", "rank", "done"} /\ "schema" \notin warnings =>
              \A o \in document.operations :
                  LET deep == Cardinality(DOMAIN document.schemas) + 1
                  IN /\ SourceFields(document, o, deep) = SourceFields(document, o, config.depth)
                     /\ TargetFields(document, o, deep) = TargetFields(document, o, config.depth)
<1> DEFINE deep == Cardinality(DOMAIN document.schemas) + 1
           depth == config.depth
<1>1. SUFFICES ASSUME "schema" \notin warnings, NEW o \in document.operations
      PROVE  /\ SourceFields(document, o, deep) = SourceFields(document, o, depth)
             /\ TargetFields(document, o, deep) = TargetFields(document, o, depth)
    OBVIOUS
<1>2. /\ Linked(document.schemas)
      /\ \A i \in DOMAIN o.responses : ToSet(o.responses[i].media) \subseteq DOMAIN document.schemas
      /\ ToSet(o.body) \subseteq DOMAIN document.schemas
    BY DocumentIsLinked
<1>3. /\ \A i \in SuccessResponses(o) : \A s \in ToSet(o.responses[i].media) :
             ~CutOff(document.schemas, s, depth)
      /\ \A s \in ToSet(o.body) : ~CutOff(document.schemas, s, depth)
    BY <1>1 DEF SchemaWarnings
<1>4. SuccessResponses(o) \subseteq DOMAIN o.responses
    BY DEF SuccessResponses
<1>5. ASSUME NEW s \in DOMAIN document.schemas, ~CutOff(document.schemas, s, depth)
      PROVE  Leaves(document.schemas, s, deep) = Leaves(document.schemas, s, depth)
    BY <1>2, <1>5, NoneHidden
<1>6. \A i \in SuccessResponses(o) : \A j \in DOMAIN o.responses[i].media :
          Leaves(document.schemas, o.responses[i].media[j], deep)
             = Leaves(document.schemas, o.responses[i].media[j], depth)
    BY <1>2, <1>3, <1>4, <1>5 DEF ToSet
<1>7. \A j \in DOMAIN o.body :
          Leaves(document.schemas, o.body[j], deep) = Leaves(document.schemas, o.body[j], depth)
    BY <1>2, <1>3, <1>5 DEF ToSet
<1> HIDE DEF deep, depth
<1>8. SourceFields(document, o, deep) = SourceFields(document, o, depth)
    BY <1>6 DEF SourceFields
<1>9. BodyFields(document, o, deep) = BodyFields(document, o, depth)
    BY <1>7 DEF BodyFields
<1>10. TargetFields(document, o, deep) = TargetFields(document, o, depth)
    BY <1>9 DEF TargetFields
<1> QED BY <1>8, <1>10

(* A source is a field of its operation, named after the last part of its  *)
(* place.                                                                  *)
LEMMA SourceIs ==
    ASSUME NEW d, NEW o, NEW depth, NEW s \in SourceFields(d, o, depth)
    PROVE  s.field.op = o.id /\ s.field.name = Last(s.place)
<1>1. PICK i \in SuccessResponses(o) : \E j \in DOMAIN o.responses[i].media :
          \E leaf \in Leaves(d.schemas, o.responses[i].media[j], depth) :
              s = [field |-> Described(d, o, leaf), place |-> leaf.place, answer |-> <<i, j>>]
    BY DEF SourceFields
<1>2. PICK j \in DOMAIN o.responses[i].media :
          \E leaf \in Leaves(d.schemas, o.responses[i].media[j], depth) :
              s = [field |-> Described(d, o, leaf), place |-> leaf.place, answer |-> <<i, j>>]
    BY <1>1
<1>3. PICK leaf \in Leaves(d.schemas, o.responses[i].media[j], depth) :
          s = [field |-> Described(d, o, leaf), place |-> leaf.place, answer |-> <<i, j>>]
    BY <1>2
<1>4. leaf.name = Last(leaf.place)
    BY DEF Leaves, Leaf
<1> QED BY <1>4, <1>3 DEF Described

(* What a target is for tells its name, and whether it takes a token.      *)
NameOf(target) == IF target[1] = "request-body" THEN Last(target[2]) ELSE target[2]
TakesToken(target) == target[1] = "header" /\ Lower[target[2]] = Lower[Authorization]

(* A target is a field of its operation, and the rest can be read off what *)
(* it is for.                                                              *)
LEMMA TargetIs ==
    ASSUME NEW given \in Inputs, NEW d, d = Normalized(given.raw), NEW o \in d.operations,
           NEW depth, NEW g \in TargetFields(d, o, depth)
    PROVE  /\ g.field.op = o.id
           /\ g.field.name = NameOf(g.target) /\ g.secure = TakesToken(g.target)
<1>1. g \in ParameterFields(d, o) \cup BodyFields(d, o, depth) \cup BearerFields(d, o)
    BY DEF TargetFields
<1>2. CASE g \in ParameterFields(d, o)
    <2>1. PICK p \in o.parameters :
              g = Takes(d, o, [name |-> p.name, schema |-> p.schema,
                               arrays |-> 0, variant |-> FALSE],
                        TargetOf(p), IsAuthorization(p))
        BY <1>2 DEF ParameterFields
    <2>2. p.location \in Locations
        <3> DEFINE r == given.raw
        <3>1. PICK q \in DOMAIN r.paths, m \in Methods :
                  o = ResolvedOperation(Operations(r), NormalOperation(r, q, m))
            BY OperationComesFrom
        <3> HIDE DEF r
        <3>2. PICK a, b : o.parameters = MergedParameters(a, b)
            BY <3>1, OperationHas
        <3> QED BY <3>2, ParametersHavePlaces
    <2>3. g.field.op = o.id /\ g.field.name = p.name /\ g.target = <<p.location, p.name>>
          /\ g.secure = IsAuthorization(p)
        BY <2>1 DEF Takes, Described, TargetOf
    <2> QED BY <2>2, <2>3 DEF Locations, IsAuthorization, NameOf, TakesToken
<1>3. CASE g \in BodyFields(d, o, depth)
    <2>1. PICK j \in DOMAIN o.body : \E leaf \in Leaves(d.schemas, o.body[j], depth) :
              g = Takes(d, o, leaf, <<"request-body", leaf.place>>, FALSE)
        BY <1>3 DEF BodyFields
    <2>2. PICK leaf \in Leaves(d.schemas, o.body[j], depth) :
              g = Takes(d, o, leaf, <<"request-body", leaf.place>>, FALSE)
        BY <2>1
    <2>3. leaf.name = Last(leaf.place)
        BY DEF Leaves, Leaf
    <2> QED BY <2>2, <2>3 DEF Takes, Described, NameOf, TakesToken
<1>4. CASE g \in BearerFields(d, o)
    <2>1. g = Takes(d, o, [name |-> Authorization, schema |-> "string",
                           arrays |-> 0, variant |-> FALSE],
                    <<"header", Authorization>>, TRUE)
        BY <1>4 DEF BearerFields
    <2>2. /\ g.field.op = o.id /\ g.field.name = Authorization
          /\ g.target = <<"header", Authorization>> /\ g.secure = TRUE
        BY <2>1 DEF Takes, Described
    <2>3. g.target[1] = "header" /\ g.target[2] = Authorization
        BY <2>2
    <2> QED BY <2>2, <2>3 DEF NameOf, TakesToken
<1> QED BY <1>1, <1>2, <1>3, <1>4

-----------------------------------------------------------------------------
(* A plausible pair is one of a value and a place that takes it.           *)
LEMMA PairIs ==
    ASSUME NEW given \in Inputs, NEW d, d = Normalized(given.raw), NEW depth,
           NEW pair \in PlausiblePairs(d, depth)
    PROVE  /\ pair[1].field.op = Operation(pair, 1) /\ pair[1].field.name = Last(pair[1].place)
           /\ pair[2].field.name = NameOf(pair[2].target)
           /\ pair[2].secure = TakesToken(pair[2].target)
           /\ Plausible(pair)
<1>1. /\ pair[1] \in UNION {SourceFields(d, o, depth) : o \in d.operations}
      /\ pair[2] \in UNION {TargetFields(d, o, depth) : o \in d.operations}
      /\ Plausible(pair)
    BY DEF PlausiblePairs
<1>2. PICK o \in d.operations : pair[1] \in SourceFields(d, o, depth)
    BY <1>1
<1>3. PICK t \in d.operations : pair[2] \in TargetFields(d, t, depth)
    BY <1>1
<1>4. pair[1].field.name = Last(pair[1].place)
    BY <1>2, SourceIs
<1>5. /\ pair[2].field.name = NameOf(pair[2].target)
      /\ pair[2].secure = TakesToken(pair[2].target)
    BY <1>3, TargetIs
<1> QED BY <1>1, <1>4, <1>5 DEF Operation

(* Pairs with the same fingerprint are alike in all that the rules look at.*)
Alike(p, q) ==
    /\ p[1].field.name = q[1].field.name /\ p[2].field.name = q[2].field.name
    /\ p[1].field.op = q[1].field.op /\ p[2].field.op = q[2].field.op
    /\ p[1].field.types = q[1].field.types /\ p[2].field.types = q[2].field.types
    /\ p[1].field.format = q[1].field.format /\ p[2].field.format = q[2].field.format
    /\ p[1].field.variant = q[1].field.variant /\ p[2].field.variant = q[2].field.variant
    /\ p[2].secure = q[2].secure

(* The fingerprint has all of that.                                        *)
LEMMA SameIdsAreAlike ==
    ASSUME NEW given \in Inputs, NEW d, d = Normalized(given.raw), NEW depth,
           NEW p \in PlausiblePairs(d, depth), NEW q \in PlausiblePairs(d, depth),
           Fingerprint(p) = Fingerprint(q)
    PROVE  Alike(p, q)
<1>1. /\ Operation(p, 1) = Operation(q, 1) /\ Operation(p, 2) = Operation(q, 2)
      /\ p[1].place = q[1].place /\ p[2].target = q[2].target
      /\ Shape(p[1].field) = Shape(q[1].field) /\ Shape(p[2].field) = Shape(q[2].field)
    BY DEF Fingerprint
<1>2. ASSUME NEW f, NEW g, Shape(f) = Shape(g)
      PROVE  f.types = g.types /\ f.format = g.format /\ f.variant = g.variant
    BY <1>2 DEF Shape
<1>3. /\ p[1].field.name = q[1].field.name /\ p[2].field.name = q[2].field.name
      /\ p[2].secure = q[2].secure
    BY <1>1, PairIs
<1> QED BY <1>1, <1>2, <1>3 DEF Alike, Operation

(* Pairs that are alike have the same evidence.                            *)
LEMMA AlikeIsAsGood ==
    ASSUME NEW d, NEW p, NEW q, Alike(p, q)
    PROVE  Evidence(d, p) = Evidence(d, q)
<1>1. /\ Words(p, 1) = Words(q, 1) /\ Words(p, 2) = Words(q, 2)
      /\ Resource(p, 1) = Resource(q, 1) /\ Resource(p, 2) = Resource(q, 2)
      /\ Operation(p, 1) = Operation(q, 1) /\ Operation(p, 2) = Operation(q, 2)
    BY DEF Alike, Words, Resource, Operation
<1>2. /\ SameResource(p) <=> SameResource(q)
      /\ TypesFit(p) <=> TypesFit(q)
    BY <1>1 DEF SameResource, TypesFit, Alike
<1>3. ResourceIdRelation(p) <=> ResourceIdRelation(q)
    BY <1>1, <1>2 DEF ResourceIdRelation
<1>4. BearerToken(p) <=> BearerToken(q)
    BY <1>1 DEF BearerToken, Alike
<1>5. CreateThenRead(p) <=> CreateThenRead(q)
    BY <1>1, <1>2 DEF CreateThenRead
<1>6. NamesShareWords(d, p) <=> NamesShareWords(d, q)
    BY <1>1 DEF NamesShareWords
<1>7. /\ (Lower[p[1].field.name] = Lower[p[2].field.name])
            <=> (Lower[q[1].field.name] = Lower[q[2].field.name])
      /\ (p[1].field.format # Absent /\ p[1].field.format = p[2].field.format)
            <=> (q[1].field.format # Absent /\ q[1].field.format = q[2].field.format)
      /\ (p[1].field.variant \/ p[2].field.variant) <=> (q[1].field.variant \/ q[2].field.variant)
      /\ p[2].secure <=> q[2].secure
    BY DEF Alike
<1> DEFINE if(holds, rule, weight) == IF holds THEN {<<rule, weight>>} ELSE {}
           name(x) == if(Lower[x[1].field.name] = Lower[x[2].field.name], "NAME-EXACT", 25)
           words(x) == if(Words(x, 1) # <<>> /\ Words(x, 1) = Words(x, 2), "NAME-NORMALIZED", 18)
           id(x) == if(ResourceIdRelation(x), "RESOURCE-ID", 25)
           type(x) == if(TypesFit(x), "SCHEMA-TYPE", 12)
           format(x) == if(x[1].field.format # Absent
                              /\ x[1].field.format = x[2].field.format, "SCHEMA-FORMAT", 10)
           path(x) == if(Resource(x, 1) # "" /\ SameResource(x), "RESOURCE-PATH", 15)
           cycle(x) == if(CreateThenRead(x), "LIFECYCLE-CREATE-READ", 20)
           token(x) == if(BearerToken(x), "AUTH-BEARER", 65)
           tag(x) == if(TagsOf(d, Operation(x, 1)) \cap TagsOf(d, Operation(x, 2)) # {},
                        "TAG-SAME", 4)
           shared(x) == if(NamesShareWords(d, x), "OPERATION-NAME", 6)
           generic(x) == if(GenericId(Words(x, 1)) /\ GenericId(Words(x, 2)), "GENERIC-ID", 3)
           variant(x) == if(x[1].field.variant \/ x[2].field.variant, "VARIANT-SCHEMA", -10)
           other(x) == if(/\ "" \notin {Resource(x, 1), Resource(x, 2)}
                          /\ ~SameResource(x) /\ ~x[2].secure, "CROSS-RESOURCE", -20)
<1>8. \A x : Evidence(d, x) =
          name(x) \cup words(x) \cup id(x) \cup type(x) \cup format(x) \cup path(x)
          \cup cycle(x) \cup token(x) \cup tag(x) \cup shared(x) \cup generic(x)
          \cup variant(x) \cup other(x)
    BY DEF Evidence
<1>9. /\ name(p) = name(q) /\ words(p) = words(q) /\ id(p) = id(q) /\ type(p) = type(q)
      /\ format(p) = format(q) /\ path(p) = path(q) /\ cycle(p) = cycle(q)
      /\ token(p) = token(q) /\ tag(p) = tag(q) /\ shared(p) = shared(q)
      /\ generic(p) = generic(q) /\ variant(p) = variant(q) /\ other(p) = other(q)
    BY <1>1, <1>2, <1>3, <1>4, <1>5, <1>6, <1>7
<1> HIDE DEF name, words, id, type, format, path, cycle, token, tag, shared, generic, variant, other
<1> QED BY <1>8, <1>9

-----------------------------------------------------------------------------
(* One of the inputs was given, and stays.                                 *)
InputIsGiven == \E i \in Inputs : raw = i.raw /\ config = i.config /\ extra = i.extra

(* The document is what normalizing it gives.                              *)
DocumentIsOfInput ==
    /\ at \in {"normalize", "declare", "index", "pairs", "rank", "done", "failed"}
    /\ document = IF at = "normalize" THEN NoDocument({}) ELSE Normalized(raw)

(* The graph is what the links of the document declare, without a problem, *)
(* and what was there besides.                                             *)
GraphIsOfDocument ==
    at \in {"index", "pairs", "rank", "done"} =>
        edges = LinkEdges(document) \cup extra /\ ProjectionProblems(document) = {}

(* All that is to be considered.                                           *)
Pairs == PlausiblePairs(document, config.depth)

(* The pairs are those of the document, and that a schema was cut off is   *)
(* said.                                                                   *)
PairsAreOfDocument ==
    IF at \in {"pairs", "rank", "done"}
    THEN /\ ValidConfig(config) /\ left \subseteq Pairs
         /\ SchemaWarnings(document, config.depth) \subseteq warnings
    ELSE left = {} /\ candidates = {} /\ truncated = FALSE /\ warnings = {}

(* What became of the pairs that were considered.                          *)
Counted ==
    /\ counts \in [{"considered", "suppressed", "blocked"} -> Nat]
    /\ IsFiniteSet(candidates)
    /\ Cardinality(candidates) + counts.suppressed + counts.blocked <= counts.considered
    /\ truncated \in BOOLEAN /\ warnings \subseteq {"schema", "pairs", "time", "candidates"}

(* A suggestion is of a pair that was considered and not declared or       *)
(* blocked, and says of it what the rules give.                            *)
IsSuggestion(c) ==
    /\ c.pair \in Pairs /\ c.pair \notin left
    /\ ~Declared(edges, c.pair) /\ ~Blocked(c.pair, edges)
    /\ c.id = Fingerprint(c.pair) /\ c.score = Score(Evidence(document, c.pair))
    /\ c.confidence = Confidence(Evidence(document, c.pair)) /\ Kept(config, c)
    /\ c.found \in Nat /\ c.found < counts.considered

(* No two were found at the same time.                                     *)
SuggestionsAreOfPairs ==
    /\ \A c \in candidates : IsSuggestion(c)
    /\ \A c \in candidates, d \in candidates : c.found = d.found => c = d

(* A pair that deserves it is still to come or was suggested, until the    *)
(* ranking.                                                                *)
NoneIsForgotten ==
    /\ at \in {"pairs", "rank"} =>
          \A pair \in Pairs : Deserves(pair) =>
              pair \in left \/ \E c \in candidates : c.pair = pair
    /\ at = "rank" /\ ~truncated => left = {}
    /\ at = "done" => NothingForgotten

(* What is kept at every step.                                             *)
IInv ==
    /\ InputIsGiven /\ DocumentIsOfInput /\ GraphIsOfDocument /\ PairsAreOfDocument
    /\ Counted /\ SuggestionsAreOfPairs /\ NoneIsForgotten

-----------------------------------------------------------------------------
(* The suggestions can be told apart, so that there is a best.             *)
LEMMA SuggestionsCompare ==
    ASSUME SuggestionsAreOfPairs
    PROVE  /\ Comparable(candidates)
           /\ \A c \in candidates : c.score \in Int /\ c.confidence \in 60 .. 100
<1>1. ASSUME NEW c \in candidates
      PROVE  c.found \in Nat /\ c.score \in Int /\ c.confidence \in 60 .. 100
    <2>1. /\ c.score = Score(Evidence(document, c.pair))
          /\ c.confidence = Confidence(Evidence(document, c.pair))
          /\ Kept(config, c) /\ c.found \in Nat
        BY DEF SuggestionsAreOfPairs, IsSuggestion
    <2>2. c.score \in Int /\ c.confidence \in 0 .. 100
        BY <2>1, ConfidenceIsANumber
    <2>3. Band(c.confidence) # "none"
        BY <2>1 DEF Kept
    <2> QED BY <2>1, <2>2, <2>3 DEF Band
<1> QED BY <1>1 DEF Comparable, SuggestionsAreOfPairs

(* Before anything was read.                                               *)
LEMMA InitIsGood == Init => IInv
<1> SUFFICES ASSUME Init PROVE IInv
    OBVIOUS
<1> USE DEF Init
<1>1. InputIsGiven /\ DocumentIsOfInput /\ GraphIsOfDocument /\ PairsAreOfDocument
    BY DEF InputIsGiven, DocumentIsOfInput, GraphIsOfDocument, PairsAreOfDocument
<1>2. Counted
    <2>1. IsFiniteSet(candidates) /\ Cardinality(candidates) = 0
        BY FS_EmptySet
    <2>2. counts \in [{"considered", "suppressed", "blocked"} -> Nat]
        OBVIOUS
    <2>3. counts.considered = 0 /\ counts.suppressed = 0 /\ counts.blocked = 0
        OBVIOUS
    <2> HIDE DEF Init
    <2>4. Cardinality(candidates) + counts.suppressed + counts.blocked <= counts.considered
        BY <2>1, <2>3
    <2> QED BY <2>1, <2>2, <2>4 DEF Counted, Init
<1>3. SuggestionsAreOfPairs
    BY DEF SuggestionsAreOfPairs
<1>4. NoneIsForgotten
    BY DEF NoneIsForgotten
<1> QED BY <1>1, <1>2, <1>3, <1>4 DEF IInv

(* The document is normalized, and nothing is looked for yet.              *)
LEMMA NormalizeStep == IInv /\ Normalize => IInv'
<1> SUFFICES ASSUME IInv, Normalize PROVE IInv'
    OBVIOUS
<1> USE DEF Normalize, IInv, input, report
<1>1. InputIsGiven' /\ DocumentIsOfInput'
    BY DEF InputIsGiven, DocumentIsOfInput
<1>2. GraphIsOfDocument'
    BY DEF GraphIsOfDocument
<1>3. left' = {} /\ candidates' = {} /\ truncated' = FALSE /\ warnings' = {}
    BY DEF PairsAreOfDocument
<1>4. PairsAreOfDocument' /\ SuggestionsAreOfPairs' /\ NoneIsForgotten'
    BY <1>3 DEF PairsAreOfDocument, SuggestionsAreOfPairs, NoneIsForgotten
<1>5. Counted'
    BY DEF Counted
<1> QED BY <1>1, <1>2, <1>4, <1>5

(* Links become edges, and nothing is looked for yet.                      *)
LEMMA DeclareStep == IInv /\ Declare => IInv'
<1> SUFFICES ASSUME IInv, Declare PROVE IInv'
    OBVIOUS
<1> USE DEF Declare, IInv, input, report
<1>1. InputIsGiven' /\ DocumentIsOfInput'
    BY DEF InputIsGiven, DocumentIsOfInput
<1>2. GraphIsOfDocument'
    BY DEF GraphIsOfDocument
<1>3. left' = {} /\ candidates' = {} /\ truncated' = FALSE /\ warnings' = {}
    BY DEF PairsAreOfDocument
<1>4. PairsAreOfDocument' /\ SuggestionsAreOfPairs' /\ NoneIsForgotten'
    BY <1>3 DEF PairsAreOfDocument, SuggestionsAreOfPairs, NoneIsForgotten
<1>5. Counted'
    BY DEF Counted
<1> QED BY <1>1, <1>2, <1>4, <1>5

(* All plausible pairs are to come.                                        *)
LEMMA IndexStep == IInv /\ Index => IInv'
<1> SUFFICES ASSUME IInv, Index PROVE IInv'
    OBVIOUS
<1> USE DEF Index, IInv, input
<1>1. InputIsGiven' /\ DocumentIsOfInput'
    BY DEF InputIsGiven, DocumentIsOfInput
<1>2. GraphIsOfDocument'
    BY DEF GraphIsOfDocument
<1>3. left = {} /\ candidates' = {} /\ truncated' = FALSE /\ warnings = {}
    BY DEF PairsAreOfDocument
<1>4. \/ at' = "failed" /\ left' = {} /\ warnings' = {}
      \/ /\ at' = "pairs" /\ ValidConfig(config) /\ left' = Pairs
         /\ warnings' = SchemaWarnings(document, config.depth)
    BY <1>3 DEF Pairs
<1>5. Pairs' = Pairs
    BY DEF Pairs
<1>6. PairsAreOfDocument' /\ SuggestionsAreOfPairs'
    BY <1>3, <1>4, <1>5 DEF PairsAreOfDocument, SuggestionsAreOfPairs
<1>7. NoneIsForgotten'
    BY <1>4, <1>5 DEF NoneIsForgotten
<1>8. warnings' \subseteq {"schema", "pairs", "time", "candidates"}
    BY <1>4 DEF SchemaWarnings
<1>9. Counted'
    BY <1>8 DEF Counted
<1> QED BY <1>1, <1>2, <1>6, <1>7, <1>9

-----------------------------------------------------------------------------
(* A limit is met: what is left stays, and it is said.                     *)
LEMMA StopStep ==
    ASSUME IInv, at = "pairs", NEW warning \in {"pairs", "time"}, Stop(warning)
    PROVE  IInv'
<1> USE DEF Stop, IInv, input, model
<1>1. InputIsGiven' /\ DocumentIsOfInput'
    BY DEF InputIsGiven, DocumentIsOfInput
<1>2. GraphIsOfDocument'
    BY DEF GraphIsOfDocument
<1>3. Pairs' = Pairs
    BY DEF Pairs
<1>4. PairsAreOfDocument'
    BY <1>3 DEF PairsAreOfDocument
<1>5. Counted'
    BY DEF Counted
<1>6. SuggestionsAreOfPairs'
    BY <1>3 DEF SuggestionsAreOfPairs, IsSuggestion
<1>7. NoneIsForgotten'
    <2>1. \A pair : Deserves(pair)' <=> Deserves(pair)
        BY DEF Deserves, Candidate
    <2> QED BY <1>3, <2>1 DEF NoneIsForgotten
<1> QED BY <1>1, <1>2, <1>4, <1>5, <1>6, <1>7

(* All pairs were considered.                                              *)
LEMMA PairsDoneStep == IInv /\ PairsDone => IInv'
<1> SUFFICES ASSUME IInv, PairsDone PROVE IInv'
    OBVIOUS
<1> USE DEF PairsDone, IInv, input, model, report, More
<1>1. InputIsGiven' /\ DocumentIsOfInput'
    BY DEF InputIsGiven, DocumentIsOfInput
<1>2. GraphIsOfDocument'
    BY DEF GraphIsOfDocument
<1>3. Pairs' = Pairs
    BY DEF Pairs
<1>4. PairsAreOfDocument'
    BY <1>3 DEF PairsAreOfDocument
<1>5. Counted'
    BY DEF Counted
<1>6. SuggestionsAreOfPairs'
    BY <1>3 DEF SuggestionsAreOfPairs, IsSuggestion
<1>7. NoneIsForgotten'
    <2>1. \A pair : Deserves(pair)' <=> Deserves(pair)
        BY DEF Deserves, Candidate
    <2> QED BY <1>3, <2>1 DEF NoneIsForgotten
<1> QED BY <1>1, <1>2, <1>4, <1>5, <1>6, <1>7

(* A pair is left out, or becomes a suggestion that was not there.         *)
LEMMA ConsiderStep == IInv /\ Consider => IInv'
<1> SUFFICES ASSUME IInv, Consider PROVE IInv'
    OBVIOUS
<1> DEFINE pair == Upcoming
           candidate == Candidate(document, pair)
           taken == {c \in {candidate} : Kept(config, c)}
<1>1. at = "pairs" /\ UNCHANGED <<input, at, model, truncated, warnings>> /\ left' = left \ {pair}
    BY DEF Consider
<1>2. pair \in left
    BY DEF Consider, More, Upcoming
<1>3. \/ /\ Declared(edges, pair) /\ candidates' = candidates
         /\ counts' = [counts EXCEPT !.considered = @ + 1, !.suppressed = @ + 1]
      \/ /\ ~Declared(edges, pair) /\ Blocked(pair, edges) /\ candidates' = candidates
         /\ counts' = [counts EXCEPT !.considered = @ + 1, !.blocked = @ + 1]
      \/ /\ ~Declared(edges, pair) /\ ~Blocked(pair, edges)
         /\ candidates' = candidates \cup taken
         /\ counts' = [counts EXCEPT !.considered = @ + 1]
    BY DEF Consider
<1>4. /\ candidate.found = counts.considered /\ candidate.id = Fingerprint(pair)
      /\ candidate.pair = pair /\ candidate.score = Score(Evidence(document, pair))
      /\ candidate.confidence = Confidence(Evidence(document, pair))
    BY DEF Candidate
<1> HIDE DEF pair, candidate
<1> USE DEF IInv, input, model
<1>5. InputIsGiven' /\ DocumentIsOfInput'
    BY <1>1 DEF InputIsGiven, DocumentIsOfInput
<1>6. GraphIsOfDocument'
    BY <1>1 DEF GraphIsOfDocument
<1>7. Pairs' = Pairs /\ left \subseteq Pairs
    BY <1>1 DEF Pairs, PairsAreOfDocument
<1>8. PairsAreOfDocument'
    BY <1>1, <1>7 DEF PairsAreOfDocument
<1>9. counts \in [{"considered", "suppressed", "blocked"} -> Nat] /\ IsFiniteSet(candidates)
    BY DEF Counted
<1>10. /\ counts' \in [{"considered", "suppressed", "blocked"} -> Nat]
      /\ counts'.considered = counts.considered + 1
      /\ counts'.suppressed >= counts.suppressed /\ counts'.blocked >= counts.blocked
      /\ \/ /\ counts'.suppressed + counts'.blocked <= counts.suppressed + counts.blocked + 1
            /\ candidates' = candidates
         \/ /\ counts'.suppressed = counts.suppressed /\ counts'.blocked = counts.blocked
            /\ candidates' = candidates \cup taken
    <2> DEFINE n == counts.considered
               k == counts.suppressed
               b == counts.blocked
    <2>1. n \in Nat /\ k \in Nat /\ b \in Nat
        BY <1>9
    <2>2. CASE /\ candidates' = candidates
               /\ counts' = [counts EXCEPT !.considered = @ + 1, !.suppressed = @ + 1]
        <3>1. counts' = [counts EXCEPT !.considered = n + 1, !.suppressed = k + 1]
            BY <2>2
        <3> HIDE DEF n, k, b
        <3>2. n + 1 \in Nat /\ k + 1 \in Nat
            BY <2>1
        <3>3. /\ counts' \in [{"considered", "suppressed", "blocked"} -> Nat]
              /\ counts'.considered = n + 1 /\ counts'.suppressed = k + 1
              /\ counts'.blocked = counts.blocked
            BY <1>9, <3>1, <3>2
        <3>4. counts'.blocked = b
            BY <3>3 DEF b
        <3>5. /\ counts'.suppressed >= k /\ counts'.blocked >= b
              /\ counts'.suppressed + counts'.blocked <= k + b + 1
            BY <2>1, <3>3, <3>4
        <3> QED BY <2>2, <3>3, <3>5 DEF n, k, b
    <2>3. CASE /\ candidates' = candidates
               /\ counts' = [counts EXCEPT !.considered = @ + 1, !.blocked = @ + 1]
        <3>1. counts' = [counts EXCEPT !.considered = n + 1, !.blocked = b + 1]
            BY <2>3
        <3> HIDE DEF n, k, b
        <3>2. n + 1 \in Nat /\ b + 1 \in Nat
            BY <2>1
        <3>3. /\ counts' \in [{"considered", "suppressed", "blocked"} -> Nat]
              /\ counts'.considered = n + 1 /\ counts'.blocked = b + 1
              /\ counts'.suppressed = counts.suppressed
            BY <1>9, <3>1, <3>2
        <3>4. counts'.suppressed = k
            BY <3>3 DEF k
        <3>5. /\ counts'.suppressed >= k /\ counts'.blocked >= b
              /\ counts'.suppressed + counts'.blocked <= k + b + 1
            BY <2>1, <3>3, <3>4
        <3> QED BY <2>3, <3>3, <3>5 DEF n, k, b
    <2>4. CASE candidates' = candidates \cup taken /\ counts' = [counts EXCEPT !.considered = @ + 1]
        <3>1. counts' = [counts EXCEPT !.considered = n + 1]
            BY <2>4
        <3> HIDE DEF n
        <3>2. n + 1 \in Nat
            BY <2>1
        <3>3. /\ counts' \in [{"considered", "suppressed", "blocked"} -> Nat]
              /\ counts'.considered = n + 1 /\ counts'.blocked = counts.blocked
              /\ counts'.suppressed = counts.suppressed
            BY <1>9, <3>1, <3>2
        <3> QED BY <2>1, <2>4, <3>3 DEF n
    <2> QED BY <1>3, <2>2, <2>3, <2>4
<1>11. Counted'
    <2> DEFINE C == Cardinality(candidates)
               D == Cardinality(candidates \cup {candidate})
    <2>1. C \in Nat /\ D \in Nat /\ D <= C + 1 /\ IsFiniteSet(candidates \cup {candidate})
        <3>1. IsFiniteSet(candidates \cup {candidate}) /\ (D = C \/ D = C + 1)
            BY <1>9, FS_AddElement
        <3>2. C \in Nat /\ D \in Nat
            BY <1>9, <3>1, FS_CardinalityType
        <3> HIDE DEF C, D
        <3> QED BY <3>1, <3>2
    <2>2. candidates' \in {candidates, candidates \cup {candidate}}
        BY <1>10
    <2>3. IsFiniteSet(candidates')
        BY <1>9, <2>1, <2>2
    <2>4. C + counts.suppressed + counts.blocked <= counts.considered
        BY DEF Counted
    <2>5. candidates' = candidates \cup {candidate} /\ candidates' # candidates =>
              counts'.suppressed = counts.suppressed /\ counts'.blocked = counts.blocked
        BY <1>10
    <2> DEFINE E == Cardinality(candidates')
    <2>6. E \in Nat /\ (E = C \/ E = D)
        BY <2>1, <2>2
    <2>7. E # C => counts'.suppressed = counts.suppressed /\ counts'.blocked = counts.blocked
        BY <2>2, <2>5
    <2>8. counts'.suppressed + counts'.blocked <= counts.suppressed + counts.blocked + 1
        BY <1>9, <1>10
    <2>9. /\ counts.suppressed \in Nat /\ counts.blocked \in Nat /\ counts.considered \in Nat
          /\ counts'.suppressed \in Nat /\ counts'.blocked \in Nat /\ counts'.considered \in Nat
        BY <1>9, <1>10
    <2> HIDE DEF C, D, E
    <2>10. E + counts'.suppressed + counts'.blocked <= counts'.considered
        BY <2>1, <2>4, <2>6, <2>7, <2>8, <2>9, <1>10
    <2>11. truncated' \in BOOLEAN /\ warnings' \subseteq {"schema", "pairs", "time", "candidates"}
        BY <1>1 DEF Counted
    <2> QED BY <1>10, <2>3, <2>10, <2>11 DEF Counted, E
<1>12. SuggestionsAreOfPairs'
    <2>1. ASSUME NEW c \in candidates' PROVE IsSuggestion(c)'
        <3>1. CASE c \in candidates
            <4>1. IsSuggestion(c)
                BY <3>1 DEF SuggestionsAreOfPairs
            <4>2. c.found < counts'.considered
                BY <1>9, <1>10, <4>1 DEF IsSuggestion
            <4> QED BY <1>1, <1>7, <4>1, <4>2 DEF IsSuggestion
        <3>2. CASE c \notin candidates
            <4>1. /\ c = candidate /\ Kept(config, c)
                  /\ ~Declared(edges, pair) /\ ~Blocked(pair, edges)
                BY <1>3, <3>2
            <4>2. c.pair = pair /\ c.found = counts.considered
                BY <1>4, <4>1
            <4>3. c.found \in Nat /\ c.found < counts'.considered
                BY <1>9, <1>10, <4>2
            <4>4. c.pair \in Pairs /\ c.pair \notin left'
                BY <1>1, <1>7, <1>2, <4>2
            <4> QED BY <1>1, <1>7, <1>4, <4>1, <4>2, <4>3, <4>4 DEF IsSuggestion
        <3> QED BY <3>1, <3>2
    <2>2. ASSUME NEW c \in candidates', NEW d \in candidates', c.found = d.found PROVE c = d
        <3>1. ASSUME NEW e \in candidates PROVE e.found # counts.considered
            BY <1>9 DEF SuggestionsAreOfPairs, IsSuggestion
        <3>2. \A e \in candidates' : e \in candidates \/ e = candidate
            BY <1>3
        <3> QED BY <1>4, <2>2, <3>1, <3>2 DEF SuggestionsAreOfPairs
    <2> QED BY <2>1, <2>2 DEF SuggestionsAreOfPairs
<1>13. NoneIsForgotten'
    <2>1. \A q : Deserves(q)' => Deserves(q)
        <3> SUFFICES ASSUME NEW q, Deserves(q)' PROVE Deserves(q)
            OBVIOUS
        <3>1. Candidate(document, q).confidence = Candidate(document, q)'.confidence
            BY <1>1 DEF Candidate
        <3> QED BY <1>1, <3>1 DEF Deserves, Kept
    <2>2. ASSUME NEW q \in Pairs', Deserves(q)'
          PROVE  q \in left' \/ \E c \in candidates' : c.pair = q
        <3>1. CASE q = pair
            <4>1. Deserves(pair)
                BY <2>1, <2>2, <3>1
            <4>2. Kept(config, candidate) /\ ~Declared(edges, pair) /\ ~Blocked(pair, edges)
                BY <4>1 DEF Deserves, candidate
            <4>3. candidate \in candidates'
                BY <1>3, <4>2
            <4> QED BY <1>4, <3>1, <4>3
        <3>2. CASE q # pair
            <4>1. q \in left \/ \E c \in candidates : c.pair = q
                BY <1>1, <1>7, <2>1, <2>2 DEF NoneIsForgotten
            <4>2. candidates \subseteq candidates'
                BY <1>3
            <4> QED BY <1>1, <3>2, <4>1, <4>2
        <3> QED BY <3>1, <3>2
    <2> QED BY <1>1, <2>2 DEF NoneIsForgotten
<1> QED BY <1>5, <1>6, <1>8, <1>11, <1>12, <1>13

(* The best for each place stay, and the best of those: what is cut away   *)
(* for a place is not better than any of as many as were asked for.        *)
LEMMA RankStep == IInv /\ Rank => IInv'
<1> SUFFICES ASSUME IInv, Rank PROVE IInv'
    OBVIOUS
<1> DEFINE k == config.topK
           best == TopK(candidates, k)
           max == config.maxCandidates
           cut == Cardinality(best) > max
           Taking(P) == {c \in candidates : Place(c) = P}
<1>1. /\ at = "rank" /\ at' = "done" /\ candidates' = Best(best, max)
      /\ truncated' = (truncated \/ cut)
      /\ warnings' = IF cut THEN warnings \cup {"candidates"} ELSE warnings
      /\ UNCHANGED <<input, model, left, counts>>
    BY DEF Rank
<1> USE DEF IInv, input, model
<1>2. ValidConfig(config) /\ left \subseteq Pairs
    BY <1>1 DEF PairsAreOfDocument
<1>3. k \in Nat /\ max \in Nat
    BY <1>2 DEF ValidConfig
<1>4. IsFiniteSet(candidates) /\ Comparable(candidates)
    BY SuggestionsCompare DEF Counted
<1> HIDE DEF k, max
<1>5. ASSUME NEW S \in SUBSET candidates PROVE IsFiniteSet(S) /\ Comparable(S)
    BY <1>4, FS_Subset DEF Comparable
<1>6. ASSUME NEW P
      PROVE  /\ Best(Taking(P), k) \subseteq Taking(P) /\ Cardinality(Best(Taking(P), k)) <= k
             /\ \A c \in Taking(P) \ Best(Taking(P), k) :
                   /\ Cardinality(Best(Taking(P), k)) = k
                   /\ \A d \in Best(Taking(P), k) : ~Before(c, d)
    <2> DEFINE S == Taking(P)
    <2>1. IsFiniteSet(S) /\ Comparable(S)
        BY <1>5
    <2> HIDE DEF S
    <2>2. /\ Best(S, k) \subseteq S /\ Cardinality(Best(S, k)) <= k
          /\ \A c \in S \ Best(S, k) :
                /\ Cardinality(Best(S, k)) = k
                /\ \A d \in Best(S, k) : ~Before(c, d)
        BY <1>3, <2>1, BestAreBest
    <2> QED BY <2>2 DEF S
<1>7. best = {c \in candidates : c \in Best(Taking(Place(c)), k)}
    BY DEF TopK
<1> HIDE DEF best
<1>8. best \subseteq candidates /\ IsFiniteSet(best) /\ Comparable(best)
    BY <1>5, <1>7
<1>9. Best(best, max) \subseteq best /\ (Cardinality(best) <= max => Best(best, max) = best)
    BY <1>3, <1>8, BestAreBest
<1>10. candidates' \subseteq candidates
    BY <1>1, <1>8, <1>9
<1>11. InputIsGiven' /\ DocumentIsOfInput'
    BY <1>1 DEF InputIsGiven, DocumentIsOfInput
<1>12. GraphIsOfDocument'
    BY <1>1 DEF GraphIsOfDocument
<1>13. Pairs' = Pairs
    BY <1>1 DEF Pairs
<1>14. PairsAreOfDocument'
    BY <1>1, <1>13 DEF PairsAreOfDocument
<1>15. Counted'
    <2>1. /\ IsFiniteSet(candidates') /\ Cardinality(candidates') <= Cardinality(candidates)
          /\ Cardinality(candidates) \in Nat /\ Cardinality(candidates') \in Nat
        BY <1>4, <1>10, FS_Subset, FS_CardinalityType
    <2>2. /\ counts.suppressed \in Nat /\ counts.blocked \in Nat /\ counts.considered \in Nat
          /\ Cardinality(candidates) + counts.suppressed + counts.blocked <= counts.considered
        BY DEF Counted
    <2>3. Cardinality(candidates') + counts.suppressed + counts.blocked <= counts.considered
        BY <2>1, <2>2
    <2>4. warnings' \subseteq {"schema", "pairs", "time", "candidates"} /\ truncated' \in BOOLEAN
        BY <1>1 DEF Counted
    <2> QED BY <1>1, <2>1, <2>3, <2>4 DEF Counted
<1>16. SuggestionsAreOfPairs'
    <2>1. ASSUME NEW c \in candidates' PROVE IsSuggestion(c)'
        BY <1>1, <1>13, <1>10 DEF SuggestionsAreOfPairs, IsSuggestion
    <2>2. \A c \in candidates', d \in candidates' : c.found = d.found => c = d
        BY <1>10 DEF SuggestionsAreOfPairs
    <2> QED BY <2>1, <2>2 DEF SuggestionsAreOfPairs
<1>17. NothingForgotten'
    <2> DEFINE Shown(pair, others) ==
                   /\ Cardinality(others) <= k
                   /\ \/ ~Deserves(pair)' \/ \E c \in others : c.pair = pair
                      \/ /\ Cardinality(others) = k
                         /\ \A c \in others :
                               c.confidence >= (Candidate(document, pair)').confidence
    <2>1. SUFFICES ASSUME ~truncated',
                          NEW o \in document.operations, NEW t \in document.operations,
                          NEW s \in SourceFields(document, o, config.depth),
                          NEW g \in TargetFields(document, t, config.depth)
                   PROVE  Shown(<<s, g>>, {c \in candidates' : Place(c) = <<t.id, g.target>>})
        <3> SUFFICES ASSUME ~truncated',
                            NEW o \in document'.operations, NEW t \in document'.operations,
                            NEW s \in SourceFields(document', o, config'.depth),
                            NEW g \in TargetFields(document', t, config'.depth)
                     PROVE  (LET pair == <<s, g>>
                                 others == {c \in candidates : Place(c) = <<t.id, g.target>>}
                             IN /\ Cardinality(others) <= config.topK
                                /\ \/ ~Deserves(pair) \/ \E c \in others : c.pair = pair
                                   \/ /\ Cardinality(others) = config.topK
                                      /\ \A c \in others :
                                            c.confidence >= Candidate(document, pair).confidence)'
            BY DEF NothingForgotten
        <3>1. document' = document /\ config'.topK = k /\ config'.depth = config.depth
            BY <1>1 DEF k
        <3> HIDE DEF Shown
        <3>2. Shown(<<s, g>>, {c \in candidates' : Place(c) = <<t.id, g.target>>})
            BY <2>1, <3>1
        <3> QED BY <3>1, <3>2 DEF Shown
    <2> DEFINE pair == <<s, g>>
               P == <<t.id, g.target>>
               D == Taking(P)
               others == {c \in candidates' : Place(c) = P}
    <2>2. ~truncated /\ Cardinality(best) <= max /\ candidates' = best
        <3>1. ~truncated /\ ~cut
            BY <1>1, <2>1
        <3>2. Cardinality(best) \in Nat
            BY <1>8, FS_CardinalityType
        <3> QED BY <1>1, <1>3, <1>9, <3>1, <3>2
    <2>3. others = Best(D, k)
        <3>1. \A c \in others : c \in Best(D, k)
            BY <1>7, <2>2
        <3>2. ASSUME NEW c \in Best(D, k) PROVE c \in others
            <4>1. c \in D
                BY <1>6
            <4>2. c \in candidates /\ Place(c) = P
                BY <4>1
            <4> QED BY <1>7, <2>2, <4>2
        <3> QED BY <3>1, <3>2
    <2>4. Cardinality(others) <= k
        BY <1>6, <2>3
    <2>5. ASSUME Deserves(pair)', NEW c \in candidates, c.pair = pair, c \notin others
          PROVE  /\ Cardinality(others) = k
                 /\ \A d \in others : d.confidence >= (Candidate(document, pair)').confidence
        <3>1. Operation(pair, 2) = t.id
            <4>1. PICK given \in Inputs : raw = given.raw
                BY DEF InputIsGiven
            <4>2. document = Normalized(given.raw)
                BY <1>1, <4>1 DEF DocumentIsOfInput
            <4> QED BY <4>2, TargetIs DEF Operation
        <3>2. Place(c) = P
            BY <2>5, <3>1 DEF Place
        <3>3. c \in D
            BY <2>5, <3>2
        <3>4. c \in D \ Best(D, k)
            BY <2>3, <2>5, <3>3
        <3> HIDE DEF D, others
        <3>5. Cardinality(Best(D, k)) = k /\ \A d \in Best(D, k) : ~Before(c, d)
            BY <1>6, <3>4 DEF D
        <3>6. \A d \in Best(D, k) : d \in candidates
            BY <1>6 DEF D
        <3>7. c.confidence = (Candidate(document, pair)').confidence
            <4>1. c.confidence = Confidence(Evidence(document, c.pair))
                BY DEF SuggestionsAreOfPairs, IsSuggestion
            <4> QED BY <1>1, <2>5, <4>1 DEF Candidate
        <3>8. \A d \in Best(D, k) : d.confidence >= c.confidence
            BY <1>4, <3>5, <3>6, BeforeIsAnOrder
        <3> QED BY <2>3, <3>5, <3>7, <3>8
    <2>6. ASSUME Deserves(pair)' PROVE \E c \in candidates : c.pair = pair
        <3>1. pair \in Pairs
            BY <2>6 DEF Deserves, Pairs, PlausiblePairs
        <3>2. Deserves(pair)
            <4>1. Candidate(document, pair).confidence = (Candidate(document, pair)').confidence
                BY <1>1 DEF Candidate
            <4> QED BY <1>1, <2>6, <4>1 DEF Deserves, Kept
        <3>3. left = {}
            BY <1>1, <2>2 DEF NoneIsForgotten
        <3> QED BY <1>1, <3>1, <3>2, <3>3 DEF NoneIsForgotten
    <2> HIDE DEF others, pair
    <2>7. Shown(pair, others)
        BY <2>4, <2>5, <2>6
    <2> QED BY <2>7 DEF others, pair
<1>18. NoneIsForgotten'
    BY <1>1, <1>17 DEF NoneIsForgotten
<1> QED BY <1>11, <1>12, <1>14, <1>15, <1>16, <1>18

(* Every step keeps the invariant.                                         *)
LEMMA NextIsGood == IInv /\ [Next]_vars => IInv'
<1> SUFFICES ASSUME IInv, [Next]_vars PROVE IInv'
    OBVIOUS
<1>1. CASE Normalize \/ Declare \/ Index
    BY <1>1, NormalizeStep, DeclareStep, IndexStep
<1>2. CASE LimitPairs
    BY <1>2, StopStep DEF LimitPairs
<1>3. CASE TimeIsUp
    BY <1>3, StopStep DEF TimeIsUp
<1>4. CASE Consider \/ PairsDone \/ Rank
    BY <1>4, ConsiderStep, PairsDoneStep, RankStep
<1>5. CASE UNCHANGED vars
    <2> USE <1>5 DEF vars, input, model, report, IInv
    <2>1. Pairs' = Pairs
        BY DEF Pairs
    <2>2. /\ InputIsGiven' /\ DocumentIsOfInput' /\ GraphIsOfDocument'
          /\ PairsAreOfDocument' /\ Counted'
        BY <2>1 DEF InputIsGiven, DocumentIsOfInput, GraphIsOfDocument, PairsAreOfDocument, Counted
    <2>3. SuggestionsAreOfPairs'
        BY <2>1 DEF SuggestionsAreOfPairs, IsSuggestion
    <2>4. \A pair : /\ Deserves(pair)' <=> Deserves(pair)
                   /\ Candidate(document, pair)' = Candidate(document, pair)
        BY DEF Deserves, Candidate
    <2>5. ASSUME NothingForgotten PROVE NothingForgotten'
        <3> SUFFICES ASSUME Done', ~truncated',
                            NEW o \in document'.operations, NEW t \in document'.operations,
                            NEW s \in SourceFields(document', o, config'.depth),
                            NEW g \in TargetFields(document', t, config'.depth)
                     PROVE  (LET pair == <<s, g>>
                                 others == {c \in candidates : Place(c) = <<t.id, g.target>>}
                             IN /\ Cardinality(others) <= config.topK
                                /\ \/ ~Deserves(pair) \/ \E c \in others : c.pair = pair
                                   \/ /\ Cardinality(others) = config.topK
                                      /\ \A c \in others :
                                            c.confidence >= Candidate(document, pair).confidence)'
            BY DEF NothingForgotten
        <3> QED BY <2>5, <2>4 DEF NothingForgotten, Done
    <2>6. NoneIsForgotten'
        BY <2>1, <2>5, <2>4 DEF NoneIsForgotten
    <2> QED BY <2>2, <2>3, <2>6
<1> QED BY <1>1, <1>2, <1>3, <1>4, <1>5 DEF Next

(* That what is declared is kept follows from the invariant.               *)
LEMMA GoodKeepsDeclared == IInv => NothingDeclaredIsLost
<1> SUFFICES ASSUME IInv PROVE NothingDeclaredIsLost
    OBVIOUS
<1> USE DEF IInv
<1>1. PICK given \in Inputs : raw = given.raw
    BY DEF InputIsGiven
<1>2. CASE at = "normalize"
    <2>1. document.operations = {}
        BY <1>2 DEF DocumentIsOfInput, NoDocument
    <2> QED BY <2>1 DEF NothingDeclaredIsLost, OperationsSpeakLast, LinksAreKept
<1>3. CASE at # "normalize"
    <2>1. document = Normalized(raw)
        BY <1>3 DEF DocumentIsOfInput
    <2>2. OperationsSpeakLast
        BY <1>1, <2>1, SpeaksLast
    <2>3. CASE at \in {"index", "pairs", "rank", "done"}
        <3>1. ProjectionProblems(document) = {} /\ LinkEdges(document) \subseteq edges
            BY <2>3 DEF GraphIsOfDocument
        <3> QED BY <1>1, <2>1, <2>2, <3>1, NoProblemsNoLoss DEF NothingDeclaredIsLost
    <2>4. CASE at \notin {"index", "pairs", "rank", "done"}
        BY <2>2, <2>4 DEF NothingDeclaredIsLost, LinksAreKept
    <2> QED BY <2>3, <2>4
<1> QED BY <1>2, <1>3

(* So do the parts of what makes a suggestion sound.                       *)
LEMMA GoodSuggestsWell == IInv => SuggestionsAreSound
<1> SUFFICES ASSUME IInv PROVE SuggestionsAreSound
    OBVIOUS
<1> USE DEF IInv
<1>1. PICK given \in Inputs : raw = given.raw /\ extra = given.extra
    BY DEF InputIsGiven
<1>2. ASSUME NEW c \in candidates
      PROVE  /\ IsSuggestion(c) /\ edges = LinkEdges(document) \cup extra
             /\ document = Normalized(given.raw)
    <2>1. at \in {"pairs", "rank", "done"}
        BY DEF PairsAreOfDocument
    <2> QED BY <1>1, <2>1 DEF SuggestionsAreOfPairs, GraphIsOfDocument, DocumentIsOfInput
<1>3. TypeOK
    <2>1. left \subseteq Pairs
        BY DEF PairsAreOfDocument
    <2>2. \A pair \in Pairs : Plausible(pair)
        BY DEF Pairs, PlausiblePairs
    <2>3. ASSUME NEW c \in candidates
          PROVE  /\ Plausible(c.pair) /\ c.pair \notin left
                 /\ c.score \in Int /\ c.confidence \in 60 .. 100
                 /\ c.found \in 0 .. counts.considered
        <3>1. /\ c.pair \in Pairs /\ c.pair \notin left
              /\ c.found \in Nat /\ c.found < counts.considered
            BY <1>2 DEF IsSuggestion
        <3>2. counts.considered \in Nat
            BY DEF Counted
        <3>3. c.found \in 0 .. counts.considered
            BY <3>1, <3>2
        <3> QED BY <2>2, <3>1, <3>3, SuggestionsCompare
    <2> QED BY <2>1, <2>2, <2>3 DEF TypeOK, DocumentIsOfInput, Counted
<1>4. SuggestionsAreNew
    <2>1. ASSUME NEW c \in candidates, NEW j \in Joined(document),
                 j.from = Operation(c.pair, 1), j.to.id = Operation(c.pair, 2),
                 Suggested(c.pair) \in LinkMappings(j.to, j.link)
          PROVE  FALSE
        <3>1. PICK e \in LinkEdges(document) :
                  /\ e.kind = "data" /\ e.from = j.from /\ e.to = j.to.id
                  /\ Suggested(c.pair) \in e.mappings
            BY <2>1, MappingsAreOnEdges
        <3>2. e \in edges
            BY <1>2
        <3>3. Declared(edges, c.pair)
            BY <2>1, <3>1, <3>2 DEF Declared
        <3> QED BY <1>2, <3>3 DEF IsSuggestion
    <2> QED BY <2>1 DEF SuggestionsAreNew
<1>5. AcceptingKeepsOrder
    <2>1. ASSUME NEW c \in candidates,
                 Cyclic(Flow(edges) \cup {<<Operation(c.pair, 1), Operation(c.pair, 2)>>})
          PROVE  Cyclic(Flow(edges))
        <3>1. ~ClosesCycle(edges, Operation(c.pair, 1), Operation(c.pair, 2))
            BY <1>2 DEF IsSuggestion, Blocked
        <3>2. IsFiniteSet(extra)
            BY <1>1, InputsAssumption
        <3>3. IsFiniteSet(Flow(edges))
            BY <1>2, <3>2, FlowIsGiven
        <3> QED BY <2>1, <3>1, <3>3, NoNewCycle
    <2> QED BY <2>1 DEF AcceptingKeepsOrder
<1>6. IdFixesEvidence
    <2>1. ASSUME NEW c \in candidates, NEW d \in candidates, c.id = d.id
          PROVE  /\ Evidence(document, c.pair) = Evidence(document, d.pair)
                 /\ c.confidence = d.confidence
        <3>1. /\ c.pair \in Pairs /\ d.pair \in Pairs /\ Fingerprint(c.pair) = Fingerprint(d.pair)
              /\ c.confidence = Confidence(Evidence(document, c.pair))
              /\ d.confidence = Confidence(Evidence(document, d.pair))
              /\ document = Normalized(given.raw)
            BY <1>2, <2>1 DEF IsSuggestion
        <3>2. Alike(c.pair, d.pair)
            BY <3>1, SameIdsAreAlike DEF Pairs
        <3>3. Evidence(document, c.pair) = Evidence(document, d.pair)
            BY <3>2, AlikeIsAsGood
        <3> QED BY <3>1, <3>3
    <2> QED BY <2>1 DEF IdFixesEvidence
<1> QED BY <1>3, <1>4, <1>5, <1>6 DEF SuggestionsAreSound

(* And what is said of the cuts.                                           *)
LEMMA GoodSaysCuts == IInv => CutsAreSaid
<1> SUFFICES ASSUME IInv PROVE CutsAreSaid
    OBVIOUS
<1> USE DEF IInv
<1>1. PICK given \in Inputs : raw = given.raw
    BY DEF InputIsGiven
<1>2. NothingHidden
    <2>1. CASE at \in {"pairs", "rank", "done"}
        <3>1. document = Normalized(raw)
            BY <2>1 DEF DocumentIsOfInput
        <3>2. config.depth \in Nat /\ SchemaWarnings(document, config.depth) \subseteq warnings
            BY <2>1 DEF PairsAreOfDocument, ValidConfig
        <3> QED BY <1>1, <3>1, <3>2, NothingIsHidden DEF NothingHidden
    <2> QED BY <2>1 DEF NothingHidden
<1>3. NothingForgotten
    BY DEF NoneIsForgotten, NothingForgotten, Done
<1> QED BY <1>2, <1>3 DEF CutsAreSaid

(* What the document declares is in the graph: an operation's own          *)
(* parameter takes the place of its path's, and what links give is on an   *)
(* edge unless a problem stops the command.                                *)
THEOREM DeclaredNeverLost == Spec => []NothingDeclaredIsLost
<1>1. Init => IInv
    BY InitIsGood
<1>2. IInv /\ [Next]_vars => IInv'
    BY NextIsGood
<1>3. IInv => NothingDeclaredIsLost
    BY GoodKeepsDeclared
<1> QED BY <1>1, <1>2, <1>3, PTL DEF Spec

(* A suggestion is not declared already, keeps the order of the            *)
(* operations, and rests on the same evidence as any other with its        *)
(* fingerprint.                                                            *)
THEOREM SuggestionsAlwaysSound == Spec => []SuggestionsAreSound
<1>1. Init => IInv
    BY InitIsGood
<1>2. IInv /\ [Next]_vars => IInv'
    BY NextIsGood
<1>3. IInv => SuggestionsAreSound
    BY GoodSuggestsWell
<1> QED BY <1>1, <1>2, <1>3, PTL DEF Spec

(* A report without a warning of the depth hides no field, and a complete  *)
(* one leaves out only what as many as were asked for are at least as good *)
(* as.                                                                     *)
THEOREM CutsAlwaysSaid == Spec => []CutsAreSaid
<1>1. Init => IInv
    BY InitIsGood
<1>2. IInv /\ [Next]_vars => IInv'
    BY NextIsGood
<1>3. IInv => CutsAreSaid
    BY GoodSaysCuts
<1> QED BY <1>1, <1>2, <1>3, PTL DEF Spec
====
