----------------------------- MODULE RecordsProofs -----------------------------
(***************************************************************************)
(* That the records lose no frame, that the summary of a product tells     *)
(* what happened to it, and that the score of a video is that of its       *)
(* milliseconds, for any verdicts, rows, annotations and bounds.           *)
(*                                                                         *)
(* The summary is a fold over rows of any number, and the score is made of *)
(* sums.  The induction theorems of the library have an operator as        *)
(* parameter; the lemmas on counting have a set instead, and rest on the   *)
(* least element that every set of naturals has.                           *)
(***************************************************************************)
EXTENDS Records, Scoring, FiniteSetTheorems, WellFoundedInduction, TLAPS

-----------------------------------------------------------------------------
(* Counting: induction, folds and sums                                     *)

\* Every set of naturals has a least element.
LEMMA LeastNatural ==
  ASSUME NEW S \in SUBSET Nat, S # {}
  PROVE  \E n \in S : \A m \in S : n <= m
<1>1. PICK x \in S : \A y \in S : ~(<<y, x>> \in OpToRel(<, Nat))
  BY NatLessThanWellFounded, WFMin, Zenon
<1>2. ASSUME NEW y \in S PROVE x <= y
  <2>1. <<y, x>> \notin OpToRel(<, Nat)
    BY <1>1, Zenon
  <2>2. ~(y < x)
    BY <2>1, SMT DEF OpToRel
  <2>3. QED BY <2>2, SMT
<1>3. QED BY <1>2, Zenon

\* Induction over the naturals.
LEMMA EachNatural ==
  ASSUME NEW S, 0 \in S, \A n \in Nat : n \in S => n + 1 \in S
  PROVE  Nat \subseteq S
<1> DEFINE T == Nat \ S
<1>1. SUFFICES ASSUME T # {} PROVE FALSE
  OBVIOUS
<1>2. PICK n \in T : \A m \in T : n <= m
  <2>1. T \in SUBSET Nat
    OBVIOUS
  <2> HIDE DEF T
  <2>2. QED BY <1>1, <2>1, LeastNatural, Zenon
<1>3. n \in Nat /\ n # 0 /\ n \notin S
  BY SMT
<1>4. n - 1 \in Nat /\ n - 1 \notin S
  <2>1. n - 1 \in Nat /\ (n - 1) + 1 = n
    BY <1>3, SMT
  <2>2. QED BY <1>3, <2>1
<1>5. n <= n - 1
  BY <1>2, <1>4
<1>6. QED BY <1>3, <1>5

LEMMA NotEmpty ==
  ASSUME NEW T, NEW n \in Nat, Cardinality(T) = n + 1
  PROVE  T # {}
<1>1. Cardinality({}) = 0
  BY FS_EmptySet
<1>2. QED BY <1>1

\* Induction over a finite set, element by element.
LEMMA EachFiniteSet ==
  ASSUME NEW S, IsFiniteSet(S), NEW Q, {} \in Q,
         \A T \in SUBSET S, x \in S : T \in Q /\ x \notin T => T \cup {x} \in Q
  PROVE  S \in Q
<1> DEFINE N == {n \in Nat : \A T \in SUBSET S : Cardinality(T) = n => T \in Q}
<1>1. \A T \in SUBSET S : IsFiniteSet(T) /\ Cardinality(T) \in Nat
  BY FS_Subset, FS_CardinalityType, Zenon
<1>2. 0 \in N
  BY <1>1, FS_EmptySet
<1>3. ASSUME NEW n \in Nat, n \in N PROVE n + 1 \in N
  <2>1. ASSUME NEW T \in SUBSET S, Cardinality(T) = n + 1 PROVE T \in Q
    <3>1. T # {}
      BY <2>1, NotEmpty, Zenon
    <3>2. PICK x \in T : TRUE
      BY <3>1
    <3>3. Cardinality(T \ {x}) = n
      <4>1. IsFiniteSet(T)
        BY <1>1
      <4>2. Cardinality(T \ {x}) = Cardinality(T) - 1
        BY <4>1, FS_RemoveElement
      <4>3. QED BY <2>1, <4>2
    <3>4. T \ {x} \in Q
      BY <1>3, <3>3
    <3>5. T = (T \ {x}) \cup {x}
      OBVIOUS
    <3>6. QED BY <3>4, <3>5
  <2>2. QED BY <2>1
<1>4. Nat \subseteq N
  <2> HIDE DEF N
  <2>1. QED BY <1>2, <1>3, EachNatural, Zenon
<1>5. QED BY <1>1, <1>4

\* A set of naturals with a bound has a greatest element.
LEMMA GreatestNatural ==
  ASSUME NEW n \in Nat, NEW t \in SUBSET (0..n), t # {}
  PROVE  \E x \in t : \A y \in t : x >= y
<1> DEFINE T == {m \in Nat : \A y \in t : y <= m}
<1>1. n \in T
  OBVIOUS
<1>2. PICK m \in T : \A k \in T : m <= k
  <2> HIDE DEF T
  <2>1. T \in SUBSET Nat
    BY DEF T
  <2>2. QED BY <1>1, <2>1, LeastNatural
<1>3. m \in t
  <2>1. CASE \A y \in t : y <= m - 1
    <3>1. PICK y \in t : TRUE
      OBVIOUS
    <3>2. m - 1 \in T
      BY <1>2, <2>1, <3>1
    <3>3. QED BY <1>2, <3>2
  <2>2. CASE \E y \in t : ~(y <= m - 1)
    BY <1>2, <2>2
  <2>3. QED BY <2>1, <2>2
<1>4. QED BY <1>2, <1>3

\* Induction along a choice of an element of each set.
LEMMA EachPicked ==
  ASSUME NEW S, IsFiniteSet(S), NEW pick, \A s \in SUBSET S : s # {} => pick[s] \in s,
         NEW W, {} \in W, \A s \in SUBSET S : s # {} /\ s \ {pick[s]} \in W => s \in W
  PROVE  S \in W
<1> DEFINE N == {n \in Nat : \A s \in SUBSET S : Cardinality(s) = n => s \in W}
<1>1. \A s \in SUBSET S : IsFiniteSet(s) /\ Cardinality(s) \in Nat
  BY FS_Subset, FS_CardinalityType, Zenon
<1>2. 0 \in N
  BY <1>1, FS_EmptySet
<1>3. ASSUME NEW n \in Nat, n \in N, NEW s \in SUBSET S, Cardinality(s) = n + 1
      PROVE  s \in W
  <2>1. s # {}
    BY <1>3, NotEmpty, Zenon
  <2>2. Cardinality(s \ {pick[s]}) = n
    <3>1. IsFiniteSet(s) /\ pick[s] \in s
      BY <1>1, <2>1
    <3>2. Cardinality(s \ {pick[s]}) = Cardinality(s) - 1
      BY <3>1, FS_RemoveElement
    <3>3. QED BY <1>3, <3>2
  <2>3. QED BY <1>3, <2>1, <2>2
<1>4. \A n \in Nat : n \in N => n + 1 \in N
  BY <1>3
<1>5. Nat \subseteq N
  <2> HIDE DEF N
  <2>1. QED BY <1>2, <1>4, EachNatural, Zenon
<1>6. QED BY <1>1, <1>5

-----------------------------------------------------------------------------
(* A fold is a recursion over the subsets of a finite set.                 *)

IsFold(it, S, base, G, pick) ==
    it = [s \in SUBSET S |-> IF s = {} THEN base ELSE G[<<pick[s], it[s \ {pick[s]}]>>]]

\* There is a function that the recursion defines.
LEMMA FoldExists ==
  ASSUME NEW S, IsFiniteSet(S), NEW V, NEW base \in V, NEW G \in [S \X V -> V],
         NEW pick, \A s \in SUBSET S : s # {} => pick[s] \in s
  PROVE  \E it \in [SUBSET S -> V] : IsFold(it, S, base, G, pick)
<1> DEFINE Good(n, it) == \A s \in SUBSET S : Cardinality(s) <= n =>
                   it[s] = IF s = {} THEN base ELSE G[<<pick[s], it[s \ {pick[s]}]>>]
           N == {n \in Nat : \E it \in [SUBSET S -> V] : Good(n, it)}
<1>1. \A s \in SUBSET S : IsFiniteSet(s) /\ Cardinality(s) \in Nat
  BY FS_Subset, FS_CardinalityType, Zenon
<1>2. \A s \in SUBSET S : s # {} => s \ {pick[s]} \in SUBSET S /\ Cardinality(s \ {pick[s]}) = Cardinality(s) - 1
  BY <1>1, FS_RemoveElement
<1>3. 0 \in N
  <2> DEFINE it == [s \in SUBSET S |-> base]
  <2>1. it \in [SUBSET S -> V]
    OBVIOUS
  <2>2. ASSUME NEW s \in SUBSET S, Cardinality(s) <= 0 PROVE s = {}
    BY <1>1, <2>2, FS_EmptySet
  <2>3. Good(0, it)
    BY <2>2
  <2>4. QED BY <2>1, <2>3
<1>4. ASSUME NEW n \in Nat, n \in N PROVE n + 1 \in N
  <2>1. PICK old \in [SUBSET S -> V] : Good(n, old)
    BY <1>4, Zenon
  <2> DEFINE it == [s \in SUBSET S |-> IF s = {} THEN base ELSE G[<<pick[s], old[s \ {pick[s]}]>>]]
  <2>2. it \in [SUBSET S -> V]
    BY <1>2
  <2>3. ASSUME NEW s \in SUBSET S, Cardinality(s) <= n PROVE it[s] = old[s]
    BY <2>1, <2>3
  <2>4. ASSUME NEW s \in SUBSET S, Cardinality(s) <= n + 1
        PROVE  it[s] = IF s = {} THEN base ELSE G[<<pick[s], it[s \ {pick[s]}]>>]
    <3>1. CASE s = {}
      BY <3>1
    <3>2. CASE s # {}
      <4>1. s \ {pick[s]} \in SUBSET S /\ Cardinality(s \ {pick[s]}) <= n
        BY <1>1, <1>2, <2>4, <3>2, SMT
      <4>2. it[s \ {pick[s]}] = old[s \ {pick[s]}]
        <5> HIDE DEF it
        <5>1. QED BY <2>3, <4>1, Zenon
      <4>3. it[s] = G[<<pick[s], old[s \ {pick[s]}]>>]
        BY <3>2
      <4>4. QED BY <3>2, <4>2, <4>3
    <3>3. QED BY <3>1, <3>2
  <2> HIDE DEF it
  <2>5. Good(n + 1, it)
    BY <2>4, Zenon
  <2> HIDE DEF Good
  <2>6. \E h \in [SUBSET S -> V] : Good(n + 1, h)
    BY <2>2, <2>5, Zenon
  <2>7. QED BY <2>6
<1>5. Nat \subseteq N
  <2> HIDE DEF N
  <2>1. QED BY <1>3, <1>4, EachNatural, Zenon
<1>6. PICK it \in [SUBSET S -> V] : Good(Cardinality(S), it)
  BY <1>1, <1>5
<1>7. \A s \in SUBSET S : Cardinality(s) <= Cardinality(S)
  BY FS_Subset
<1>8. IsFold(it, S, base, G, pick)
  <2>1. \A s \in SUBSET S : it[s] = IF s = {} THEN base ELSE G[<<pick[s], it[s \ {pick[s]}]>>]
    BY <1>6, <1>7, Zenon
  <2>2. it = [s \in SUBSET S |-> it[s]]
    OBVIOUS
  <2>3. QED BY <2>1, <2>2 DEF IsFold
<1>9. QED BY <1>8, Zenon

\* A sum of natural numbers is that of the rest and of any one of the recursion's
\* choice.
LEMMA SumIsFold ==
  ASSUME NEW f, IsFiniteSet(DOMAIN f), \A x \in DOMAIN f : f[x] \in Nat
  PROVE  \E it \in [SUBSET DOMAIN f -> Nat] :
            /\ SumFunction(f) = it[DOMAIN f]
            /\ it[{}] = 0
            /\ \A s \in SUBSET DOMAIN f : s # {} => \E x \in s : it[s] = f[x] + it[s \ {x}]
<1> DEFINE S == DOMAIN f
           any(s) == CHOOSE x \in s : TRUE
           pick == [s \in SUBSET S |-> any(s)]
           G == [p \in S \X Nat |-> f[p[1]] + p[2]]
           Rec(it) == it = [s \in SUBSET S |-> IF s = {} THEN 0 ELSE f[any(s)] + it[s \ {any(s)}]]
           it == CHOOSE it : Rec(it)
<1>1. SumFunction(f) = it[S]
  BY DEF SumFunction, SumFunctionOnSet, FoldFunctionOnSet, MapThenFoldSet
<1>2. \A s \in SUBSET S : s # {} => any(s) \in s
  OBVIOUS
<1>3. \A s \in SUBSET S : pick[s] = any(s)
  OBVIOUS
<1>4. G \in [S \X Nat -> Nat]
  OBVIOUS
<1>5. \A x \in S, n \in Nat : G[<<x, n>>] = f[x] + n
  OBVIOUS
<1> HIDE DEF any, pick, G
<1>6. PICK h \in [SUBSET S -> Nat] : IsFold(h, S, 0, G, pick)
  <2> HIDE DEF S
  <2>1. IsFiniteSet(S)
    BY DEF S
  <2>2. \A s \in SUBSET S : s # {} => pick[s] \in s
    BY <1>2, <1>3, Zenon
  <2>3. 0 \in Nat
    OBVIOUS
  <2>4. QED BY <1>4, <2>1, <2>2, <2>3, FoldExists, Zenon
<1>7. \A s \in SUBSET S : s # {} => any(s) \in S /\ s \ {any(s)} \in SUBSET S
  BY <1>2
<1>8. Rec(h)
  <2>1. \A s \in SUBSET S : s # {} => G[<<pick[s], h[s \ {pick[s]}]>>] = f[any(s)] + h[s \ {any(s)}]
    BY <1>3, <1>5, <1>7
  <2>2. QED BY <1>6, <2>1 DEF IsFold
<1>9. Rec(it)
  <2> HIDE DEF Rec
  <2>1. QED BY <1>8, Zenon
<1> HIDE DEF it
<1>10. \A s \in SUBSET S : it[s] = IF s = {} THEN 0 ELSE f[any(s)] + it[s \ {any(s)}]
  BY <1>9, Zenon
<1> DEFINE Q == {s \in SUBSET S : it[s] \in Nat}
<1>11. \A s \in SUBSET S : it[s] \in Nat
  <2> SUFFICES ASSUME NEW s \in SUBSET S PROVE it[s] \in Nat
    OBVIOUS
  <2> DEFINE N == {n \in Nat : \A t \in SUBSET S : Cardinality(t) = n => it[t] \in Nat}
  <2>1. \A t \in SUBSET S : IsFiniteSet(t) /\ Cardinality(t) \in Nat
    BY FS_Subset, FS_CardinalityType, Zenon
  <2>2. 0 \in N
    BY <1>10, <2>1, FS_EmptySet
  <2>3. ASSUME NEW n \in Nat, n \in N, NEW t \in SUBSET S, Cardinality(t) = n + 1
        PROVE  it[t] \in Nat
    <3>1. t # {}
      BY <2>3, NotEmpty, Zenon
    <3>2. Cardinality(t \ {any(t)}) = Cardinality(t) - 1
      <4>1. IsFiniteSet(t)
        BY <2>1
      <4>2. QED BY <1>2, <3>1, <4>1, FS_RemoveElement
    <3>3. it[t \ {any(t)}] \in Nat
      BY <2>3, <3>2
    <3>4. f[any(t)] \in Nat
      BY <1>7, <3>1
    <3>5. it[t] = f[any(t)] + it[t \ {any(t)}]
      BY <1>10, <3>1, Zenon
    <3>6. QED BY <3>3, <3>4, <3>5
  <2>4. \A n \in Nat : n \in N => n + 1 \in N
    BY <2>3
  <2>5. Nat \subseteq N
    <3> HIDE DEF N
    <3>1. QED BY <2>2, <2>4, EachNatural, Zenon
  <2>6. QED BY <2>1, <2>5
<1>12. it \in [SUBSET S -> Nat]
  <2>1. it = [s \in SUBSET S |-> it[s]]
    BY <1>9
  <2>2. QED BY <1>11, <2>1
<1>13. it[{}] = 0
  BY <1>10
<1>14. \A s \in SUBSET S : s # {} => \E x \in s : it[s] = f[x] + it[s \ {x}]
  BY <1>2, <1>10, Zenon
<1>15. QED BY <1>1, <1>12, <1>13, <1>14, Zenon

\* The numbers of elements of disjoint sets add up to that of their union.
CountsOf(f, A) ==
    /\ IsFiniteSet(DOMAIN f)
    /\ \A x \in DOMAIN f : IsFiniteSet(A[x]) /\ f[x] = Cardinality(A[x])
    /\ \A x, y \in DOMAIN f : x # y => A[x] \cap A[y] = {}

LEMMA SumIsUnion ==
  ASSUME NEW f, NEW A, CountsOf(f, A)
  PROVE  /\ IsFiniteSet(UNION {A[x] : x \in DOMAIN f})
         /\ SumFunction(f) = Cardinality(UNION {A[x] : x \in DOMAIN f})
<1> USE DEF CountsOf
<1> DEFINE S == DOMAIN f
           All(s) == UNION {A[x] : x \in s}
<1>1. \A x \in S : f[x] \in Nat
  BY FS_CardinalityType
<1>2. PICK it \in [SUBSET S -> Nat] :
         /\ SumFunction(f) = it[S]
         /\ it[{}] = 0
         /\ \A s \in SUBSET S : s # {} => \E x \in s : it[s] = f[x] + it[s \ {x}]
  BY <1>1, SumIsFold, Zenon
<1> DEFINE N == {n \in Nat : \A s \in SUBSET S : Cardinality(s) = n =>
                                IsFiniteSet(All(s)) /\ it[s] = Cardinality(All(s))}
<1>3. \A s \in SUBSET S : IsFiniteSet(s) /\ Cardinality(s) \in Nat
  BY FS_Subset, FS_CardinalityType, Zenon
<1>4. 0 \in N
  <2>1. ASSUME NEW s \in SUBSET S, Cardinality(s) = 0
        PROVE  IsFiniteSet(All(s)) /\ it[s] = Cardinality(All(s))
    <3>1. s = {}
      BY <1>3, <2>1, FS_EmptySet
    <3>2. All(s) = {}
      BY <3>1
    <3>3. QED BY <1>2, <3>1, <3>2, FS_EmptySet
  <2>2. QED BY <2>1
<1>5. ASSUME NEW n \in Nat, n \in N, NEW s \in SUBSET S, Cardinality(s) = n + 1
      PROVE  IsFiniteSet(All(s)) /\ it[s] = Cardinality(All(s))
  <2>1. s # {}
    BY <1>5, NotEmpty, Zenon
  <2>2. PICK x \in s : it[s] = f[x] + it[s \ {x}]
    BY <1>2, <2>1, Zenon
  <2>3. Cardinality(s \ {x}) = n
    <3>1. IsFiniteSet(s)
      BY <1>3
    <3>2. Cardinality(s \ {x}) = Cardinality(s) - 1
      BY <3>1, FS_RemoveElement
    <3>3. QED BY <1>5, <3>2
  <2>4. IsFiniteSet(All(s \ {x})) /\ it[s \ {x}] = Cardinality(All(s \ {x}))
    BY <1>5, <2>3
  <2>5. All(s) = A[x] \cup All(s \ {x})
    OBVIOUS
  <2>6. A[x] \cap All(s \ {x}) = {}
    OBVIOUS
  <2>7. IsFiniteSet(A[x]) /\ f[x] = Cardinality(A[x])
    OBVIOUS
  <2> DEFINE rest == All(s \ {x})
  <2> HIDE DEF All
  <2>8. IsFiniteSet(A[x] \cup rest)
        /\ Cardinality(A[x] \cup rest) = Cardinality(A[x]) + Cardinality(rest) - Cardinality(A[x] \cap rest)
    <3> HIDE DEF rest
    <3>1. QED BY <2>4, <2>7, FS_Union, Zenon DEF rest
  <2>9. Cardinality(A[x] \cap rest) = 0
    BY <2>6, FS_EmptySet
  <2>10. Cardinality(A[x]) \in Nat /\ Cardinality(rest) \in Nat
    BY <2>4, <2>7, FS_CardinalityType
  <2>11. it[s] = Cardinality(A[x] \cup rest)
    <3>1. it[s] = Cardinality(A[x]) + Cardinality(rest)
      BY <2>2, <2>4, <2>7, Zenon
    <3> HIDE DEF rest
    <3>2. QED BY <2>8, <2>9, <2>10, <3>1
  <2>12. QED BY <2>5, <2>8, <2>11, Zenon
<1>6. \A n \in Nat : n \in N => n + 1 \in N
  BY <1>5, SMTT(40)
<1>7. Nat \subseteq N
  <2> HIDE DEF N
  <2>1. QED BY <1>4, <1>6, EachNatural, Zenon
<1>8. QED BY <1>2, <1>3, <1>7

-----------------------------------------------------------------------------
(* Records: the rows of the minutes                                        *)

\* One bucket is filled at a time, that of the last minute with a frame; its row is
\* not written yet, nor is any of a later minute.
BucketInv ==
    /\ rows \in [1..MaxMinutes -> Nat] /\ frames \in [1..MaxMinutes -> Nat]
    /\ minute \in 1..MaxMinutes
    /\ bucket \in [minute : 0..MaxMinutes, frames : Nat]
    /\ bucket.minute <= minute
    /\ bucket.minute = 0 <=> bucket = NoBucket
    /\ ended => bucket = NoBucket
    /\ ~ended => \A m \in 1..MaxMinutes :
                    /\ m >= bucket.minute => rows[m] = 0
                    /\ m > bucket.minute => frames[m] = 0
    /\ \A m \in 1..MaxMinutes :
          rows[m] + (IF bucket.minute = m THEN bucket.frames ELSE 0) = frames[m]

\* What percentile() picks is within one of what it says, for a list of any length.
LEMMA RankIsNear ==
    ASSUME NEW n \in Nat \ {0}, NEW p \in 0..100
    PROVE  p * n <= 100 * Rank(p, n) /\ 100 * (Rank(p, n) - 1) <= p * n
<1> DEFINE y == p * n
           q == (y + 50) \div 100
           s == (y + 50) % 100
           up == 2 * s > 100 \/ (s = 50 /\ q % 2 = 1)
           k == q + (IF up THEN 1 ELSE 0)
<1>1. y \in Nat /\ y <= 100 * n
  <2>1. p * n <= 100 * n
    OBVIOUS
  <2>2. QED BY <2>1
<1>2. Rank(p, n) = IF k < 1 THEN 1 ELSE IF k > n THEN n ELSE k
  BY DEF Rank
<1> HIDE DEF y
<1>3. q \in Nat /\ s \in 0..99 /\ y + 50 = 100 * q + s
  BY <1>1
<1> HIDE DEF q, s
<1>4. k \in Nat /\ y <= 100 * k /\ 100 * (k - 1) <= y
  BY <1>1, <1>3
<1> HIDE DEF k
<1>5. QED BY <1>1, <1>2, <1>4 DEF y

\* The invariant of the buckets holds at first and is kept by every step.
LEMMA BucketInit == RecordsInit => BucketInv
BY RecordsAssumption DEF RecordsInit, BucketInv, NoBucket

\* A frame is counted in the bucket of its minute, the one before being written.
LEMMA BucketFrame ==
    ASSUME BucketInv, CountFrame
    PROVE  BucketInv'
<1>1. /\ minute \in 1..MaxMinutes /\ ~ended /\ bucket.frames \in Nat /\ bucket.minute \in 0..MaxMinutes
      /\ bucket = NoBucket => bucket.minute = 0 /\ bucket.frames = 0
      /\ bucket.minute <= minute /\ UNCHANGED <<minute, ended>>
      /\ frames' = [frames EXCEPT ![minute] = frames[minute] + 1]
      /\ frames \in [1..MaxMinutes -> Nat] /\ rows \in [1..MaxMinutes -> Nat]
  BY DEF BucketInv, CountFrame, NoBucket
<1>2. /\ bucket' \in [minute : 0..MaxMinutes, frames : Nat] /\ bucket'.minute = minute
      /\ bucket'.frames = IF bucket.minute = minute THEN bucket.frames + 1 ELSE 1
  <2>1. CASE bucket.minute = minute
    <3> DEFINE n == bucket.frames + 1
    <3>1. bucket' = [bucket EXCEPT !.frames = n] /\ n \in Nat
      BY <1>1, <2>1 DEF CountFrame
    <3> HIDE DEF n
    <3>2. bucket' \in [minute : 0..MaxMinutes, frames : Nat] /\ bucket'.minute = minute /\ bucket'.frames = n
      BY <2>1, <3>1 DEF BucketInv
    <3>3. QED BY <2>1, <3>2 DEF n
  <2>2. CASE bucket.minute # minute
    BY <1>1, <2>2 DEF CountFrame
  <2>3. QED BY <2>1, <2>2
<1>3. /\ rows' \in [1..MaxMinutes -> Nat]
      /\ \A m \in 1..MaxMinutes :
           rows'[m] = IF m = bucket.minute /\ bucket.minute # minute THEN bucket.frames ELSE rows[m]
  <2>1. CASE bucket.minute = minute
    BY <1>1, <2>1 DEF CountFrame
  <2>2. CASE bucket.minute # minute /\ bucket = NoBucket
    BY <1>1, <2>2 DEF CountFrame
  <2>3. CASE bucket.minute # minute /\ bucket # NoBucket
    <3>1. rows' = [rows EXCEPT ![bucket.minute] = bucket.frames]
      BY <2>3 DEF CountFrame, Flush
    <3>2. QED BY <1>1, <2>3, <3>1
  <2>4. QED BY <2>1, <2>2, <2>3
<1>4. bucket'.minute # 0 /\ bucket' # NoBucket
  BY <1>1, <1>2 DEF NoBucket
<1>5. frames' \in [1..MaxMinutes -> Nat]
      /\ \A m \in 1..MaxMinutes : frames'[m] = IF m = minute THEN frames[m] + 1 ELSE frames[m]
  BY <1>1
<1>6. ASSUME NEW m \in 1..MaxMinutes
      PROVE  /\ m >= bucket'.minute => rows'[m] = 0
             /\ m > bucket'.minute => frames'[m] = 0
             /\ rows'[m] + (IF bucket'.minute = m THEN bucket'.frames ELSE 0) = frames'[m]
  <2>1. /\ m >= bucket.minute => rows[m] = 0
        /\ m > bucket.minute => frames[m] = 0
        /\ rows[m] + (IF bucket.minute = m THEN bucket.frames ELSE 0) = frames[m]
        /\ rows[m] \in Nat /\ frames[m] \in Nat
    BY <1>1 DEF BucketInv
  <2>2. QED BY <1>1, <1>2, <1>3, <1>5, <2>1
<1>7. QED BY <1>1, <1>2, <1>3, <1>4, <1>5, <1>6 DEF BucketInv

\* Every step of the records keeps the invariant of the buckets.
LEMMA BucketKept == BucketInv /\ [RecordsNext]_records => BucketInv'
<1> SUFFICES ASSUME BucketInv, [RecordsNext]_records PROVE BucketInv'
  OBVIOUS
<1>1. ASSUME UNCHANGED <<minute, bucket, rows, frames, ended>> PROVE BucketInv'
  BY <1>1 DEF BucketInv
<1>2. CASE CountFrame
  BY <1>2, BucketFrame
<1>3. CASE NextMinute
  BY <1>3, RecordsAssumption, SMTT(40) DEF NextMinute, BucketInv
<1>4. CASE CloseRun
  <2>1. /\ bucket' = NoBucket /\ ended' = TRUE /\ UNCHANGED <<minute, frames>>
        /\ rows' = IF bucket = NoBucket THEN rows ELSE [rows EXCEPT ![bucket.minute] = bucket.frames]
    BY <1>4 DEF CloseRun, Flush
  <2>2. bucket' \in [minute : 0..MaxMinutes, frames : Nat] /\ bucket'.minute = 0
    BY <2>1, RecordsAssumption DEF NoBucket
  <2>3. CASE bucket = NoBucket
    BY <2>1, <2>2, <2>3 DEF BucketInv, NoBucket
  <2>4. CASE bucket # NoBucket
    <3>1. /\ bucket.minute \in 1..MaxMinutes /\ bucket.frames \in Nat /\ ~ended
          /\ rows' = [rows EXCEPT ![bucket.minute] = bucket.frames]
      BY <1>4, <2>1, <2>4 DEF BucketInv, CloseRun
    <3>2. /\ rows' \in [1..MaxMinutes -> Nat]
          /\ \A m \in 1..MaxMinutes : rows'[m] = IF m = bucket.minute THEN bucket.frames ELSE rows[m]
      BY <3>1 DEF BucketInv
    <3>3. \A m \in 1..MaxMinutes : rows'[m] = frames[m]
      BY <3>1, <3>2 DEF BucketInv
    <3>4. QED BY <2>1, <2>2, <3>2, <3>3 DEF BucketInv
  <2>5. QED BY <2>3, <2>4
<1>5. CASE \E result \in {"COMPLETED", "ABANDONED"} : CloseProduct(result)
  <2>1. UNCHANGED <<minute, bucket, rows, frames, ended>>
    BY <1>5, Zenon DEF CloseProduct
  <2>2. QED BY <1>1, <2>1
<1>6. CASE (\E v \in Verdicts : RecordChange(v)) \/ RecordStart \/ UNCHANGED records
  BY <1>1, <1>6 DEF RecordChange, RecordStart, records
<1>7. QED BY <1>2, <1>3, <1>4, <1>5, <1>6 DEF RecordsNext

\* Every frame is in the row of its minute or in the bucket, and in a row once the
\* run is closed, for runs of any length: no row of a minute is written before all
\* its frames are counted (store.py frame, flush_metrics, close_run).
THEOREM NoFrameLost == RecordsSpec => []FramesAreCounted
<1>1. BucketInv => FramesAreCounted
  <2>1. RanksAreNear
    <3>1. ASSUME NEW n \in 1..60, NEW p \in {10, 50, 90, 95}
          PROVE  p * n <= 100 * Rank(p, n) /\ 100 * (Rank(p, n) - 1) <= p * n
      <4>1. n \in Nat \ {0} /\ p \in 0..100
        OBVIOUS
      <4>2. QED BY <4>1, RankIsNear
    <3>2. QED BY <3>1, Zenon DEF RanksAreNear
  <2>2. QED BY <2>1 DEF BucketInv, FramesAreCounted
<1>2. QED BY <1>1, BucketInit, BucketKept, PTL DEF RecordsSpec

-----------------------------------------------------------------------------
(* What is told of a sequence of rows.                                     *)

Phases == {"CHECK_MATERIALS", "ASSEMBLING"}
Statuses == {v.status : v \in Verdicts} \cup {"HOLD"}
VerdictRow(v) == Event("STATUS_CHANGED", v.phase, v.status, v.issues)
StartRow == Event("ASSEMBLY_STARTED", "CHECK_MATERIALS", "HOLD", {})
OpenRows == {VerdictRow(v) : v \in {w \in Verdicts : w.phase \in Phases}} \cup {StartRow}

\* What is told after k rows is of this phase.
PhaseAfter(s, k) ==
    IF \E i \in 1..k : s[i].type = "ASSEMBLY_STARTED" THEN "ASSEMBLING" ELSE "CHECK_MATERIALS"

\* The rows of an open product: the assembly starts once.
Rowed(s) ==
    /\ s \in Seq(OpenRows)
    /\ \A i \in DOMAIN s : s[i].evaluated = PhaseAfter(s, i - 1)

TellingIn(s, p) == {i \in DOMAIN s : s[i].type = "STATUS_CHANGED" /\ s[i].evaluated = p}
JudgesIn(s, p) == {i \in TellingIn(s, p) : s[i].status # "HOLD"}
Starting(s, places, status) ==
    {i \in places : s[i].status = status /\ \A k \in Before(places, i) : s[k].status # status}
UpTo(places, k) == {i \in places : i <= k}
LastIs(s, places, status) ==
    \E i \in places : s[i].status = status /\ \A k \in places : k <= i

\* An open row, field by field.
LEMMA RowFields ==
  ASSUME NEW e \in OpenRows
  PROVE  \/ /\ e.type = "ASSEMBLY_STARTED" /\ e.evaluated = "CHECK_MATERIALS"
            /\ e.status = "HOLD" /\ e.issues = {} /\ e.phase = "ASSEMBLING"
         \/ /\ e.type = "STATUS_CHANGED" /\ e.phase = e.evaluated
            /\ \E v \in Verdicts : /\ v.phase \in Phases /\ e.evaluated = v.phase
                                   /\ e.status = v.status /\ e.issues = v.issues
<1>1. CASE e = StartRow
  BY <1>1 DEF StartRow, Event
<1>2. ASSUME NEW v \in Verdicts, v.phase \in Phases, e = VerdictRow(v)
      PROVE  /\ e.type = "STATUS_CHANGED" /\ e.phase = e.evaluated /\ e.evaluated = v.phase
             /\ e.status = v.status /\ e.issues = v.issues
  BY <1>2 DEF VerdictRow, Event
<1>3. QED BY <1>1, <1>2 DEF OpenRows

\* The phase goes on but where the assembly starts.
LEMMA PhaseMoves ==
  ASSUME NEW s, Rowed(s), NEW k \in DOMAIN s
  PROVE  /\ k \in Nat \ {0} /\ k <= Len(s) /\ Len(s) \in Nat /\ s[k] \in OpenRows
         /\ PhaseAfter(s, k) = s[k].phase
         /\ s[k].evaluated = PhaseAfter(s, k - 1)
         /\ PhaseAfter(s, 0) = "CHECK_MATERIALS"
<1>1. k \in Nat \ {0} /\ k <= Len(s) /\ Len(s) \in Nat /\ s[k] \in OpenRows
  BY SMT DEF Rowed
<1>2. s[k].evaluated = PhaseAfter(s, k - 1)
  BY SMT DEF Rowed
<1>3. PhaseAfter(s, k) = s[k].phase
  <2>1. \A i \in 1..k : i = k \/ i \in 1..(k - 1)
    BY <1>1, SMT
  <2>2. 1..(k - 1) \subseteq 1..k /\ k \in 1..k
    BY <1>1, SMT
  <2>3. CASE s[k].type = "ASSEMBLY_STARTED"
    <3>1. s[k].phase = "ASSEMBLING"
      BY <1>1, <2>3, RowFields, SMT
    <3>2. QED BY <2>2, <2>3, <3>1, Zenon DEF PhaseAfter
  <2>4. CASE s[k].type # "ASSEMBLY_STARTED"
    <3>1. s[k].phase = s[k].evaluated
      BY <1>1, <2>4, RowFields, Zenon
    <3>2. PhaseAfter(s, k) = PhaseAfter(s, k - 1)
      BY <2>1, <2>2, <2>4, Zenon DEF PhaseAfter
    <3>3. QED BY <1>2, <3>1, <3>2
  <2>5. QED BY <2>3, <2>4
<1>4. PhaseAfter(s, 0) = "CHECK_MATERIALS"
  BY SMT DEF PhaseAfter
<1>5. QED BY <1>1, <1>2, <1>3, <1>4

\* Assembly, once begun, goes on.
LEMMA PhaseStays ==
  ASSUME NEW s, NEW k \in Int, NEW l \in Int, k <= l, PhaseAfter(s, k) = "ASSEMBLING"
  PROVE  PhaseAfter(s, l) = "ASSEMBLING"
<1>1. 1..k \subseteq 1..l
  BY SMT
<1>2. QED BY <1>1, Zenon DEF PhaseAfter

\* One place more.
LEMMA UpToNext ==
  ASSUME NEW places \in SUBSET Int, NEW k \in Int, IsFiniteSet(places)
  PROVE  /\ k \in places => UpTo(places, k) = UpTo(places, k - 1) \cup {k}
         /\ k \notin places => UpTo(places, k) = UpTo(places, k - 1)
         /\ Cardinality(UpTo(places, k)) \in Nat /\ Cardinality(UpTo(places, k - 1)) \in Nat
         /\ Cardinality(UpTo(places, k)) = Cardinality(UpTo(places, k - 1)) + (IF k \in places THEN 1 ELSE 0)
<1>0. \A i \in places : i \in Int /\ (i <= k <=> i <= k - 1 \/ i = k)
  BY SMT
<1>1. ASSUME k \in places PROVE UpTo(places, k) = UpTo(places, k - 1) \cup {k}
  BY <1>0, <1>1, Zenon DEF UpTo
<1>2. ASSUME k \notin places PROVE UpTo(places, k) = UpTo(places, k - 1)
  BY <1>0, <1>2, Zenon DEF UpTo
<1>3. k \notin UpTo(places, k - 1)
  BY SMT DEF UpTo
<1>4. UpTo(places, k) \subseteq places /\ UpTo(places, k - 1) \subseteq places
  BY DEF UpTo
<1>5. IsFiniteSet(UpTo(places, k)) /\ IsFiniteSet(UpTo(places, k - 1))
  BY <1>4, FS_Subset
<1>6. Cardinality(UpTo(places, k)) \in Nat /\ Cardinality(UpTo(places, k - 1)) \in Nat
  BY <1>5, FS_CardinalityType
<1>7. Cardinality(UpTo(places, k - 1) \cup {k}) = Cardinality(UpTo(places, k - 1)) + 1
  BY <1>3, <1>5, FS_AddElement
<1>8. CASE k \in places
  BY <1>1, <1>6, <1>7, <1>8
<1>9. CASE k \notin places
  BY <1>2, <1>6, <1>9
<1>10. QED BY <1>8, <1>9

\* What close_product() counts after each row.
Counts == [hold : Nat, ng : Nat, material_ng : Nat,
           before : [any : Statuses \cup {"none"}, judged : Statuses \cup {"none"}]]
Uncounted == [hold |-> 0, ng |-> 0, material_ng |-> 0, before |-> Fresh]
Counted(f, s) ==
    /\ f[0] = Uncounted
    /\ \A k \in 1..Len(s) : f[k - 1] \in Counts /\ f[k] = CountEvent(f[k - 1], s[k])

LEMMA CountsTyped ==
  ASSUME NEW n \in Counts, NEW e \in OpenRows
  PROVE  CountEvent(n, e) \in Counts
<1>1. e.status \in Statuses
  BY RowFields, Zenon DEF Statuses
<1>2. CASE e.type = "ASSEMBLY_STARTED"
  BY <1>2 DEF CountEvent, Counts, Fresh
<1>3. CASE e.type # "ASSEMBLY_STARTED"
  BY <1>1, <1>3 DEF CountEvent, Counts
<1>4. QED BY <1>2, <1>3

LEMMA CountingIsFolding ==
  ASSUME NEW s \in Seq(OpenRows)
  PROVE  \E f : /\ Counted(f, s)
                /\ FoldLeft(LAMBDA count, e : CountEvent(count, e), Uncounted, s) = f[Len(s)]
<1> DEFINE S == DOMAIN s
           last(t) == CHOOSE x \in t : \A y \in t : x >= y
           pick == [t \in SUBSET S |-> last(t)]
           G == [p \in S \X Counts |-> CountEvent(p[2], s[p[1]])]
           Rec(it) == it = [t \in SUBSET S |-> IF t = {} THEN Uncounted
                              ELSE CountEvent(it[t \ {last(t)}], s[last(t)])]
           it == CHOOSE it : Rec(it)
<1>1. FoldLeft(LAMBDA count, e : CountEvent(count, e), Uncounted, s) = it[S]
  BY DEF FoldLeft, MapThenFoldSet, Max
<1>2. S = 1..Len(s) /\ Len(s) \in Nat /\ IsFiniteSet(S)
  BY FS_Interval
<1>3. \A t \in SUBSET S : t # {} => last(t) \in t
  <2>1. ASSUME NEW t \in SUBSET S, t # {} PROVE \E x \in t : \A y \in t : x >= y
    <3>1. t \in SUBSET (0..Len(s))
      BY <1>2
    <3> HIDE DEF S
    <3>2. QED BY <1>2, <2>1, <3>1, GreatestNatural
  <2> HIDE DEF S
  <2>2. QED BY <2>1, Zenon
<1>4. \A t \in SUBSET S : pick[t] = last(t)
  OBVIOUS
<1>5. Uncounted \in Counts
  BY DEF Uncounted, Counts, Fresh
<1>6. \A x \in S, n \in Counts : G[<<x, n>>] = CountEvent(n, s[x])
  OBVIOUS
<1>7. G \in [S \X Counts -> Counts]
  BY CountsTyped
<1>8. \A k \in 1..Len(s) : last(1..k) = k /\ (1..k) \ {k} = 1..(k - 1) /\ 1..k \in SUBSET S /\ k \in S /\ 1..k # {}
  <2> SUFFICES ASSUME NEW k \in 1..Len(s)
               PROVE  last(1..k) = k /\ (1..k) \ {k} = 1..(k - 1) /\ 1..k \in SUBSET S /\ k \in S /\ 1..k # {}
    BY Zenon
  <2>1. 1..k \in SUBSET S /\ k \in S /\ k \in 1..k /\ \A y \in 1..k : k >= y
    BY <1>2
  <2>2. last(1..k) = k
    <3>1. last(1..k) \in 1..k /\ \A y \in 1..k : last(1..k) >= y
      BY <2>1, Zenon
    <3> HIDE DEF last
    <3>2. QED BY <2>1, <3>1
  <2>3. (1..k) \ {k} = 1..(k - 1)
    BY <1>2
  <2>4. QED BY <2>1, <2>2, <2>3, Zenon
<1> HIDE DEF last, pick, G
<1>9. PICK h \in [SUBSET S -> Counts] : IsFold(h, S, Uncounted, G, pick)
  <2> HIDE DEF S
  <2>1. \A t \in SUBSET S : t # {} => pick[t] \in t
    BY <1>3, <1>4, Zenon
  <2>2. QED BY <1>2, <1>5, <1>7, <2>1, FoldExists, Zenon
<1>10. Rec(h)
  <2>1. \A t \in SUBSET S : t # {} =>
           G[<<pick[t], h[t \ {pick[t]}]>>] = CountEvent(h[t \ {last(t)}], s[last(t)])
    BY <1>3, <1>4, <1>6
  <2>2. QED BY <1>9, <2>1 DEF IsFold
<1>11. Rec(it)
  <2> HIDE DEF Rec
  <2>1. QED BY <1>10, Zenon
<1> HIDE DEF it
<1>12. \A t \in SUBSET S : it[t] = IF t = {} THEN Uncounted ELSE CountEvent(it[t \ {last(t)}], s[last(t)])
  BY <1>11, Zenon
<1> DEFINE f == [k \in 0..Len(s) |-> it[1..k]]
<1>13. f[0] = Uncounted
  <2>1. 1..0 = {}
    BY SMT
  <2>2. f[0] = it[{}]
    BY <1>2, <2>1
  <2>3. QED BY <1>12, <2>2
<1>14. \A k \in 1..Len(s) : f[k] = CountEvent(f[k - 1], s[k])
  <2> SUFFICES ASSUME NEW k \in 1..Len(s) PROVE f[k] = CountEvent(f[k - 1], s[k])
    OBVIOUS
  <2>1. it[1..k] = CountEvent(it[1..(k - 1)], s[k])
    BY <1>8, <1>12
  <2>2. f[k] = it[1..k] /\ f[k - 1] = it[1..(k - 1)]
    BY <1>2
  <2>3. QED BY <2>1, <2>2
<1>15. FoldLeft(LAMBDA count, e : CountEvent(count, e), Uncounted, s) = f[Len(s)]
  <2>1. Len(s) \in 0..Len(s)
    BY <1>2
  <2> HIDE DEF S
  <2>2. f[Len(s)] = it[1..Len(s)]
    BY <2>1, Zenon
  <2>3. it[S] = it[1..Len(s)]
    BY <1>2, Zenon
  <2>4. QED BY <1>1, <2>2, <2>3, Zenon
<1> HIDE DEF f
<1> DEFINE N == {k \in Nat : k <= Len(s) => f[k] \in Counts}
<1>16. 0 \in N
  BY <1>5, <1>13
<1>17. ASSUME NEW k \in Nat, k \in N PROVE k + 1 \in N
  <2>1. CASE k + 1 <= Len(s)
    <3>1. k + 1 \in 1..Len(s) /\ (k + 1) - 1 = k /\ k <= Len(s)
      BY <1>2, <2>1
    <3>2. f[k + 1] = CountEvent(f[k], s[k + 1])
      BY <1>14, <3>1
    <3>3. s[k + 1] \in OpenRows
      BY <3>1
    <3>4. f[k] \in Counts
      BY <1>17, <3>1
    <3>5. QED BY <3>2, <3>3, <3>4, CountsTyped
  <2>2. QED BY <2>1
<1>18. Nat \subseteq N
  <2> HIDE DEF N
  <2>1. QED BY <1>16, <1>17, EachNatural, Zenon
<1>19. \A k \in 1..Len(s) : f[k - 1] \in Counts
  BY <1>2, <1>18
<1>20. Counted(f, s)
  BY <1>13, <1>14, <1>19, Zenon DEF Counted
<1>21. QED BY <1>15, <1>20, Zenon

\* Nothing of the assembly is told before it starts.
LEMMA NothingAssembled ==
  ASSUME NEW s, Rowed(s), NEW k \in DOMAIN s, s[k].type = "ASSEMBLY_STARTED"
  PROVE  UpTo(TellingIn(s, "ASSEMBLING"), k) = {}
<1>1. PhaseAfter(s, k - 1) = "CHECK_MATERIALS" /\ k \in Nat
  <2>1. s[k].evaluated = PhaseAfter(s, k - 1) /\ s[k] \in OpenRows /\ k \in Nat
    BY PhaseMoves, Zenon
  <2>2. s[k].evaluated = "CHECK_MATERIALS"
    BY <2>1, RowFields
  <2>3. QED BY <2>1, <2>2
<1>2. ASSUME NEW i \in TellingIn(s, "ASSEMBLING"), i <= k PROVE FALSE
  <2>1. i \in DOMAIN s /\ s[i].evaluated = "ASSEMBLING"
    BY DEF TellingIn
  <2>2. i \in Nat /\ PhaseAfter(s, i - 1) = "ASSEMBLING"
    BY <2>1, PhaseMoves, Zenon
  <2>3. i - 1 \in Int /\ k - 1 \in Int /\ i - 1 <= k - 1
    BY <1>1, <1>2, <2>2
  <2>4. PhaseAfter(s, k - 1) = "ASSEMBLING"
    BY <2>2, <2>3, PhaseStays, Zenon
  <2>5. QED BY <1>1, <2>4
<1>3. QED BY <1>2, Zenon DEF UpTo

\* The verdict told before, in the phase.
LEMMA ToldBefore ==
  ASSUME NEW s, Rowed(s), NEW k \in DOMAIN s, s[k].type = "STATUS_CHANGED", NEW status
  PROVE  (\E x \in Before(TellingIn(s, s[k].evaluated), k) : s[x].status = status)
         <=> k # 1 /\ s[k - 1].type = "STATUS_CHANGED" /\ s[k - 1].status = status
<1> DEFINE P == TellingIn(s, s[k].evaluated)
<1>1. k \in Nat \ {0} /\ k <= Len(s) /\ Len(s) \in Nat /\ DOMAIN s = 1..Len(s)
  BY PhaseMoves DEF Rowed
<1>2. P \subseteq DOMAIN s
  BY DEF TellingIn
<1>3. CASE k = 1
  <2>1. Before(P, k) = {}
    BY <1>1, <1>2, <1>3 DEF Before
  <2>2. QED BY <1>3, <2>1, Zenon
<1>4. CASE k # 1
  <2>1. k - 1 \in DOMAIN s /\ k - 1 < k /\ \A j \in DOMAIN s : j < k => j <= k - 1
    BY <1>1, <1>4
  <2>2. s[k].evaluated = s[k - 1].phase
    BY <2>1, PhaseMoves, Zenon
  <2>3. s[k - 1] \in OpenRows
    BY <2>1, PhaseMoves, Zenon
  <2>4. CASE s[k - 1].type = "ASSEMBLY_STARTED"
    <3>1. s[k].evaluated = "ASSEMBLING"
      BY <2>2, <2>3, <2>4, RowFields
    <3>2. UpTo(P, k - 1) = {}
      BY <2>1, <2>4, <3>1, NothingAssembled
    <3>3. Before(P, k) = {}
      BY <1>2, <2>1, <3>2, Zenon DEF Before, UpTo
    <3>4. QED BY <2>4, <3>3
  <2>5. CASE s[k - 1].type = "STATUS_CHANGED"
    <3>1. s[k - 1].evaluated = s[k - 1].phase
      BY <2>3, <2>5, RowFields
    <3>2. k - 1 \in P
      BY <2>1, <2>2, <2>5, <3>1 DEF TellingIn
    <3>3. ASSUME NEW x \in Before(P, k) PROVE x = k - 1
      <4>1. x \in DOMAIN s /\ x < k /\ k - 1 <= x
        BY <1>2, <2>1, <3>2 DEF Before
      <4>2. QED BY <1>1, <4>1
    <3>4. k - 1 \in Before(P, k)
      BY <1>2, <2>1, <3>2, Zenon DEF Before
    <3>5. QED BY <1>4, <2>5, <3>3, <3>4, Zenon
  <2>6. QED BY <2>3, <2>4, <2>5, RowFields, Zenon
<1>5. QED BY <1>3, <1>4

\* The place before one is the last of those up to it.
LEMMA LastBefore ==
  ASSUME NEW s, NEW places \in SUBSET Int, NEW k \in Int, NEW status
  PROVE  (\E x \in Before(places, k) : s[x].status = status) <=> LastIs(s, UpTo(places, k - 1), status)
<1>1. \A i \in places : i < k <=> i <= k - 1
  BY SMT
<1>2. Before(places, k) = {x \in UpTo(places, k - 1) : \A j \in UpTo(places, k - 1) : j <= x}
  BY <1>1, Zenon DEF Before, UpTo
<1>3. QED BY <1>2, Zenon DEF LastIs

\* What has been counted after k rows.
Tallied(s, f, k) ==
    /\ f[k].hold = Cardinality(UpTo(Starting(s, TellingIn(s, "ASSEMBLING"), "HOLD"), k))
                   + Cardinality(UpTo(Starting(s, TellingIn(s, "CHECK_MATERIALS"), "HOLD"), k))
    /\ f[k].ng = Cardinality(UpTo(Starting(s, JudgesIn(s, "ASSEMBLING"), "NG"), k))
    /\ f[k].material_ng = Cardinality(UpTo(Starting(s, JudgesIn(s, "CHECK_MATERIALS"), "NG"), k))
    /\ f[k].before.any = "HOLD" <=> k # 0 /\ s[k].type = "STATUS_CHANGED" /\ s[k].status = "HOLD"
    /\ f[k].before.judged = "NG" <=> LastIs(s, UpTo(JudgesIn(s, PhaseAfter(s, k)), k), "NG")

\* What the rows of a phase begin is finite.
LEMMA StartingFinite ==
  ASSUME NEW s, Rowed(s), NEW p, NEW status
  PROVE  /\ IsFiniteSet(DOMAIN s) /\ DOMAIN s = 1..Len(s) /\ Len(s) \in Nat
         /\ TellingIn(s, p) \subseteq DOMAIN s /\ JudgesIn(s, p) \subseteq TellingIn(s, p)
         /\ Starting(s, TellingIn(s, p), status) \in SUBSET Int
         /\ IsFiniteSet(Starting(s, TellingIn(s, p), status))
         /\ Starting(s, JudgesIn(s, p), status) \in SUBSET Int
         /\ IsFiniteSet(Starting(s, JudgesIn(s, p), status))
         /\ JudgesIn(s, p) \in SUBSET Int /\ IsFiniteSet(JudgesIn(s, p))
         /\ IsFiniteSet(TellingIn(s, p))
<1>1. DOMAIN s = 1..Len(s) /\ Len(s) \in Nat
  BY DEF Rowed
<1>2. IsFiniteSet(DOMAIN s)
  BY <1>1, FS_Interval
<1>3. TellingIn(s, p) \subseteq DOMAIN s /\ JudgesIn(s, p) \subseteq TellingIn(s, p)
  BY DEF TellingIn, JudgesIn
<1>4. /\ Starting(s, TellingIn(s, p), status) \subseteq DOMAIN s
      /\ Starting(s, JudgesIn(s, p), status) \subseteq DOMAIN s
  BY <1>3, Zenon DEF Starting
<1>5. DOMAIN s \subseteq Int
  BY <1>1
<1>6. QED BY <1>1, <1>2, <1>3, <1>4, <1>5, FS_Subset, Zenon

\* A row is told in one phase.
LEMMA OtherPhase ==
  ASSUME NEW s, NEW p, NEW k, NEW status, k \in DOMAIN s => s[k].evaluated # p
  PROVE  /\ k \notin Starting(s, TellingIn(s, p), status)
         /\ k \notin Starting(s, JudgesIn(s, p), status)
  BY Zenon DEF Starting, TellingIn, JudgesIn

LEMMA NothingTallied ==
  ASSUME NEW s, Rowed(s), NEW f, Counted(f, s)
  PROVE  Tallied(s, f, 0)
<1>1. ASSUME NEW places \in SUBSET (DOMAIN s) PROVE UpTo(places, 0) = {}
  <2>1. \A i \in DOMAIN s : ~(i <= 0)
    BY StartingFinite
  <2>2. QED BY <2>1, Zenon DEF UpTo
<1>2. \A p, status : /\ UpTo(Starting(s, TellingIn(s, p), status), 0) = {}
                     /\ UpTo(Starting(s, JudgesIn(s, p), status), 0) = {}
                     /\ UpTo(JudgesIn(s, p), 0) = {}
  <2>1. \A p : TellingIn(s, p) \in SUBSET (DOMAIN s) /\ JudgesIn(s, p) \in SUBSET (DOMAIN s)
    BY Zenon DEF TellingIn, JudgesIn
  <2>2. \A p, status : /\ Starting(s, TellingIn(s, p), status) \in SUBSET (DOMAIN s)
                       /\ Starting(s, JudgesIn(s, p), status) \in SUBSET (DOMAIN s)
    BY <2>1, Zenon DEF Starting
  <2>3. QED BY <1>1, <2>1, <2>2, Zenon
<1>3. f[0] = Uncounted
  BY DEF Counted
<1>4. Cardinality({}) = 0
  BY FS_EmptySet
<1>5. ~LastIs(s, {}, "NG")
  BY DEF LastIs
<1>6. QED BY <1>2, <1>3, <1>4, <1>5 DEF Tallied, Uncounted, Fresh

\* The start of the assembly counts for nothing, and forgets.
LEMMA StartTallied ==
  ASSUME NEW s, Rowed(s), NEW f, Counted(f, s), NEW k \in DOMAIN s, Tallied(s, f, k - 1),
         s[k].type = "ASSEMBLY_STARTED"
  PROVE  Tallied(s, f, k)
<1>1. k \in Nat \ {0} /\ k \in 1..Len(s) /\ k \in Int
  BY PhaseMoves
<1>2. f[k] = [f[k - 1] EXCEPT !.before = Fresh] /\ f[k - 1] \in Counts
  BY <1>1 DEF Counted, CountEvent
<1>3. \A p, status : /\ k \notin Starting(s, TellingIn(s, p), status)
                     /\ k \notin Starting(s, JudgesIn(s, p), status)
  BY Zenon DEF Starting, TellingIn, JudgesIn
<1>4. \A p, status :
         /\ UpTo(Starting(s, TellingIn(s, p), status), k) = UpTo(Starting(s, TellingIn(s, p), status), k - 1)
         /\ UpTo(Starting(s, JudgesIn(s, p), status), k) = UpTo(Starting(s, JudgesIn(s, p), status), k - 1)
  BY <1>1, <1>3, StartingFinite, UpToNext, Zenon
<1>5. PhaseAfter(s, k) = "ASSEMBLING"
  BY PhaseMoves, RowFields
<1>6. UpTo(JudgesIn(s, "ASSEMBLING"), k) = {}
  BY NothingAssembled, Zenon DEF UpTo, JudgesIn
<1>7. ~LastIs(s, UpTo(JudgesIn(s, PhaseAfter(s, k)), k), "NG")
  BY <1>5, <1>6, Zenon DEF LastIs
<1>8. f[k].before = Fresh /\ f[k].hold = f[k - 1].hold /\ f[k].ng = f[k - 1].ng
      /\ f[k].material_ng = f[k - 1].material_ng
  BY <1>2 DEF Counts
<1>9. QED BY <1>4, <1>7, <1>8 DEF Tallied, Fresh

\* A verdict counts where its status begins.
LEMMA VerdictTallied ==
  ASSUME NEW s, Rowed(s), NEW f, Counted(f, s), NEW k \in DOMAIN s, Tallied(s, f, k - 1),
         s[k].type = "STATUS_CHANGED"
  PROVE  Tallied(s, f, k)
<1> DEFINE p == s[k].evaluated
           hold(q) == Starting(s, TellingIn(s, q), "HOLD")
           ng(q) == Starting(s, JudgesIn(s, q), "NG")
<1>1. k \in Nat \ {0} /\ k \in 1..Len(s) /\ k \in Int /\ s[k] \in OpenRows
  BY PhaseMoves
<1>2. p = PhaseAfter(s, k - 1) /\ p = PhaseAfter(s, k)
  BY PhaseMoves, RowFields
<1>3. p \in Phases
  BY <1>1, RowFields DEF Phases
<1>4. k \in TellingIn(s, p) /\ (k \in JudgesIn(s, p) <=> s[k].status # "HOLD")
  BY DEF TellingIn, JudgesIn
<1>5. k \in hold(p) <=> s[k].status = "HOLD" /\ f[k - 1].before.any # "HOLD"
  <2>1. k \in hold(p) <=> s[k].status = "HOLD" /\ ~\E x \in Before(TellingIn(s, p), k) : s[x].status = "HOLD"
    BY <1>4, Zenon DEF Starting
  <2>2. f[k - 1].before.any = "HOLD" <=> k # 1 /\ s[k - 1].type = "STATUS_CHANGED" /\ s[k - 1].status = "HOLD"
    BY <1>1 DEF Tallied
  <2>3. (\E x \in Before(TellingIn(s, s[k].evaluated), k) : s[x].status = "HOLD")
        <=> k # 1 /\ s[k - 1].type = "STATUS_CHANGED" /\ s[k - 1].status = "HOLD"
    BY ToldBefore
  <2>4. QED BY <2>1, <2>2, <2>3, Zenon
<1>6. k \in ng(p) <=> s[k].status = "NG" /\ f[k - 1].before.judged # "NG"
  <2>1. k \in ng(p) <=> s[k].status = "NG" /\ ~\E x \in Before(JudgesIn(s, p), k) : s[x].status = "NG"
    BY <1>4, Zenon DEF Starting
  <2>2. JudgesIn(s, p) \in SUBSET Int
    BY StartingFinite, Zenon
  <2>3. (\E x \in Before(JudgesIn(s, p), k) : s[x].status = "NG") <=> LastIs(s, UpTo(JudgesIn(s, p), k - 1), "NG")
    BY <1>1, <2>2, LastBefore, Zenon
  <2>4. f[k - 1].before.judged = "NG" <=> LastIs(s, UpTo(JudgesIn(s, p), k - 1), "NG")
    BY <1>2 DEF Tallied
  <2>5. QED BY <2>1, <2>3, <2>4, Zenon
<1>7. ASSUME NEW q \in Phases, q # p PROVE k \notin hold(q) /\ k \notin ng(q)
  BY <1>7, OtherPhase, Zenon
<1>8. ASSUME NEW q
      PROVE  /\ Cardinality(UpTo(hold(q), k)) = Cardinality(UpTo(hold(q), k - 1)) + (IF k \in hold(q) THEN 1 ELSE 0)
             /\ Cardinality(UpTo(ng(q), k)) = Cardinality(UpTo(ng(q), k - 1)) + (IF k \in ng(q) THEN 1 ELSE 0)
             /\ Cardinality(UpTo(hold(q), k - 1)) \in Nat /\ Cardinality(UpTo(ng(q), k - 1)) \in Nat
  <2>1. hold(q) \in SUBSET Int /\ IsFiniteSet(hold(q)) /\ ng(q) \in SUBSET Int /\ IsFiniteSet(ng(q))
    BY StartingFinite, Zenon
  <2> HIDE DEF hold, ng
  <2>2. QED BY <1>1, <2>1, UpToNext
<1>9. f[k - 1] \in Counts /\ f[k] = CountEvent(f[k - 1], s[k])
  BY <1>1 DEF Counted
<1>10. /\ f[k].hold = f[k - 1].hold + (IF k \in hold(p) THEN 1 ELSE 0)
       /\ f[k].ng = f[k - 1].ng + (IF k \in ng(p) /\ p = "ASSEMBLING" THEN 1 ELSE 0)
       /\ f[k].material_ng = f[k - 1].material_ng + (IF k \in ng(p) /\ p # "ASSEMBLING" THEN 1 ELSE 0)
       /\ f[k].before.any = s[k].status
       /\ f[k].before.judged = IF s[k].status # "HOLD" THEN s[k].status ELSE f[k - 1].before.judged
  <2> HIDE DEF hold, ng
  <2>1. QED BY <1>5, <1>6, <1>9 DEF CountEvent
<1>11. f[k].before.judged = "NG" <=> LastIs(s, UpTo(JudgesIn(s, p), k), "NG")
  <2>1. JudgesIn(s, p) \in SUBSET Int /\ IsFiniteSet(JudgesIn(s, p))
    BY StartingFinite, Zenon
  <2>2. CASE s[k].status = "HOLD"
    <3>1. UpTo(JudgesIn(s, p), k) = UpTo(JudgesIn(s, p), k - 1)
      BY <1>1, <1>4, <2>1, <2>2, UpToNext
    <3>2. QED BY <1>2, <1>10, <2>2, <3>1 DEF Tallied
  <2>3. CASE s[k].status # "HOLD"
    <3>1. k \in UpTo(JudgesIn(s, p), k) /\ \A i \in UpTo(JudgesIn(s, p), k) : i <= k /\ (k <= i => i = k)
      BY <1>1, <1>4, <2>1, <2>3, SMT DEF UpTo
    <3>2. LastIs(s, UpTo(JudgesIn(s, p), k), "NG") <=> s[k].status = "NG"
      BY <3>1, Zenon DEF LastIs
    <3>3. QED BY <1>10, <2>3, <3>2
  <2>4. QED BY <2>2, <2>3
<1>12. \A q \in Phases : q # p => k \notin hold(q) /\ k \notin ng(q)
  BY <1>7
<1> HIDE DEF hold, ng
<1>13. f[k - 1].hold = Cardinality(UpTo(hold("ASSEMBLING"), k - 1)) + Cardinality(UpTo(hold("CHECK_MATERIALS"), k - 1))
       /\ f[k - 1].ng = Cardinality(UpTo(ng("ASSEMBLING"), k - 1))
       /\ f[k - 1].material_ng = Cardinality(UpTo(ng("CHECK_MATERIALS"), k - 1))
  BY DEF Tallied, hold, ng
<1>14. f[k].hold = Cardinality(UpTo(hold("ASSEMBLING"), k)) + Cardinality(UpTo(hold("CHECK_MATERIALS"), k))
       /\ f[k].ng = Cardinality(UpTo(ng("ASSEMBLING"), k))
       /\ f[k].material_ng = Cardinality(UpTo(ng("CHECK_MATERIALS"), k))
  <2>1. CASE p = "ASSEMBLING"
    <3>1. k \notin hold("CHECK_MATERIALS") /\ k \notin ng("CHECK_MATERIALS")
      BY <1>12, <2>1 DEF Phases
    <3> HIDE DEF p
    <3>2. QED BY <1>8, <1>10, <1>13, <2>1, <3>1
  <2>2. CASE p = "CHECK_MATERIALS"
    <3>1. k \notin hold("ASSEMBLING") /\ k \notin ng("ASSEMBLING")
      BY <1>12, <2>2 DEF Phases
    <3> HIDE DEF p
    <3>2. QED BY <1>8, <1>10, <1>13, <2>2, <3>1
  <2>3. QED BY <1>3, <2>1, <2>2 DEF Phases
<1>15. QED BY <1>1, <1>2, <1>10, <1>11, <1>14, Zenon DEF Tallied, hold, ng

LEMMA AllTallied ==
  ASSUME NEW s, Rowed(s), NEW f, Counted(f, s)
  PROVE  Tallied(s, f, Len(s))
<1> DEFINE N == {k \in Nat : k <= Len(s) => Tallied(s, f, k)}
<1>1. Len(s) \in Nat /\ DOMAIN s = 1..Len(s)
  BY StartingFinite, Zenon
<1>2. 0 \in N
  BY NothingTallied
<1>3. ASSUME NEW k \in Nat, k \in N PROVE k + 1 \in N
  <2>1. CASE k + 1 <= Len(s)
    <3>1. k + 1 \in DOMAIN s /\ (k + 1) - 1 = k /\ Tallied(s, f, k)
      BY <1>1, <1>3, <2>1
    <3>2. s[k + 1].type = "ASSEMBLY_STARTED" \/ s[k + 1].type = "STATUS_CHANGED"
      BY <3>1, PhaseMoves, RowFields, Zenon
    <3>3. Tallied(s, f, k + 1)
      BY <3>1, <3>2, StartTallied, VerdictTallied
    <3>4. QED BY <3>3
  <2>2. QED BY <2>1
<1>4. Nat \subseteq N
  <2> HIDE DEF N
  <2>1. QED BY <1>2, <1>3, EachNatural, Zenon
<1>5. QED BY <1>1, <1>4

-----------------------------------------------------------------------------
(* What is counted is what the rows tell.                                  *)

\* A function on a finite set has finitely many values.
LEMMA FiniteValues ==
  ASSUME NEW f, IsFiniteSet(DOMAIN f)
  PROVE  IsFiniteSet({f[x] : x \in DOMAIN f})
<1> DEFINE T == {f[x] : x \in DOMAIN f}
           g == [x \in DOMAIN f |-> f[x]]
<1>1. g \in Surjection(DOMAIN f, T)
  BY DEF Surjection
<1> HIDE DEF g, T
<1>2. IsFiniteSet(T)
  BY <1>1, FS_Surjection
<1>3. QED BY <1>2 DEF T

\* A set of places that has a status has a place where it begins.
LEMMA SomeStarts ==
  ASSUME NEW s, NEW places \in SUBSET Nat, NEW status
  PROVE  Starting(s, places, status) # {} <=> \E i \in places : s[i].status = status
<1>1. ASSUME \E i \in places : s[i].status = status
      PROVE  Starting(s, places, status) # {}
  <2> DEFINE T == {i \in places : s[i].status = status}
  <2>1. T \in SUBSET Nat /\ T # {}
    BY <1>1
  <2>2. PICK i \in T : \A k \in T : i <= k
    <3> HIDE DEF T
    <3>1. QED BY <2>1, LeastNatural
  <2>3. ASSUME NEW k \in Before(places, i), s[k].status = status PROVE FALSE
    <3>1. k \in places /\ k < i
      BY <2>3, Zenon DEF Before
    <3>2. k \in T
      BY <2>3, <3>1
    <3>3. QED BY <2>2, <3>1, <3>2
  <2>4. QED BY <2>2, <2>3, Zenon DEF Starting
<1>2. QED BY <1>1, Zenon DEF Starting

\* The judgements that end an NG.
Ending(s, places) ==
    {j \in places : s[j].status # "NG" /\ \E x \in Before(places, j) : s[x].status = "NG"}

LEMMA EndingsNext ==
  ASSUME NEW s, NEW places \in SUBSET Nat, IsFiniteSet(places), NEW k \in Nat \ {0},
         Cardinality(UpTo(Ending(s, places), k - 1))
         = Cardinality(UpTo(Starting(s, places, "NG"), k - 1))
           - (IF LastIs(s, UpTo(places, k - 1), "NG") THEN 1 ELSE 0)
  PROVE  Cardinality(UpTo(Ending(s, places), k))
         = Cardinality(UpTo(Starting(s, places, "NG"), k))
           - (IF LastIs(s, UpTo(places, k), "NG") THEN 1 ELSE 0)
<1> DEFINE E == Ending(s, places)
           S == Starting(s, places, "NG")
           last == LastIs(s, UpTo(places, k - 1), "NG")
<1>1. E \subseteq places /\ S \subseteq places
  BY Zenon DEF Ending, Starting
<1>2. E \in SUBSET Int /\ S \in SUBSET Int /\ IsFiniteSet(E) /\ IsFiniteSet(S) /\ k \in Int
      /\ places \in SUBSET Int
  <2>1. Nat \subseteq Int /\ k \in Int
    OBVIOUS
  <2>2. IsFiniteSet(E) /\ IsFiniteSet(S)
    BY <1>1, FS_Subset, Zenon
  <2>3. QED BY <1>1, <2>1, <2>2, Zenon
<1>3. (\E x \in Before(places, k) : s[x].status = "NG") <=> last
  BY <1>2, LastBefore, Zenon
<1>4. k \in E <=> k \in places /\ s[k].status # "NG" /\ last
  BY <1>3, Zenon DEF Ending
<1>5. k \in S <=> k \in places /\ s[k].status = "NG" /\ ~last
  BY <1>3, Zenon DEF Starting
<1> HIDE DEF E, S
<1>6. /\ Cardinality(UpTo(E, k)) = Cardinality(UpTo(E, k - 1)) + (IF k \in E THEN 1 ELSE 0)
      /\ Cardinality(UpTo(S, k)) = Cardinality(UpTo(S, k - 1)) + (IF k \in S THEN 1 ELSE 0)
      /\ Cardinality(UpTo(S, k - 1)) \in Nat /\ Cardinality(UpTo(E, k - 1)) \in Nat
  BY <1>2, UpToNext
<1>7. Cardinality(UpTo(E, k - 1)) = Cardinality(UpTo(S, k - 1)) - (IF last THEN 1 ELSE 0)
  BY DEF E, S
<1>8. LastIs(s, UpTo(places, k), "NG") <=> IF k \in places THEN s[k].status = "NG" ELSE last
  <2>1. CASE k \in places
    <3>1. k \in UpTo(places, k) /\ \A i \in UpTo(places, k) : i <= k /\ (k <= i => i = k)
      BY <2>1 DEF UpTo
    <3>2. QED BY <2>1, <3>1, Zenon DEF LastIs
  <2>2. CASE k \notin places
    <3>1. UpTo(places, k) = UpTo(places, k - 1)
      BY <1>2, <2>2, UpToNext
    <3>2. QED BY <2>2, <3>1
  <2>3. QED BY <2>1, <2>2
<1> HIDE DEF last
<1>9. Cardinality(UpTo(E, k)) = Cardinality(UpTo(S, k)) - (IF LastIs(s, UpTo(places, k), "NG") THEN 1 ELSE 0)
  BY <1>4, <1>5, <1>6, <1>7, <1>8
<1>10. QED BY <1>9 DEF E, S

\* Every NG that began has ended, but one that is the last.
LEMMA EveryNgEnds ==
  ASSUME NEW s, NEW n \in Nat, NEW places \in SUBSET (1..n), IsFiniteSet(places)
  PROVE  Cardinality(Ending(s, places))
         = Cardinality(Starting(s, places, "NG")) - (IF LastIs(s, places, "NG") THEN 1 ELSE 0)
<1> DEFINE N == {k \in Nat : Cardinality(UpTo(Ending(s, places), k))
                             = Cardinality(UpTo(Starting(s, places, "NG"), k))
                               - (IF LastIs(s, UpTo(places, k), "NG") THEN 1 ELSE 0)}
<1>1. places \in SUBSET Nat /\ Ending(s, places) \subseteq places /\ Starting(s, places, "NG") \subseteq places
  BY DEF Ending, Starting
<1>2. 0 \in N
  <2>1. \A i \in places : ~(i <= 0)
    OBVIOUS
  <2>2. UpTo(Ending(s, places), 0) = {} /\ UpTo(Starting(s, places, "NG"), 0) = {} /\ UpTo(places, 0) = {}
    BY <1>1, <2>1, Zenon DEF UpTo
  <2>3. ~LastIs(s, UpTo(places, 0), "NG")
    BY <2>2, Zenon DEF LastIs
  <2>4. QED BY <2>2, <2>3, FS_EmptySet
<1>3. ASSUME NEW k \in Nat, k \in N PROVE k + 1 \in N
  <2>1. k + 1 \in Nat \ {0} /\ (k + 1) - 1 = k
    OBVIOUS
  <2>2. QED BY <1>1, <1>3, <2>1, EndingsNext
<1>4. Nat \subseteq N
  <2> HIDE DEF N
  <2>1. QED BY <1>2, <1>3, EachNatural, Zenon
<1>5. UpTo(Ending(s, places), n) = Ending(s, places) /\ UpTo(Starting(s, places, "NG"), n) = Starting(s, places, "NG")
      /\ UpTo(places, n) = places
  <2>1. \A i \in places : i <= n
    OBVIOUS
  <2>2. QED BY <1>1, <2>1, Zenon DEF UpTo
<1>6. QED BY <1>4, <1>5

RecoveriesIn(s, places) ==
    {p \in places \X places : /\ s[p[1]].status = "NG" /\ p[1] < p[2]
                              /\ \A k \in places : ~(p[1] < k /\ k < p[2])}

\* A recovery to another status is the judgement that ends the NG.
LEMMA RecoveriesAreEndings ==
  ASSUME NEW s, NEW places \in SUBSET Nat, IsFiniteSet(places)
  PROVE  Cardinality({p \in RecoveriesIn(s, places) : s[p[2]].status # "NG"})
         = Cardinality(Ending(s, places))
<1> DEFINE R == {p \in RecoveriesIn(s, places) : s[p[2]].status # "NG"}
           E == Ending(s, places)
           f == [p \in R |-> p[2]]
<1>1. \A p \in R : /\ p[1] \in places /\ p[2] \in places /\ p = <<p[1], p[2]>> /\ s[p[2]].status # "NG"
                  /\ s[p[1]].status = "NG" /\ p[1] < p[2] /\ \A k \in places : ~(p[1] < k /\ k < p[2])
  BY DEF RecoveriesIn
<1>2. \A x, j \in places : s[x].status = "NG" /\ s[j].status # "NG" /\ x < j
                           /\ (\A k \in places : ~(x < k /\ k < j)) => <<x, j>> \in R
  BY DEF RecoveriesIn
<1>3. \A x, j \in places : x \in Before(places, j) <=> x < j /\ \A k \in places : ~(x < k /\ k < j)
  <2>1. \A x, j, k \in places : (k < j => k <= x) <=> ~(x < k /\ k < j)
    OBVIOUS
  <2>2. QED BY <2>1, Zenon DEF Before
<1> HIDE DEF R
<1>4. \A p \in R : p[2] \in E
  <2> SUFFICES ASSUME NEW p \in R PROVE p[2] \in E
    BY Zenon
  <2>1. p[1] \in places /\ p[2] \in places /\ s[p[2]].status # "NG" /\ s[p[1]].status = "NG"
    BY <1>1, Zenon
  <2>2. p[1] \in Before(places, p[2])
    BY <1>1, <1>3, <2>1, Zenon
  <2>3. QED BY <2>1, <2>2, Zenon DEF Ending
<1>5. \A p, q \in R : p[2] = q[2] => p = q
  <2> SUFFICES ASSUME NEW p \in R, NEW q \in R, p[2] = q[2] PROVE p = q
    BY Zenon
  <2>1. p[1] = q[1]
    <3>1. p[1] \in Nat /\ q[1] \in Nat /\ p[1] < p[2] /\ q[1] < p[2]
          /\ ~(p[1] < q[1] /\ q[1] < p[2]) /\ ~(q[1] < p[1] /\ p[1] < p[2])
      BY <1>1
    <3>2. QED BY <3>1
  <2>2. QED BY <1>1, <2>1, Zenon
<1>6. \A j \in E : \E p \in R : p[2] = j
  <2> SUFFICES ASSUME NEW j \in E PROVE \E p \in R : p[2] = j
    BY Zenon
  <2>1. PICK x \in Before(places, j) : s[x].status = "NG"
    BY Zenon DEF Ending
  <2>2. x \in places /\ j \in places /\ s[j].status # "NG"
    BY <2>1, Zenon DEF Before, Ending
  <2>3. <<x, j>> \in R
    BY <1>2, <1>3, <2>1, <2>2, Zenon
  <2>4. QED BY <2>3
<1>7. f \in Injection(R, E) /\ f \in Surjection(R, E)
  <2> HIDE DEF E
  <2>1. f \in [R -> E] /\ \A p \in R : f[p] = p[2]
    BY <1>4
  <2> HIDE DEF f
  <2>2. \A p, q \in R : f[p] = f[q] => p = q
    BY <1>5, <2>1
  <2>3. \A j \in E : \E p \in R : f[p] = j
    BY <1>6, <2>1
  <2>4. QED BY <2>1, <2>2, <2>3 DEF Injection, Surjection, IsInjective
<1>8. IsFiniteSet(E)
  <2>1. E \subseteq places
    BY Zenon DEF Ending
  <2>2. QED BY <2>1, FS_Subset
<1> HIDE DEF E, f
<1>9. Cardinality(R) = Cardinality(E)
  BY <1>7, <1>8, FS_Injection
<1>10. QED BY <1>9 DEF R, E

\* Every NG among the places has one recovery, but one that is the last place.
LEMMA EveryNgIsFollowed ==
  ASSUME NEW s, NEW places \in SUBSET Nat, IsFiniteSet(places)
  PROVE  Cardinality(RecoveriesIn(s, places))
         = Cardinality({i \in places : s[i].status = "NG"}) - (IF LastIs(s, places, "NG") THEN 1 ELSE 0)
<1> DEFINE R == RecoveriesIn(s, places)
           NGs == {i \in places : s[i].status = "NG"}
           Left == {i \in NGs : \E k \in places : i < k}
           f == [p \in R |-> p[1]]
<1>1. \A p \in R : /\ p[1] \in places /\ p[2] \in places /\ p = <<p[1], p[2]>>
                  /\ s[p[1]].status = "NG" /\ p[1] < p[2] /\ \A k \in places : ~(p[1] < k /\ k < p[2])
  BY DEF RecoveriesIn
<1>2. \A x, j \in places : s[x].status = "NG" /\ x < j
                           /\ (\A k \in places : ~(x < k /\ k < j)) => <<x, j>> \in R
  BY DEF RecoveriesIn
<1>3. IsFiniteSet(NGs) /\ IsFiniteSet(Left) /\ Cardinality(NGs) \in Nat
  <2>1. NGs \subseteq places /\ Left \subseteq places
    OBVIOUS
  <2>2. QED BY <2>1, FS_Subset, FS_CardinalityType
<1> HIDE DEF R
<1>4. \A p \in R : p[1] \in Left
  BY <1>1
<1>5. \A p, q \in R : p[1] = q[1] => p = q
  <2> SUFFICES ASSUME NEW p \in R, NEW q \in R, p[1] = q[1] PROVE p = q
    BY Zenon
  <2>1. p[2] = q[2]
    <3>1. /\ p[2] \in Nat /\ q[2] \in Nat /\ p[1] < p[2] /\ p[1] < q[2]
          /\ ~(p[1] < q[2] /\ q[2] < p[2]) /\ ~(p[1] < p[2] /\ p[2] < q[2])
      BY <1>1
    <3>2. QED BY <3>1
  <2>2. QED BY <1>1, <2>1, Zenon
<1>6. \A i \in Left : \E p \in R : p[1] = i
  <2> SUFFICES ASSUME NEW i \in Left PROVE \E p \in R : p[1] = i
    BY Zenon
  <2> DEFINE Later == {k \in places : i < k}
  <2>1. Later \in SUBSET Nat /\ Later # {}
    OBVIOUS
  <2>2. PICK j \in Later : \A k \in Later : j <= k
    <3> HIDE DEF Later
    <3>1. QED BY <2>1, LeastNatural
  <2>3. i \in places /\ j \in places /\ s[i].status = "NG" /\ i < j /\ i \in Nat /\ j \in Nat
    OBVIOUS
  <2>4. \A k \in places : ~(i < k /\ k < j)
    BY <2>2, <2>3
  <2>5. <<i, j>> \in R
    BY <1>2, <2>3, <2>4
  <2>6. QED BY <2>5
<1>7. f \in Injection(R, Left) /\ f \in Surjection(R, Left)
  <2> HIDE DEF Left
  <2>1. f \in [R -> Left] /\ \A p \in R : f[p] = p[1]
    BY <1>4
  <2> HIDE DEF f
  <2>2. \A p, q \in R : f[p] = f[q] => p = q
    BY <1>5, <2>1
  <2>3. \A i \in Left : \E p \in R : f[p] = i
    BY <1>6, <2>1
  <2>4. QED BY <2>1, <2>2, <2>3 DEF Injection, Surjection, IsInjective
<1>8. Cardinality(R) = Cardinality(Left)
  <2> HIDE DEF Left, f
  <2>1. QED BY <1>3, <1>7, FS_Injection
<1>9. CASE LastIs(s, places, "NG")
  <2>1. PICK m \in places : s[m].status = "NG" /\ \A k \in places : k <= m
    BY <1>9, Zenon DEF LastIs
  <2>2. Left = NGs \ {m} /\ m \in NGs
    <3>1. ASSUME NEW i \in places PROVE (\E k \in places : i < k) <=> i # m
      <4>1. i <= m /\ i \in Nat /\ m \in Nat
        BY <2>1
      <4>2. ASSUME NEW k \in places, i < k PROVE i # m
        <5>1. k <= m /\ k \in Nat
          BY <2>1
        <5>2. QED BY <4>1, <4>2, <5>1
      <4>3. CASE i # m
        <5>1. i < m
          BY <4>1, <4>3
        <5>2. QED BY <4>3, <5>1
      <4>4. QED BY <4>2, <4>3
    <3>2. QED BY <2>1, <3>1
  <2> HIDE DEF Left, NGs
  <2>3. QED BY <1>3, <1>8, <1>9, <2>2, FS_RemoveElement DEF R, NGs
<1>10. CASE ~LastIs(s, places, "NG")
  <2>1. \A i \in NGs : ~\A k \in places : k <= i
    BY <1>10, Zenon DEF LastIs
  <2>2. \A i, k \in places : ~(k <= i) => i < k
    OBVIOUS
  <2>3. Left = NGs
    BY <2>1, <2>2
  <2> HIDE DEF Left
  <2>4. QED BY <1>3, <1>8, <1>10, <2>3 DEF R
<1>11. QED BY <1>9, <1>10

\* The counts of close_product(), told of the rows.
LEMMA Summed ==
  ASSUME NEW s, Rowed(s)
  PROVE  LET n == FoldLeft(LAMBDA count, e : CountEvent(count, e), Uncounted, s)
         IN  /\ n.ng = Cardinality(Starting(s, JudgesIn(s, "ASSEMBLING"), "NG"))
             /\ n.material_ng = Cardinality(Starting(s, JudgesIn(s, "CHECK_MATERIALS"), "NG"))
             /\ n.hold = Cardinality(Starting(s, TellingIn(s, "ASSEMBLING"), "HOLD"))
                         + Cardinality(Starting(s, TellingIn(s, "CHECK_MATERIALS"), "HOLD"))
<1>1. s \in Seq(OpenRows)
  BY DEF Rowed
<1>2. PICK f : /\ Counted(f, s)
               /\ FoldLeft(LAMBDA count, e : CountEvent(count, e), Uncounted, s) = f[Len(s)]
  BY <1>1, CountingIsFolding
<1>3. Tallied(s, f, Len(s))
  BY <1>2, AllTallied, Zenon
<1>4. \A p, status :
         /\ UpTo(Starting(s, TellingIn(s, p), status), Len(s)) = Starting(s, TellingIn(s, p), status)
         /\ UpTo(Starting(s, JudgesIn(s, p), status), Len(s)) = Starting(s, JudgesIn(s, p), status)
  <2>1. \A i \in DOMAIN s : i <= Len(s)
    BY <1>1
  <2>2. \A p, status : /\ Starting(s, TellingIn(s, p), status) \subseteq DOMAIN s
                       /\ Starting(s, JudgesIn(s, p), status) \subseteq DOMAIN s
    BY Zenon DEF TellingIn, JudgesIn, Starting
  <2>3. QED BY <2>1, <2>2, Zenon DEF UpTo
<1>5. QED BY <1>2, <1>3, <1>4 DEF Tallied

\* Rows of a verdict, and others without issues.
Told(s) ==
    /\ DOMAIN s = 1..Len(s) /\ Len(s) \in Nat
    /\ \A i \in DOMAIN s :
          \/ s[i].type # "STATUS_CHANGED" /\ s[i].issues = {}
          \/ /\ s[i].type = "STATUS_CHANGED"
             /\ \E v \in Verdicts : /\ v.phase \in Phases /\ s[i].evaluated = v.phase
                                    /\ s[i].status = v.status /\ s[i].issues = v.issues

SumsUp(s, n) ==
    /\ n.ng = Cardinality(Starting(s, JudgesIn(s, "ASSEMBLING"), "NG"))
    /\ n.material_ng = Cardinality(Starting(s, JudgesIn(s, "CHECK_MATERIALS"), "NG"))
    /\ n.hold = Cardinality(Starting(s, TellingIn(s, "ASSEMBLING"), "HOLD"))
                + Cardinality(Starting(s, TellingIn(s, "CHECK_MATERIALS"), "HOLD"))

\* The inductive invariant of a product: its rows while it is open, and the
\* sums of them once it is closed.
SummaryInv ==
    /\ product.result = "OPEN" => Rowed(events) /\ phase = PhaseAfter(events, Len(events))
    /\ product.result # "OPEN" =>
          /\ Told(events) /\ SumsUp(events, product)
          /\ product.first_pass = IF /\ product.result = "COMPLETED"
                                     /\ product.ng = 0 /\ product.material_ng = 0
                                  THEN 1 ELSE 0

\* One row more.
LEMMA RowAppended ==
  ASSUME NEW S, NEW s \in Seq(S), NEW row, NEW t, t = Append(s, row)
  PROVE  /\ Len(s) \in Nat /\ Len(t) = Len(s) + 1 /\ Len(t) \in Nat
         /\ DOMAIN s = 1..Len(s) /\ DOMAIN t = 1..Len(t)
         /\ DOMAIN t = DOMAIN s \cup {Len(t)} /\ Len(t) \notin DOMAIN s
         /\ t[Len(t)] = row /\ \A i \in DOMAIN s : t[i] = s[i]
<1>1. /\ Len(s) \in Nat /\ Len(t) = Len(s) + 1
      /\ DOMAIN s = 1..Len(s) /\ DOMAIN t = 1..Len(t)
      /\ t[Len(t)] = row /\ \A i \in DOMAIN s : t[i] = s[i]
  OBVIOUS
<1>2. QED BY <1>1

\* The row that closes a product adds nothing to what it tells.
LEMMA ClosingTellsNothing ==
  ASSUME NEW s, Rowed(s), NEW row, row.type # "STATUS_CHANGED", row.issues = {},
         NEW t, t = Append(s, row), NEW n, SumsUp(s, n)
  PROVE  Told(t) /\ SumsUp(t, n)
<1>1. /\ DOMAIN t = 1..Len(t) /\ Len(t) \in Nat
      /\ DOMAIN t = DOMAIN s \cup {Len(t)} /\ Len(t) \notin DOMAIN s
      /\ t[Len(t)] = row /\ \A i \in DOMAIN s : t[i] = s[i]
  <2>1. s \in Seq(OpenRows)
    BY DEF Rowed
  <2>2. QED BY <2>1, RowAppended
<1>2. Told(t)
  <2>1. ASSUME NEW i \in DOMAIN s
        PROVE  \/ t[i].type # "STATUS_CHANGED" /\ t[i].issues = {}
               \/ /\ t[i].type = "STATUS_CHANGED"
                  /\ \E v \in Verdicts : /\ v.phase \in Phases /\ t[i].evaluated = v.phase
                                         /\ t[i].status = v.status /\ t[i].issues = v.issues
    <3>1. s[i] \in OpenRows /\ t[i] = s[i]
      BY <1>1, PhaseMoves, Zenon
    <3>2. QED BY <3>1, RowFields
  <2>2. QED BY <1>1, <2>1, Zenon DEF Told
<1>3. \A p : TellingIn(t, p) = TellingIn(s, p)
  BY <1>1, Zenon DEF TellingIn
<1>4. \A p : JudgesIn(t, p) = JudgesIn(s, p)
  <2>1. \A p : TellingIn(s, p) \subseteq DOMAIN s
    BY Zenon DEF TellingIn
  <2>2. QED BY <1>1, <1>3, <2>1, Zenon DEF JudgesIn
<1>5. ASSUME NEW places \in SUBSET (DOMAIN s), NEW status
      PROVE  Starting(t, places, status) = Starting(s, places, status)
  <2>1. \A i : Before(places, i) \subseteq DOMAIN s
    BY Zenon DEF Before
  <2>2. QED BY <1>1, <2>1, Zenon DEF Starting
<1>6. \A p, status : /\ Starting(t, TellingIn(t, p), status) = Starting(s, TellingIn(s, p), status)
                     /\ Starting(t, JudgesIn(t, p), status) = Starting(s, JudgesIn(s, p), status)
  <2>1. \A p : TellingIn(s, p) \in SUBSET (DOMAIN s) /\ JudgesIn(s, p) \in SUBSET (DOMAIN s)
    BY Zenon DEF TellingIn, JudgesIn
  <2>2. QED BY <1>3, <1>4, <1>5, <2>1, Zenon
<1>7. QED BY <1>2, <1>6, Zenon DEF SumsUp

\* A verdict of the phase is a row of an open product, as is the start.
LEMMA RowGoesOn ==
  ASSUME NEW s, Rowed(s), NEW row \in OpenRows, row.evaluated = PhaseAfter(s, Len(s)),
         NEW t, t = Append(s, row)
  PROVE  Rowed(t) /\ PhaseAfter(t, Len(t)) = row.phase
<1>1. /\ Len(s) \in Nat /\ Len(t) = Len(s) + 1 /\ Len(t) \in Nat
      /\ DOMAIN s = 1..Len(s) /\ DOMAIN t = 1..Len(t)
      /\ DOMAIN t = DOMAIN s \cup {Len(t)} /\ Len(t) \notin DOMAIN s
      /\ t[Len(t)] = row /\ \A i \in DOMAIN s : t[i] = s[i]
  <2>1. s \in Seq(OpenRows)
    BY DEF Rowed
  <2>2. QED BY <2>1, RowAppended
<1>2. t \in Seq(OpenRows)
  BY DEF Rowed
<1>3. ASSUME NEW k \in 0..Len(s) PROVE PhaseAfter(t, k) = PhaseAfter(s, k)
  <2>1. 1..k \subseteq DOMAIN s
    BY <1>1
  <2>2. QED BY <1>1, <2>1, Zenon DEF PhaseAfter
<1>4. \A i \in DOMAIN t : t[i].evaluated = PhaseAfter(t, i - 1)
  <2>1. ASSUME NEW i \in DOMAIN s PROVE t[i].evaluated = PhaseAfter(t, i - 1)
    <3>1. i - 1 \in 0..Len(s)
      BY <1>1
    <3>2. s[i].evaluated = PhaseAfter(s, i - 1)
      BY PhaseMoves, Zenon
    <3>3. QED BY <1>1, <1>3, <3>1, <3>2, Zenon
  <2>2. t[Len(t)].evaluated = PhaseAfter(t, Len(t) - 1)
    <3>1. Len(t) - 1 = Len(s) /\ Len(s) \in 0..Len(s)
      BY <1>1
    <3>2. QED BY <1>1, <1>3, <3>1
  <2>3. QED BY <1>1, <2>1, <2>2, Zenon
<1>5. Rowed(t)
  BY <1>2, <1>4, Zenon DEF Rowed
<1>6. Len(t) \in DOMAIN t
  BY <1>1, Zenon
<1>7. PhaseAfter(t, Len(t)) = t[Len(t)].phase
  BY <1>5, <1>6, PhaseMoves, Zenon
<1>8. QED BY <1>1, <1>5, <1>7

LEMMA SummaryInit == RecordsInit => SummaryInv
<1> SUFFICES ASSUME RecordsInit PROVE SummaryInv
  OBVIOUS
<1>1. events = <<>> /\ product.result = "OPEN" /\ phase = "CHECK_MATERIALS"
  BY DEF RecordsInit, OpenProduct
<1>2. Rowed(<<>>)
  BY DEF Rowed
<1>3. PhaseAfter(<<>>, Len(<<>>)) = "CHECK_MATERIALS"
  BY DEF PhaseAfter
<1>4. QED BY <1>1, <1>2, <1>3 DEF SummaryInv

LEMMA SummaryKept == SummaryInv /\ [RecordsNext]_records => SummaryInv'
<1> SUFFICES ASSUME SummaryInv, [RecordsNext]_records PROVE SummaryInv'
  OBVIOUS
<1>1. CASE UNCHANGED <<phase, events, product>>
  BY <1>1 DEF SummaryInv
<1>2. ASSUME product.result = "OPEN" PROVE Rowed(events) /\ phase = PhaseAfter(events, Len(events)) /\ phase \in Phases
  <2>1. Rowed(events) /\ phase = PhaseAfter(events, Len(events))
    BY <1>2 DEF SummaryInv
  <2>2. PhaseAfter(events, Len(events)) \in Phases
    BY DEF PhaseAfter, Phases
  <2>3. QED BY <2>1, <2>2
<1>3. ASSUME NEW v \in Verdicts, RecordChange(v) PROVE SummaryInv'
  <2>1. /\ product.result = "OPEN" /\ v.phase = phase /\ product' = product /\ phase' = phase
        /\ events' = Append(events, Event("STATUS_CHANGED", phase, v.status, v.issues))
    BY <1>3 DEF RecordChange
  <2> DEFINE row == Event("STATUS_CHANGED", phase, v.status, v.issues)
  <2>2. row \in OpenRows /\ row.evaluated = phase /\ row.phase = phase
    <3>1. row = VerdictRow(v) /\ v.phase \in Phases
      BY <1>2, <2>1 DEF VerdictRow
    <3>2. row \in OpenRows
      BY <3>1, Zenon DEF OpenRows
    <3>3. QED BY <3>2 DEF Event
  <2> HIDE DEF row
  <2>3. Rowed(events') /\ PhaseAfter(events', Len(events')) = phase
    BY <1>2, <2>1, <2>2, RowGoesOn DEF row
  <2>4. QED BY <2>1, <2>3 DEF SummaryInv
<1>4. CASE RecordStart
  <2>1. /\ product.result = "OPEN" /\ phase = "CHECK_MATERIALS" /\ product' = product /\ phase' = "ASSEMBLING"
        /\ events' = Append(events, StartRow)
    BY <1>4 DEF RecordStart, StartRow
  <2>2. StartRow \in OpenRows /\ StartRow.evaluated = "CHECK_MATERIALS" /\ StartRow.phase = "ASSEMBLING"
    BY DEF OpenRows, StartRow, Event
  <2>3. Rowed(events') /\ PhaseAfter(events', Len(events')) = "ASSEMBLING"
    BY <1>2, <2>1, <2>2, RowGoesOn
  <2>4. QED BY <2>1, <2>3 DEF SummaryInv
<1>5. ASSUME NEW result \in {"COMPLETED", "ABANDONED"}, CloseProduct(result) PROVE SummaryInv'
  <2> DEFINE n == FoldLeft(LAMBDA count, e : CountEvent(count, e), Uncounted, events)
             row == Event(Closing[result], Shown.phase, Shown.status, {})
  <2>1. /\ product.result = "OPEN"
        /\ product' = [result |-> result, ng |-> n.ng, material_ng |-> n.material_ng, hold |-> n.hold,
                       first_pass |-> IF result = "COMPLETED" /\ n.ng = 0 /\ n.material_ng = 0
                                      THEN 1 ELSE 0]
        /\ events' = Append(events, row)
    BY <1>5, Zenon DEF CloseProduct, Uncounted
  <2>2. SumsUp(events, n)
    BY <1>2, <2>1, Summed, Zenon DEF SumsUp
  <2>3. row.type # "STATUS_CHANGED" /\ row.issues = {}
    BY DEF Event, Closing
  <2> HIDE DEF n, row
  <2>4. SumsUp(events, product')
    BY <2>1, <2>2 DEF SumsUp
  <2>5. Told(events') /\ SumsUp(events', product')
    BY <1>2, <2>1, <2>3, <2>4, ClosingTellsNothing, Zenon
  <2>6. product'.result # "OPEN"
        /\ product'.first_pass = IF /\ product'.result = "COMPLETED"
                                    /\ product'.ng = 0 /\ product'.material_ng = 0
                                 THEN 1 ELSE 0
    BY <2>1
  <2>7. QED BY <2>5, <2>6 DEF SummaryInv
<1>6. CASE CountFrame
  BY <1>1, <1>6 DEF CountFrame
<1>7. CASE NextMinute
  BY <1>1, <1>7 DEF NextMinute
<1>8. CASE CloseRun
  BY <1>1, <1>8 DEF CloseRun
<1>9. CASE UNCHANGED records
  BY <1>1, <1>9 DEF records
<1>10. QED BY <1>3, <1>4, <1>5, <1>6, <1>7, <1>8, <1>9 DEF RecordsNext

\* Rows are places of natural numbers, finitely many, and so are those that begin.
LEMMA ToldFinite ==
  ASSUME NEW s, Told(s), NEW p, NEW status
  PROVE  /\ IsFiniteSet(DOMAIN s) /\ DOMAIN s \subseteq Nat
         /\ TellingIn(s, p) \in SUBSET (DOMAIN s) /\ JudgesIn(s, p) \in SUBSET TellingIn(s, p)
         /\ IsFiniteSet(JudgesIn(s, p))
         /\ IsFiniteSet(Starting(s, TellingIn(s, p), status))
         /\ IsFiniteSet(Starting(s, JudgesIn(s, p), status))
<1>1. DOMAIN s = 1..Len(s) /\ Len(s) \in Nat
  BY DEF Told
<1>2. IsFiniteSet(DOMAIN s) /\ DOMAIN s \subseteq Nat
  BY <1>1, FS_Interval
<1>3. TellingIn(s, p) \subseteq DOMAIN s /\ JudgesIn(s, p) \subseteq TellingIn(s, p)
  BY DEF TellingIn, JudgesIn
<1>4. /\ Starting(s, TellingIn(s, p), status) \subseteq DOMAIN s
      /\ Starting(s, JudgesIn(s, p), status) \subseteq DOMAIN s
  BY <1>3, Zenon DEF Starting
<1>5. JudgesIn(s, p) \subseteq DOMAIN s
  BY <1>3
<1>6. QED BY <1>2, <1>3, <1>4, <1>5, FS_Subset, Zenon

\* What was counted is more than nothing exactly if a row of the phase has the status.
LEMMA CountedIfShown ==
  ASSUME NEW s, Told(s), NEW p, NEW status
  PROVE  /\ Cardinality(Starting(s, JudgesIn(s, p), status)) \in Nat
         /\ Cardinality(Starting(s, JudgesIn(s, p), status)) > 0
            <=> \E i \in JudgesIn(s, p) : s[i].status = status
         /\ Cardinality(Starting(s, TellingIn(s, p), status)) \in Nat
         /\ Cardinality(Starting(s, TellingIn(s, p), status)) > 0
            <=> \E i \in TellingIn(s, p) : s[i].status = status
<1> DEFINE J == Starting(s, JudgesIn(s, p), status)
           T == Starting(s, TellingIn(s, p), status)
<1>1. IsFiniteSet(J) /\ IsFiniteSet(T)
  BY ToldFinite, Zenon
<1>2. JudgesIn(s, p) \in SUBSET Nat /\ TellingIn(s, p) \in SUBSET Nat
  <2>1. DOMAIN s \subseteq Nat /\ TellingIn(s, p) \in SUBSET (DOMAIN s) /\ JudgesIn(s, p) \in SUBSET TellingIn(s, p)
    BY ToldFinite, Zenon
  <2>2. QED BY <2>1
<1>3. /\ J # {} <=> \E i \in JudgesIn(s, p) : s[i].status = status
      /\ T # {} <=> \E i \in TellingIn(s, p) : s[i].status = status
  BY <1>2, SomeStarts, ZenonT(40)
<1> HIDE DEF J, T
<1>4. /\ Cardinality(J) \in Nat /\ (Cardinality(J) > 0 <=> J # {})
      /\ Cardinality(T) \in Nat /\ (Cardinality(T) > 0 <=> T # {})
  BY <1>1, FS_EmptySet, FS_CardinalityType
<1>5. QED BY <1>3, <1>4 DEF J, T

\* A row with an issue is a verdict's.
LEMMA IssuesAreTold ==
  ASSUME Told(events), NEW i \in DOMAIN events, NEW issue \in events[i].issues
  PROVE  /\ i \in TellingIn(events, events[i].evaluated)
         /\ events[i].evaluated \in Phases
         /\ \E v \in Verdicts : /\ events[i].evaluated = v.phase
                                /\ events[i].status = v.status /\ events[i].issues = v.issues
<1>1. /\ events[i].type = "STATUS_CHANGED"
      /\ \E v \in Verdicts : /\ v.phase \in Phases /\ events[i].evaluated = v.phase
                             /\ events[i].status = v.status /\ events[i].issues = v.issues
  BY Zenon DEF Told
<1>2. QED BY <1>1, Zenon DEF TellingIn

\* A verdict's row that is told has the issues of a verdict.
LEMMA VerdictsAreTold ==
  ASSUME Told(events), NEW p, NEW i \in TellingIn(events, p)
  PROVE  /\ i \in DOMAIN events /\ events[i].evaluated = p /\ p \in Phases
         /\ \E v \in Verdicts : /\ p = v.phase
                                /\ events[i].status = v.status /\ events[i].issues = v.issues
<1>1. i \in DOMAIN events /\ events[i].type = "STATUS_CHANGED" /\ events[i].evaluated = p
  BY DEF TellingIn
<1>2. QED BY <1>1, Zenon DEF Told

\* The issues of a status are finitely many.
LEMMA IssuesFinite ==
  ASSUME Told(events), NEW status
  PROVE  IsFiniteSet(IssuesOf(status))
<1> DEFINE I == {j \in DOMAIN events : events[j].status = status}
           of(i) == {[row |-> i, issue |-> issue] : issue \in events[i].issues}
           f == [i \in I |-> of(i)]
<1>1. IsFiniteSet(DOMAIN events)
  BY ToldFinite, Zenon
<1>2. IsFiniteSet(I)
  BY <1>1, FS_Subset
<1>3. ASSUME NEW i \in I PROVE IsFiniteSet(of(i))
  <2>1. IsFiniteSet(events[i].issues)
    BY VerdictsAssumption, FS_EmptySet, Zenon DEF Told
  <2> DEFINE g == [issue \in events[i].issues |-> [row |-> i, issue |-> issue]]
  <2>2. of(i) = {g[x] : x \in DOMAIN g} /\ DOMAIN g = events[i].issues
    OBVIOUS
  <2> HIDE DEF g, of
  <2>3. QED BY <2>1, <2>2, FiniteValues
<1>4. IsFiniteSet({f[i] : i \in DOMAIN f})
  BY <1>2, FiniteValues
<1>5. \A T \in {f[i] : i \in DOMAIN f} : IsFiniteSet(T)
  BY <1>3
<1>6. IsFiniteSet(UNION {f[i] : i \in DOMAIN f})
  BY <1>4, <1>5, FS_UNION
<1>7. {f[i] : i \in DOMAIN f} = {of(i) : i \in I}
  OBVIOUS
<1>8. QED BY <1>6, <1>7 DEF IssuesOf

LEMMA IssuesAre ==
  ASSUME NEW status, NEW x
  PROVE  x \in IssuesOf(status)
         <=> \E i \in DOMAIN events : /\ events[i].status = status
                                      /\ \E issue \in events[i].issues : x = [row |-> i, issue |-> issue]
<1> DEFINE I == {j \in DOMAIN events : events[j].status = status}
           of(i) == {[row |-> i, issue |-> issue] : issue \in events[i].issues}
<1>1. x \in UNION {of(i) : i \in I} <=> \E i \in I : x \in of(i)
  <2> HIDE DEF I, of
  <2>1. QED OBVIOUS
<1>2. IssuesOf(status) = UNION {of(i) : i \in I}
  BY DEF IssuesOf
<1>3. \A i : x \in of(i) <=> \E issue \in events[i].issues : x = [row |-> i, issue |-> issue]
  OBVIOUS
<1> HIDE DEF of
<1>4. QED BY <1>1, <1>2, <1>3

LEMMA SummaryIsTold == SummaryInv => SummaryTellsTheEvents
<1> SUFFICES ASSUME SummaryInv, product.result # "OPEN" PROVE SummaryTellsTheEvents
  BY DEF SummaryTellsTheEvents
<1>1. Told(events) /\ SumsUp(events, product)
  BY DEF SummaryInv
<1>2. product.first_pass = IF product.result = "COMPLETED" /\ product.ng = 0 /\ product.material_ng = 0
                           THEN 1 ELSE 0
  BY DEF SummaryInv
<1>3. /\ \A p : Telling(p) = TellingIn(events, p) /\ Judges(p) = JudgesIn(events, p)
      /\ \A places, status : /\ Stretches(places, status) = Cardinality(Starting(events, places, status))
                             /\ Stays(places, status) <=> LastIs(events, places, status)
  BY Zenon DEF Telling, Judges, TellingIn, JudgesIn, Stretches, Starting, Stays, LastIs
<1> DEFINE A == JudgesIn(events, "ASSEMBLING")
           M == JudgesIn(events, "CHECK_MATERIALS")
<1>4. /\ product.ng \in Nat /\ (product.ng > 0 <=> \E i \in A : events[i].status = "NG")
      /\ product.material_ng \in Nat /\ (product.material_ng > 0 <=> \E i \in M : events[i].status = "NG")
      /\ product.hold \in Nat
      /\ product.hold > 0 <=> \/ \E i \in TellingIn(events, "ASSEMBLING") : events[i].status = "HOLD"
                              \/ \E i \in TellingIn(events, "CHECK_MATERIALS") : events[i].status = "HOLD"
  <2>1. /\ product.ng \in Nat /\ (product.ng > 0 <=> \E i \in A : events[i].status = "NG")
        /\ product.material_ng \in Nat /\ (product.material_ng > 0 <=> \E i \in M : events[i].status = "NG")
    <3>1. /\ product.ng = Cardinality(Starting(events, A, "NG"))
          /\ product.material_ng = Cardinality(Starting(events, M, "NG"))
      BY <1>1, Zenon DEF SumsUp
    <3>2. \A p : /\ Cardinality(Starting(events, JudgesIn(events, p), "NG")) \in Nat
                 /\ Cardinality(Starting(events, JudgesIn(events, p), "NG")) > 0
                    <=> \E i \in JudgesIn(events, p) : events[i].status = "NG"
      BY <1>1, CountedIfShown
    <3>3. QED BY <3>1, <3>2
  <2> DEFINE a == Cardinality(Starting(events, TellingIn(events, "ASSEMBLING"), "HOLD"))
             m == Cardinality(Starting(events, TellingIn(events, "CHECK_MATERIALS"), "HOLD"))
  <2>2. product.hold = a + m
    BY <1>1, Zenon DEF SumsUp
  <2>3. /\ a \in Nat /\ (a > 0 <=> \E i \in TellingIn(events, "ASSEMBLING") : events[i].status = "HOLD")
        /\ m \in Nat /\ (m > 0 <=> \E i \in TellingIn(events, "CHECK_MATERIALS") : events[i].status = "HOLD")
    BY <1>1, CountedIfShown
  <2> HIDE DEF a, m
  <2>4. product.hold \in Nat /\ (product.hold > 0 <=> a > 0 \/ m > 0)
    BY <2>2, <2>3
  <2>5. QED BY <2>1, <2>3, <2>4, Zenon
\* An NG has a reason that is not only something missing.
<1>5. ASSUME NEW p, NEW i \in JudgesIn(events, p), events[i].status = "NG"
      PROVE  \E issue \in events[i].issues :
                /\ ~issue.missing /\ issue.code \in Codes
                /\ [row |-> i, issue |-> issue] \in IssuesOf("NG")
                /\ events[i].evaluated = p
  <2>1. i \in TellingIn(events, p)
    BY <1>5 DEF JudgesIn
  <2>2. i \in DOMAIN events /\ events[i].evaluated = p
    BY <1>1, <2>1, VerdictsAreTold, Zenon
  <2>3. PICK v \in Verdicts : events[i].status = v.status /\ events[i].issues = v.issues
    BY <1>1, <2>1, VerdictsAreTold, ZenonT(40)
  <2>4. PICK issue \in v.issues : ~issue.missing
    BY <1>5, <2>3, VerdictsAssumption, Zenon
  <2>5. issue.code \in Codes
    BY <2>4, Zenon DEF Codes
  <2>6. [row |-> i, issue |-> issue] \in IssuesOf("NG")
    BY <1>5, <2>2, <2>3, <2>4, IssuesAre, Zenon
  <2>7. QED BY <2>2, <2>3, <2>4, <2>5, <2>6, Zenon
\* And an issue of an NG is one of a judgement.
<1>6. ASSUME NEW x \in IssuesOf("NG")
      PROVE  /\ x.row \in JudgesIn(events, events[x.row].evaluated) /\ events[x.row].status = "NG"
             /\ x.issue \in events[x.row].issues
             /\ events[x.row].evaluated \in Phases
             /\ x.issue.hole # 0 => events[x.row].evaluated = "ASSEMBLING"
  <2>1. PICK i \in DOMAIN events : /\ events[i].status = "NG"
                                   /\ \E issue \in events[i].issues : x = [row |-> i, issue |-> issue]
    BY IssuesAre
  <2>2. x.row = i /\ x.issue \in events[i].issues
    BY <2>1
  <2>3. i \in TellingIn(events, events[i].evaluated) /\ events[i].evaluated \in Phases
    BY <1>1, <2>2, IssuesAreTold, Zenon
  <2>4. PICK v \in Verdicts : events[i].evaluated = v.phase /\ events[i].issues = v.issues
    BY <1>1, <2>2, IssuesAreTold, Zenon
  <2>5. x.issue.hole # 0 => v.phase # "CHECK_MATERIALS"
    BY <2>2, <2>4, VerdictsAssumption, Zenon
  <2>6. i \in JudgesIn(events, events[i].evaluated)
    BY <2>1, <2>3 DEF JudgesIn
  <2>7. QED BY <2>1, <2>2, <2>3, <2>4, <2>5, <2>6, Zenon DEF Phases
<1>7. IsFiniteSet(IssuesOf("NG"))
  BY <1>1, IssuesFinite
<1>8. ASSUME NEW S \in SUBSET IssuesOf("NG") PROVE Cardinality(S) > 0 <=> S # {}
  <2>1. IsFiniteSet(S)
    BY <1>7, FS_Subset
  <2>2. QED BY <2>1, FS_EmptySet, FS_CardinalityType
<1>9. ASSUME NEW p \in Phases
      PROVE  (\E code \in Codes : Pareto(p, code) > 0) <=> \E i \in JudgesIn(events, p) : events[i].status = "NG"
  <2> DEFINE bar(code) == {x \in IssuesOf("NG") : events[x.row].evaluated = p /\ x.issue.code = code}
  <2>1. \A code : Pareto(p, code) > 0 <=> \E x \in IssuesOf("NG") : events[x.row].evaluated = p /\ x.issue.code = code
    <3>1. \A code : bar(code) \in SUBSET IssuesOf("NG")
      OBVIOUS
    <3>2. \A code : Cardinality(bar(code)) > 0 <=> bar(code) # {}
      BY <1>8, <3>1, Zenon
    <3>3. QED BY <3>2, Zenon DEF Pareto
  <2>2. ASSUME NEW code \in Codes, Pareto(p, code) > 0 PROVE \E i \in JudgesIn(events, p) : events[i].status = "NG"
    BY <1>6, <2>1, <2>2, Zenon
  <2>3. ASSUME NEW i \in JudgesIn(events, p), events[i].status = "NG" PROVE \E code \in Codes : Pareto(p, code) > 0
    <3>1. PICK issue \in events[i].issues : /\ issue.code \in Codes
                                            /\ [row |-> i, issue |-> issue] \in IssuesOf("NG")
                                            /\ events[i].evaluated = p
      BY <1>5, <2>3, Zenon
    <3> DEFINE x == [row |-> i, issue |-> issue]
    <3>2. x \in IssuesOf("NG") /\ events[x.row].evaluated = p /\ x.issue.code = issue.code
      BY <3>1
    <3> HIDE DEF x
    <3>3. QED BY <2>1, <3>1, <3>2, Zenon
  <2>4. QED BY <2>2, <2>3, Zenon
<1>10. (product.first_pass = 1) <=> (product.result = "COMPLETED" /\ NgCodes = {})
  <2>1. NgCodes = {} <=> ~(\E i \in A : events[i].status = "NG") /\ ~(\E i \in M : events[i].status = "NG")
    <3>1. ASSUME NEW p, NEW i \in JudgesIn(events, p), events[i].status = "NG" PROVE NgCodes # {}
      <4>1. PICK issue \in events[i].issues : ~issue.missing /\ [row |-> i, issue |-> issue] \in IssuesOf("NG")
        BY <1>5, <3>1, Zenon
      <4>2. issue \in {x.issue : x \in IssuesOf("NG")}
        <5>1. [row |-> i, issue |-> issue].issue = issue
          OBVIOUS
        <5>2. QED BY <4>1, <5>1, Zenon
      <4>3. QED BY <4>1, <4>2, Zenon DEF NgCodes
    <3>2. ASSUME NgCodes # {}
          PROVE  (\E i \in A : events[i].status = "NG") \/ (\E i \in M : events[i].status = "NG")
      <4>1. PICK x \in IssuesOf("NG") : TRUE
        BY <3>2, Zenon DEF NgCodes
      <4>2. QED BY <1>6, <4>1, Zenon DEF Phases
    <3>3. QED BY <3>1, <3>2, Zenon
  <2>2. (product.ng = 0 <=> ~(product.ng > 0)) /\ (product.material_ng = 0 <=> ~(product.material_ng > 0))
    BY <1>4
  <2>3. NgCodes = {} <=> product.ng = 0 /\ product.material_ng = 0
    BY <1>4, <2>1, <2>2, Zenon
  <2>4. QED BY <1>2, <2>3
<1>11. ASSUME NEW hole \in 1..5
       PROVE  Heatmap(hole) > 0 <=> \E i \in A : /\ events[i].status = "NG"
                                                 /\ \E issue \in events[i].issues : issue.hole = hole
  <2>1. Heatmap(hole) > 0 <=> \E x \in IssuesOf("NG") : x.issue.hole = hole
    <3>1. {x \in IssuesOf("NG") : x.issue.hole = hole} \in SUBSET IssuesOf("NG")
      OBVIOUS
    <3>2. Heatmap(hole) > 0 <=> {x \in IssuesOf("NG") : x.issue.hole = hole} # {}
      BY <1>8, <3>1, Zenon DEF Heatmap
    <3>3. QED BY <3>2, Zenon
  <2>2. ASSUME NEW x \in IssuesOf("NG"), x.issue.hole = hole
        PROVE  \E i \in A : /\ events[i].status = "NG" /\ \E issue \in events[i].issues : issue.hole = hole
    <3>1. x.issue.hole # 0
      BY <2>2
    <3>2. events[x.row].evaluated = "ASSEMBLING"
      BY <1>6, <3>1, Zenon
    <3>3. QED BY <1>6, <2>2, <3>2, Zenon
  <2>3. ASSUME NEW i \in A, events[i].status = "NG", NEW issue \in events[i].issues, issue.hole = hole
        PROVE  \E x \in IssuesOf("NG") : x.issue.hole = hole
    <3> DEFINE x == [row |-> i, issue |-> issue]
    <3>1. i \in DOMAIN events
      BY <1>1, VerdictsAreTold, Zenon DEF JudgesIn
    <3>2. x \in IssuesOf("NG")
      BY <2>3, <3>1, IssuesAre, Zenon
    <3>3. x.issue.hole = hole
      BY <2>3
    <3>4. QED BY <3>2, <3>3, Zenon
  <2>4. QED BY <2>1, <2>2, <2>3, Zenon
<1>12. HoldReasons # {} => product.hold > 0
  <2>1. ASSUME NEW x \in IssuesOf("HOLD") PROVE product.hold > 0
    <3>1. PICK i \in DOMAIN events : events[i].status = "HOLD" /\ events[i].issues # {}
      BY IssuesAre, Zenon
    <3>2. i \in TellingIn(events, events[i].evaluated) /\ events[i].evaluated \in Phases
      BY <1>1, <3>1, IssuesAreTold, Zenon
    <3>3. i \in TellingIn(events, "ASSEMBLING") \/ i \in TellingIn(events, "CHECK_MATERIALS")
      BY <3>2 DEF Phases
    <3>4. QED BY <1>4, <3>1, <3>3, Zenon
  <2>2. QED BY <2>1, Zenon DEF HoldReasons
<1>13. /\ Cardinality(Recoveries)
            = Cardinality({i \in A : events[i].status = "NG"}) - (IF LastIs(events, A, "NG") THEN 1 ELSE 0)
       /\ Cardinality({p \in Recoveries : events[p[2]].status # "NG"})
            = product.ng - (IF LastIs(events, A, "NG") THEN 1 ELSE 0)
  <2>1. Recoveries = RecoveriesIn(events, A)
    <3>1. A = {i \in DOMAIN events : /\ events[i].evaluated = "ASSEMBLING"
                                     /\ events[i].type = "STATUS_CHANGED" /\ events[i].status # "HOLD"}
      BY Zenon DEF JudgesIn, TellingIn
    <3> HIDE DEF A
    <3>2. QED BY <3>1, Zenon DEF Recoveries, RecoveriesIn
  <2>2. A \in SUBSET Nat /\ IsFiniteSet(A) /\ Len(events) \in Nat /\ A \in SUBSET (1..Len(events))
    <3>1. IsFiniteSet(A) /\ A \in SUBSET TellingIn(events, "ASSEMBLING")
          /\ TellingIn(events, "ASSEMBLING") \in SUBSET (DOMAIN events) /\ DOMAIN events \subseteq Nat
      BY <1>1, ToldFinite, Zenon
    <3>2. DOMAIN events = 1..Len(events) /\ Len(events) \in Nat
      BY <1>1, Zenon DEF Told
    <3> HIDE DEF A
    <3>3. QED BY <3>1, <3>2, Zenon
  <2>3. product.ng = Cardinality(Starting(events, A, "NG"))
    BY <1>1, Zenon DEF SumsUp
  <2> HIDE DEF A
  <2>4. Cardinality({p \in RecoveriesIn(events, A) : events[p[2]].status # "NG"}) = Cardinality(Ending(events, A))
    BY <2>2, RecoveriesAreEndings
  <2>5. Cardinality(Ending(events, A))
        = Cardinality(Starting(events, A, "NG")) - (IF LastIs(events, A, "NG") THEN 1 ELSE 0)
    BY <2>2, EveryNgEnds
  <2>6. Cardinality(RecoveriesIn(events, A))
        = Cardinality({i \in A : events[i].status = "NG"}) - (IF LastIs(events, A, "NG") THEN 1 ELSE 0)
    BY <2>2, EveryNgIsFollowed
  <2>7. QED BY <2>1, <2>3, <2>4, <2>5, <2>6, Zenon
<1>14. /\ product.ng = Cardinality(Starting(events, A, "NG"))
       /\ product.material_ng = Cardinality(Starting(events, M, "NG"))
       /\ product.hold = Cardinality(Starting(events, TellingIn(events, "ASSEMBLING"), "HOLD"))
                         + Cardinality(Starting(events, TellingIn(events, "CHECK_MATERIALS"), "HOLD"))
  BY <1>1, Zenon DEF SumsUp
<1>15. /\ product.ng > 0 <=> \E code \in Codes : Pareto("ASSEMBLING", code) > 0
       /\ product.material_ng > 0 <=> \E code \in Codes : Pareto("CHECK_MATERIALS", code) > 0
  BY <1>4, <1>9, Zenon DEF Phases
<1> HIDE DEF A, M
<1>16. A = Judges("ASSEMBLING") /\ M = Judges("CHECK_MATERIALS")
  BY <1>3, Zenon DEF A, M
<1>17. QED
  BY <1>3, <1>10, <1>11, <1>12, <1>13, <1>14, <1>15, <1>16, Zenon DEF SummaryTellsTheEvents

\* Whatever events a product has, the summary that is kept of it tells them.
THEOREM SummaryIsTrue == RecordsSpec => []SummaryTellsTheEvents
BY SummaryInit, SummaryKept, SummaryIsTold, PTL DEF RecordsSpec

-----------------------------------------------------------------------------
(* Scoring: the time of a video                                           *)

ScoredStatuses == {"IN_PROGRESS", "PASS", "NG"}
LogRows == [frame_index : Nat, at : Nat, status : ScoredStatuses, cause : BOOLEAN]

\* Every row is at the time of its frame or a little late, and later frames have
\* later rows.
ScoringInv ==
    /\ predictions \in Seq(LogRows)
    /\ \A i \in DOMAIN predictions :
          \/ predictions[i].at = predictions[i].frame_index * FrameMs
          \/ predictions[i].at = predictions[i].frame_index * FrameMs + 1
    /\ \A i, k \in DOMAIN predictions :
          i < k => predictions[i].frame_index < predictions[k].frame_index

LEMMA ScoringStarts == ScoringInit => ScoringInv
<1> SUFFICES ASSUME predictions = <<>> PROVE ScoringInv
  BY DEF ScoringInit
<1>1. DOMAIN predictions = {}
  OBVIOUS
<1>2. predictions \in Seq(LogRows)
  OBVIOUS
<1>3. QED BY <1>1, <1>2 DEF ScoringInv

LEMMA ScoringKept == ScoringInv /\ [ScoringNext]_predictions => ScoringInv'
<1> SUFFICES ASSUME ScoringInv, [ScoringNext]_predictions PROVE ScoringInv'
  OBVIOUS
<1>1. CASE UNCHANGED predictions
  BY <1>1 DEF ScoringInv
<1>2. ASSUME NEW missing \in 0..MaxMissing, NEW late \in {0, 1}, NEW status \in ScoredStatuses, NEW cause \in BOOLEAN,
             LogRow(missing, late, status, cause)
      PROVE  ScoringInv'
  <2> DEFINE index == IF predictions = <<>> THEN missing ELSE predictions[Len(predictions)].frame_index + 1 + missing
             new == [frame_index |-> index, at |-> index * FrameMs + late, status |-> status, cause |-> cause]
  <2>1. predictions' = Append(predictions, new)
    BY <1>2 DEF LogRow
  <2>2. predictions \in Seq(LogRows) /\ FrameMs \in Nat /\ missing \in Nat
    BY SegmentsAssumption DEF ScoringInv
  <2>3. index \in Nat /\ \A i \in DOMAIN predictions : predictions[i].frame_index < index
    <3>1. CASE predictions = <<>>
      BY <2>2, <3>1
    <3>2. CASE predictions # <<>>
      <4>1. Len(predictions) \in DOMAIN predictions /\ \A i \in DOMAIN predictions : i < Len(predictions) \/ i = Len(predictions)
        BY <2>2, <3>2
      <4>2. \A i \in DOMAIN predictions : predictions[i].frame_index \in Nat
        <5>1. \A i \in DOMAIN predictions : predictions[i] \in LogRows
          BY <2>2
        <5>2. QED BY <5>1 DEF LogRows
      <4>3. \A i \in DOMAIN predictions : predictions[i].frame_index <= predictions[Len(predictions)].frame_index
        BY <4>1, <4>2 DEF ScoringInv
      <4>4. QED BY <2>2, <3>2, <4>1, <4>2, <4>3
    <3>3. QED BY <3>1, <3>2
  <2> HIDE DEF index
  <2>4. new \in LogRows
    <3>1. index * FrameMs \in Nat
      BY <2>2, <2>3
    <3>2. index * FrameMs + late \in Nat
      BY <3>1
    <3>3. QED BY <2>3, <3>2 DEF LogRows
  <2>5. new.frame_index = index /\ (new.at = index * FrameMs \/ new.at = index * FrameMs + 1)
    <3>1. index * FrameMs \in Nat
      BY <2>2, <2>3
    <3>2. QED BY <3>1
  <2> HIDE DEF new
  <2>6. /\ predictions' \in Seq(LogRows)
        /\ \A i \in DOMAIN predictions' : \/ i \in DOMAIN predictions /\ predictions'[i] = predictions[i]
                                          \/ i \notin DOMAIN predictions /\ i = Len(predictions) + 1 /\ predictions'[i] = new
        /\ \A i \in DOMAIN predictions : i \in Nat /\ i <= Len(predictions)
        /\ Len(predictions) \in Nat
    BY <2>1, <2>2, <2>4
  <2>7. \A i \in DOMAIN predictions' :
           \/ predictions'[i].at = predictions'[i].frame_index * FrameMs
           \/ predictions'[i].at = predictions'[i].frame_index * FrameMs + 1
    BY <2>5, <2>6, Zenon DEF ScoringInv
  <2>8. ASSUME NEW i \in DOMAIN predictions', NEW k \in DOMAIN predictions', i < k
        PROVE  predictions'[i].frame_index < predictions'[k].frame_index
    <3>1. i \in DOMAIN predictions /\ predictions'[i] = predictions[i]
      BY <2>6, <2>8
    <3>2. CASE k \in DOMAIN predictions
      BY <2>6, <2>8, <3>1, <3>2 DEF ScoringInv
    <3>3. CASE k \notin DOMAIN predictions
      BY <2>3, <2>5, <2>6, <3>1, <3>3
    <3>4. QED BY <3>2, <3>3
  <2>9. QED BY <2>6, <2>7, <2>8 DEF ScoringInv
<1>3. QED BY <1>1, <1>2 DEF ScoringNext, ScoredStatuses

LEMMA FramesApart ==
  ASSUME NEW x \in Nat, NEW y \in Nat, x < y, NEW d \in Nat
  PROVE  /\ x * d \in Nat /\ y * d \in Nat
         /\ y * d >= x * d + d
         /\ y # x + 1 => y * d >= x * d + 2 * d
<1>1. PICK n \in Nat : y = x + 1 + n
  <2>1. y - x - 1 \in Nat /\ y = x + 1 + (y - x - 1)
    OBVIOUS
  <2>2. QED BY <2>1
<1>2. x * d \in Nat /\ n * d \in Nat
  OBVIOUS
<1>3. y * d = x * d + d + n * d
  BY <1>1
<1>4. CASE n = 0
  BY <1>1, <1>2, <1>3, <1>4
<1>5. CASE n # 0
  <2>1. PICK m \in Nat : n = 1 + m
    <3>1. n - 1 \in Nat /\ n = 1 + (n - 1)
      BY <1>5
    <3>2. QED BY <3>1
  <2>2. m * d \in Nat /\ n * d = d + m * d
    BY <2>1
  <2>3. QED BY <1>2, <1>3, <2>2
<1>6. QED BY <1>4, <1>5

\* Rows are more than a frame apart, but for their being late.
LEMMA RowsApart ==
  ASSUME ScoringInv, NEW i \in DOMAIN predictions
  PROVE  /\ DOMAIN predictions = 1..Len(predictions) /\ Len(predictions) \in Nat
         /\ i \in Nat \ {0} /\ i <= Len(predictions)
         /\ predictions[i].at \in Nat /\ predictions[i].frame_index \in Nat /\ predictions[i].status \in ScoredStatuses
         /\ FrameMs \in Nat /\ FrameMs > 1
         /\ \A k \in DOMAIN predictions :
               i < k => /\ predictions[i].at < predictions[k].at
                        /\ predictions[k].frame_index # predictions[i].frame_index + 1
                              => predictions[i].at + FrameMs < predictions[k].at
<1>1. predictions \in Seq(LogRows) /\ FrameMs \in Nat /\ FrameMs > 1
  BY SegmentsAssumption DEF ScoringInv
<1>2. /\ DOMAIN predictions = 1..Len(predictions) /\ Len(predictions) \in Nat
      /\ \A k \in DOMAIN predictions : /\ k \in Nat \ {0} /\ k <= Len(predictions)
                                       /\ predictions[k] \in LogRows
  BY <1>1
<1>3. \A k \in DOMAIN predictions : /\ predictions[k].at \in Nat /\ predictions[k].frame_index \in Nat
                                    /\ predictions[k].status \in ScoredStatuses
  BY <1>2 DEF LogRows
<1>4. ASSUME NEW k \in DOMAIN predictions, i < k
      PROVE  /\ predictions[i].at < predictions[k].at
             /\ predictions[k].frame_index # predictions[i].frame_index + 1
                   => predictions[i].at + FrameMs < predictions[k].at
  <2> DEFINE x == predictions[i].frame_index
             y == predictions[k].frame_index
  <2>1. x \in Nat /\ y \in Nat /\ x < y
    BY <1>3, <1>4 DEF ScoringInv
  <2> DEFINE a == x * FrameMs
             b == y * FrameMs
  <2>2. (predictions[i].at = a \/ predictions[i].at = a + 1) /\ (predictions[k].at = b \/ predictions[k].at = b + 1)
    BY Zenon DEF ScoringInv
  <2> HIDE DEF x, y
  <2>3. a \in Nat /\ b \in Nat /\ b >= a + FrameMs /\ (y # x + 1 => b >= a + 2 * FrameMs)
    BY <1>1, <2>1, FramesApart
  <2> HIDE DEF a, b
  <2>4. predictions[i].at < predictions[k].at /\ (y # x + 1 => predictions[i].at + FrameMs < predictions[k].at)
    BY <1>1, <2>2, <2>3, SMTT(40)
  <2>5. QED BY <2>4 DEF x, y
<1>5. QED BY <1>1, <1>2, <1>3, <1>4

\* A row tells of the milliseconds from its own time to its end.
LEMMA RowLasts ==
  ASSUME ScoringInv, NEW i \in DOMAIN predictions
  PROVE  /\ Ends(i) \in Int /\ predictions[i].at \in Int /\ predictions[i].at < Ends(i)
         /\ \A k \in DOMAIN predictions : i < k => Ends(i) <= predictions[k].at
         /\ \A t \in Int : i \in RowAt(t) <=> predictions[i].at <= t /\ t < Ends(i)
<1>1. /\ DOMAIN predictions = 1..Len(predictions) /\ Len(predictions) \in Nat
      /\ i \in Nat \ {0} /\ i <= Len(predictions)
      /\ predictions[i].at \in Nat
      /\ FrameMs \in Nat /\ FrameMs > 1
      /\ \A k \in DOMAIN predictions :
            i < k => /\ predictions[i].at < predictions[k].at
                     /\ predictions[k].frame_index # predictions[i].frame_index + 1
                           => predictions[i].at + FrameMs < predictions[k].at
  BY RowsApart
<1>2. CASE i = Len(predictions)
  <2>1. Ends(i) = predictions[i].at + FrameMs
    BY <1>2 DEF Ends
  <2>2. \A k \in DOMAIN predictions : ~(i < k)
    BY <1>1, <1>2
  <2>3. \A t \in Int : i \in RowAt(t) <=> predictions[i].at <= t /\ t < predictions[i].at + FrameMs
    BY <1>1, <1>2 DEF RowAt
  <2>4. QED BY <1>1, <2>1, <2>2, <2>3
<1>3. CASE i # Len(predictions)
  <2>1. i + 1 \in DOMAIN predictions /\ i < i + 1 /\ i < Len(predictions)
    BY <1>1, <1>3
  <2>2. \A k \in DOMAIN predictions : i < k => k = i + 1 \/ i + 1 < k
    BY <1>1
  <2>3. predictions[i + 1].at \in Nat /\ \A k \in DOMAIN predictions : i + 1 < k => predictions[i + 1].at < predictions[k].at
    BY <2>1, RowsApart
  <2>4. \A k \in DOMAIN predictions : i < k => predictions[i + 1].at <= predictions[k].at
    <3>1. \A k \in DOMAIN predictions : predictions[k].at \in Nat
      BY RowsApart
    <3>2. QED BY <2>2, <2>3, <3>1
  <2>5. \A k : k \in (i + 1)..Len(predictions) <=> k \in DOMAIN predictions /\ i < k
    BY <1>1
  <2>6. ASSUME NEW t \in Int
        PROVE  (\A k \in (i + 1)..Len(predictions) : predictions[k].at > t) <=> t < predictions[i + 1].at
    <3>1. \A k \in DOMAIN predictions : predictions[k].at \in Nat
      BY RowsApart
    <3>2. QED BY <2>1, <2>4, <2>5, <3>1
  <2> DEFINE here == predictions[i].at
             next == predictions[i + 1].at
             adjacent == predictions[i + 1].frame_index = predictions[i].frame_index + 1
  <2>7. \A t \in Int : i \in RowAt(t) <=> here <= t /\ t < next /\ (t < here + FrameMs \/ adjacent)
    <3> SUFFICES ASSUME NEW t \in Int
                 PROVE  i \in RowAt(t) <=> here <= t /\ t < next /\ (t < here + FrameMs \/ adjacent)
      BY Zenon
    <3>1. i \in RowAt(t) <=> here <= t /\ (\A k \in (i + 1)..Len(predictions) : predictions[k].at > t)
                             /\ (t < here + FrameMs \/ adjacent)
      BY <2>1, Zenon DEF RowAt
    <3>2. QED BY <2>6, <3>1, Zenon
  <2>8. Ends(i) = IF adjacent THEN next ELSE Least(here + FrameMs, next)
    BY <1>3 DEF Ends
  <2>9. here < next /\ (~adjacent => here + FrameMs < next) /\ here \in Nat /\ next \in Nat
    BY <1>1, <2>1, <2>3
  <2>10. \A k \in DOMAIN predictions : i < k => next <= predictions[k].at
    BY <2>4
  <2>11. \A k \in DOMAIN predictions : predictions[k].at \in Nat
    BY RowsApart
  <2> HIDE DEF here, next, adjacent
  <2>12. /\ Ends(i) \in Int /\ here < Ends(i) /\ Ends(i) <= next
         /\ \A t \in Int : i \in RowAt(t) <=> here <= t /\ t < Ends(i)
    <3>1. Ends(i) \in Int /\ here < Ends(i) /\ Ends(i) <= next
          /\ Ends(i) = IF adjacent THEN next ELSE here + FrameMs
      BY <1>1, <2>8, <2>9 DEF Least
    <3>2. ASSUME NEW t \in Int PROVE i \in RowAt(t) <=> here <= t /\ t < Ends(i)
      <4>1. i \in RowAt(t) <=> here <= t /\ t < next /\ (t < here + FrameMs \/ adjacent)
        BY <2>7
      <4> DEFINE in == i \in RowAt(t)
      <4> HIDE DEF in
      <4>2. in <=> here <= t /\ t < next /\ (t < here + FrameMs \/ adjacent)
        BY <4>1 DEF in
      <4>3. in <=> here <= t /\ t < Ends(i)
        BY <1>1, <2>9, <3>1, <4>2
      <4>4. QED BY <4>3 DEF in
    <3>3. QED BY <3>1, <3>2
  <2>13. \A k \in DOMAIN predictions : i < k => Ends(i) <= predictions[k].at
    BY <2>9, <2>10, <2>11, <2>12
  <2>14. QED BY <1>1, <2>12, <2>13 DEF here
<1>4. QED BY <1>2, <1>3

\* In one millisecond one row tells what was shown.
LEMMA OneRow ==
  ASSUME ScoringInv, NEW t \in Int, NEW i \in RowAt(t)
  PROVE  /\ RowAt(t) = {i} /\ i \in DOMAIN predictions
         /\ Showed(t) = predictions[i].status /\ Showed(t) \in ScoredStatuses
<1>1. RowAt(t) \subseteq DOMAIN predictions
  BY Zenon DEF RowAt
<1>2. ASSUME NEW x \in RowAt(t), NEW y \in RowAt(t) PROVE ~(x < y)
  <2>1. x \in DOMAIN predictions /\ y \in DOMAIN predictions
    BY <1>1
  <2>2. /\ Ends(x) \in Int /\ t < Ends(x)
        /\ \A k \in DOMAIN predictions : x < k => Ends(x) <= predictions[k].at
    BY <2>1, RowLasts
  <2>3. predictions[y].at <= t /\ predictions[y].at \in Int
    BY <2>1, RowLasts
  <2>4. QED BY <2>1, <2>2, <2>3
<1>3. ASSUME NEW x \in RowAt(t) PROVE x = i
  <2>1. x \in Nat /\ i \in Nat
    BY <1>1, RowsApart
  <2>2. QED BY <1>2, <2>1
<1>4. RowAt(t) = {i}
  BY <1>3
<1>5. Showed(t) = predictions[i].status
  BY <1>4 DEF Showed
<1>6. predictions[i].status \in ScoredStatuses
  BY <1>1, RowsApart
<1>7. QED BY <1>1, <1>4, <1>5, <1>6

LEMMA ShowedIs ==
  ASSUME ScoringInv, NEW t \in Int
  PROVE  /\ \A status \in ScoredStatuses : Showed(t) = status <=> \E i \in RowAt(t) : predictions[i].status = status
         /\ Showed(t) # "dark" <=> RowAt(t) # {}
<1>1. CASE RowAt(t) = {}
  BY <1>1 DEF Showed, ScoredStatuses
<1>2. ASSUME NEW i \in RowAt(t)
      PROVE  /\ \A status \in ScoredStatuses : Showed(t) = status <=> \E j \in RowAt(t) : predictions[j].status = status
             /\ Showed(t) # "dark" <=> RowAt(t) # {}
  <2>1. RowAt(t) = {i} /\ Showed(t) = predictions[i].status /\ Showed(t) \in ScoredStatuses
    BY OneRow
  <2>2. QED BY <2>1 DEF ScoredStatuses
<1>3. QED BY <1>1, <1>2

LEMMA LeastMost ==
  ASSUME NEW x \in Int, NEW y \in Int
  PROVE  /\ Least(x, y) \in Int /\ Most(x, y) \in Int
         /\ \A t \in Int : /\ t < Least(x, y) <=> t < x /\ t < y
                           /\ Most(x, y) <= t <=> x <= t /\ y <= t
BY DEF Least, Most

LEMMA LengthOfInterval ==
  ASSUME NEW a \in Int, NEW b \in Int
  PROVE  /\ IsFiniteSet(a..(b - 1)) /\ Cardinality(a..(b - 1)) = Most(0, b - a)
<1>1. b - 1 \in Int
  OBVIOUS
<1>2. IsFiniteSet(a..(b - 1)) /\ Cardinality(a..(b - 1)) = IF a > b - 1 THEN 0 ELSE (b - 1) - a + 1
  BY <1>1, FS_Interval
<1>3. QED BY <1>2 DEF Most

\* The time of some rows is the number of milliseconds that one of them tells of.
LEMMA WithinIs ==
  ASSUME ScoringInv, NEW some \in SUBSET (DOMAIN predictions), NEW a \in Int, NEW b \in Int
  PROVE  /\ IsFiniteSet({t \in a..(b - 1) : \E i \in some : i \in RowAt(t)})
         /\ Within(some, a, b) = Cardinality({t \in a..(b - 1) : \E i \in some : i \in RowAt(t)})
<1> DEFINE f == [i \in some |-> Most(0, Least(Ends(i), b) - Most(predictions[i].at, a))]
           A == [i \in some |-> {t \in a..(b - 1) : i \in RowAt(t)}]
<1>1. IsFiniteSet(some)
  <2>1. DOMAIN predictions = 1..Len(predictions) /\ Len(predictions) \in Nat
    BY DEF ScoringInv
  <2>2. IsFiniteSet(DOMAIN predictions)
    BY <2>1, FS_Interval
  <2>3. QED BY <2>2, FS_Subset
<1>2. ASSUME NEW i \in some PROVE IsFiniteSet(A[i]) /\ f[i] = Cardinality(A[i])
  <2> DEFINE l == Most(predictions[i].at, a)
             h == Least(Ends(i), b)
  <2>1. /\ Ends(i) \in Int /\ predictions[i].at \in Int
        /\ \A t \in Int : i \in RowAt(t) <=> predictions[i].at <= t /\ t < Ends(i)
    BY RowLasts
  <2>2. /\ l \in Int /\ h \in Int
        /\ \A t \in Int : /\ t < h <=> t < Ends(i) /\ t < b
                          /\ l <= t <=> predictions[i].at <= t /\ a <= t
    BY <2>1, LeastMost
  <2> HIDE DEF l, h
  <2>3. A[i] = l..(h - 1)
    <3>1. ASSUME NEW t PROVE t \in A[i] <=> t \in l..(h - 1)
      <4>1. t \in a..(b - 1) <=> t \in Int /\ a <= t /\ t < b
        OBVIOUS
      <4>2. t \in l..(h - 1) <=> t \in Int /\ l <= t /\ t < h
        BY <2>2
      <4>3. t \in A[i] <=> t \in a..(b - 1) /\ i \in RowAt(t)
        OBVIOUS
      <4>4. QED BY <2>1, <2>2, <4>1, <4>2, <4>3, Zenon
    <3>2. QED BY <3>1
  <2>4. f[i] = Most(0, h - l)
    BY DEF l, h
  <2>5. QED BY <2>2, <2>3, <2>4, LengthOfInterval
<1>3. ASSUME NEW x \in some, NEW y \in some, x # y PROVE A[x] \cap A[y] = {}
  <2>1. ASSUME NEW t \in A[x] \cap A[y] PROVE FALSE
    <3>1. t \in Int /\ x \in RowAt(t) /\ y \in RowAt(t)
      OBVIOUS
    <3>2. QED BY <1>3, <3>1, OneRow
  <2>2. QED BY <2>1, Zenon
<1>4. UNION {A[i] : i \in some} = {t \in a..(b - 1) : \E i \in some : i \in RowAt(t)}
  OBVIOUS
<1>5. DOMAIN f = some
  OBVIOUS
<1> HIDE DEF A
<1>6. Within(some, a, b) = SumFunction(f)
  BY DEF Within
<1> HIDE DEF f
<1>7. IsFiniteSet(UNION {A[i] : i \in DOMAIN f}) /\ SumFunction(f) = Cardinality(UNION {A[i] : i \in DOMAIN f})
  <2>1. IsFiniteSet(DOMAIN f) /\ \A x \in DOMAIN f : IsFiniteSet(A[x]) /\ f[x] = Cardinality(A[x])
    BY <1>1, <1>2, <1>5
  <2>2. \A x, y \in DOMAIN f : x # y => A[x] \cap A[y] = {}
    BY <1>3, <1>5
  <2>3. CountsOf(f, A)
    BY <2>1, <2>2, Zenon DEF CountsOf
  <2>4. QED BY <2>3, SumIsUnion, Zenon
<1>8. QED BY <1>4, <1>5, <1>6, <1>7

\* The segments are what a person wrote down.
LEMMA SegmentIs ==
  ASSUME NEW n \in DOMAIN Segments
  PROVE  /\ DOMAIN Segments = 1..Len(Segments) /\ Len(Segments) \in Nat /\ n \in Nat \ {0} /\ n <= Len(Segments)
         /\ Segments[n].start \in Int /\ Segments[n].end \in Int /\ Segments[n].expected \in Expectations
         /\ Segments[n].start < Segments[n].end
         /\ ScoredFrom(Segments[n]) \in Int
         /\ Segments[n].start <= ScoredFrom(Segments[n]) /\ ScoredFrom(Segments[n]) <= Segments[n].end
<1>1. /\ Segments \in Seq([start : Int, end : Int, expected : Expectations])
      /\ Grace \in Nat /\ Segments[n].start < Segments[n].end
  BY SegmentsAssumption
<1> DEFINE S == [start : Int, end : Int, expected : Expectations]
<1>2. /\ DOMAIN Segments = 1..Len(Segments) /\ Len(Segments) \in Nat /\ n \in Nat \ {0} /\ n <= Len(Segments)
      /\ Segments[n] \in S
  <2>1. Segments \in Seq(S)
    BY <1>1, Zenon
  <2> HIDE DEF S
  <2>2. QED BY <2>1
<1>3. Segments[n].start \in Int /\ Segments[n].end \in Int /\ Segments[n].expected \in Expectations
  BY <1>2
<1>4. QED BY <1>1, <1>2, <1>3 DEF ScoredFrom, Least

LEMMA SegmentsFollow ==
  ASSUME NEW n \in DOMAIN Segments
  PROVE  \A m \in DOMAIN Segments : n < m => Segments[n].end <= Segments[m].start
<1> DEFINE N == {d \in Nat : n + 1 + d <= Len(Segments) => Segments[n].end <= Segments[n + 1 + d].start}
<1>1. /\ DOMAIN Segments = 1..Len(Segments) /\ Len(Segments) \in Nat /\ n \in Nat \ {0}
      /\ Segments[n].end \in Int
  BY SegmentIs
<1>2. \A i \in 1..(Len(Segments) - 1) : Segments[i].end = Segments[i + 1].start
  BY SegmentsAssumption
<1>3. 0 \in N
  <2>1. CASE n + 1 <= Len(Segments)
    <3>1. n \in 1..(Len(Segments) - 1)
      BY <1>1, <2>1
    <3>2. Segments[n].end = Segments[n + 1].start
      BY <1>2, <3>1
    <3>3. n + 1 + 0 = n + 1
      BY <1>1
    <3>4. QED BY <1>1, <3>2, <3>3
  <2>2. CASE ~(n + 1 <= Len(Segments))
    BY <1>1, <2>2
  <2>3. QED BY <2>1, <2>2
<1>4. ASSUME NEW d \in Nat, d \in N PROVE d + 1 \in N
  <2>1. CASE n + 1 + d + 1 <= Len(Segments)
    <3> DEFINE k == n + 1 + d
    <3>1. k \in DOMAIN Segments /\ k \in 1..(Len(Segments) - 1) /\ n + 1 + (d + 1) = k + 1 /\ k + 1 \in DOMAIN Segments
      BY <1>1, <2>1
    <3>2. Segments[n].end <= Segments[k].start
      BY <1>1, <1>4, <2>1
    <3> HIDE DEF k
    <3>3. Segments[k].start < Segments[k].end /\ Segments[k].end = Segments[k + 1].start
          /\ Segments[k].start \in Int /\ Segments[k].end \in Int
      BY <1>2, <3>1, SegmentIs
    <3>4. Segments[n].end <= Segments[k + 1].start
      BY <1>1, <3>2, <3>3
    <3>5. QED BY <3>1, <3>4
  <2>2. CASE ~(n + 1 + d + 1 <= Len(Segments))
    BY <1>1, <2>2
  <2>3. QED BY <2>1, <2>2
<1>5. Nat \subseteq N
  <2> HIDE DEF N
  <2>1. QED BY <1>3, <1>4, EachNatural, Zenon
<1>6. ASSUME NEW m \in DOMAIN Segments, n < m PROVE Segments[n].end <= Segments[m].start
  <2>1. m - n - 1 \in Nat /\ n + 1 + (m - n - 1) = m /\ m <= Len(Segments)
    BY <1>1, <1>6
  <2>2. m - n - 1 \in N
    BY <1>5, <2>1
  <2>3. QED BY <2>1, <2>2
<1>7. QED BY <1>6

\* What is scored of one segment is not of another.
LEMMA ScoredApart ==
  ASSUME NEW n \in DOMAIN Segments, NEW m \in DOMAIN Segments, n # m
  PROVE  Scored(n) \cap Scored(m) = {}
<1>1. ASSUME NEW x \in DOMAIN Segments, NEW y \in DOMAIN Segments, x < y PROVE Scored(x) \cap Scored(y) = {}
  <2>1. /\ ScoredFrom(Segments[x]) \in Int /\ Segments[x].end \in Int
        /\ Segments[x].end <= Segments[y].start
        /\ Segments[y].start \in Int /\ Segments[y].start <= ScoredFrom(Segments[y])
        /\ ScoredFrom(Segments[y]) \in Int /\ Segments[y].end \in Int
    BY <1>1, SegmentIs, SegmentsFollow
  <2>2. /\ \A t \in Scored(x) : t \in Int /\ t < Segments[x].end
        /\ \A t \in Scored(y) : t \in Int /\ ScoredFrom(Segments[y]) <= t
    BY <2>1 DEF Scored
  <2>3. \A t \in Int : ~(t < Segments[x].end /\ ScoredFrom(Segments[y]) <= t)
    BY <2>1
  <2>4. QED BY <2>2, <2>3, Zenon
<1>2. n < m \/ m < n
  BY SegmentIs
<1>3. CASE n < m
  BY <1>1, <1>3
<1>4. CASE m < n
  BY <1>1, <1>4, Zenon
<1>5. QED BY <1>2, <1>3, <1>4

\* A row in a window tells of one of its milliseconds, and every such row is there.
LEMMA WindowIs ==
  ASSUME ScoringInv, NEW a \in Int, NEW b \in Int, a < b, NEW i \in DOMAIN predictions
  PROVE  /\ i \in Window(a, b) <=> \E t \in a..(b - 1) : i \in RowAt(t)
         /\ i \in Window(a, b) => Most(predictions[i].at, a) \in a..(b - 1) /\ i \in RowAt(Most(predictions[i].at, a))
<1> DEFINE l == Most(predictions[i].at, a)
           at == predictions[i].at
           end == Ends(i)
<1>1. /\ end \in Int /\ at \in Int /\ at < end
      /\ \A t \in Int : i \in RowAt(t) <=> at <= t /\ t < end
  BY RowLasts
<1>2. i \in Window(a, b) <=> at < b /\ end > a
  BY DEF Window
<1> HIDE DEF at, end
<1>3. l = Most(at, a)
  BY DEF at
<1> HIDE DEF l
<1>4. l \in Int /\ (at < b /\ end > a => l \in a..(b - 1) /\ at <= l /\ l < end)
  BY <1>1, <1>3 DEF Most
<1>5. ASSUME i \in Window(a, b) PROVE l \in a..(b - 1) /\ i \in RowAt(l)
  BY <1>1, <1>2, <1>4, <1>5
<1>6. ASSUME NEW t \in a..(b - 1), i \in RowAt(t) PROVE i \in Window(a, b)
  <2>1. t \in Int /\ a <= t /\ t < b /\ at <= t /\ t < end
    BY <1>1, <1>6
  <2>2. at < b /\ end > a
    BY <1>1, <2>1
  <2>3. QED BY <1>2, <2>2
<1>7. QED BY <1>5, <1>6 DEF l

LEMMA ScoredIs ==
  ASSUME NEW n \in DOMAIN Segments, Segments[n].expected # "none"
  PROVE  /\ Scored(n) = ScoredFrom(Segments[n])..(Segments[n].end - 1)
         /\ ScoredFrom(Segments[n]) \in Int /\ Segments[n].end \in Int
         /\ ScoredFrom(Segments[n]) <= Segments[n].end
         /\ ScoredRows(Segments[n]) = Window(ScoredFrom(Segments[n]), Segments[n].end)
         /\ Scored(n) \in SUBSET Int /\ IsFiniteSet(Scored(n))
<1>1. /\ ScoredFrom(Segments[n]) \in Int /\ Segments[n].end \in Int
      /\ ScoredFrom(Segments[n]) <= Segments[n].end
  BY SegmentIs
<1>2. Scored(n) = ScoredFrom(Segments[n])..(Segments[n].end - 1)
  BY DEF Scored
<1>3. IsFiniteSet(ScoredFrom(Segments[n])..(Segments[n].end - 1))
  BY <1>1, LengthOfInterval
<1>4. ScoredRows(Segments[n]) = Window(ScoredFrom(Segments[n]), Segments[n].end)
  BY DEF ScoredRows
<1>5. QED BY <1>1, <1>2, <1>3, <1>4

\* A row that tells of what is scored is scored.
LEMMA RowsScored ==
  ASSUME ScoringInv, NEW n \in DOMAIN Segments, Segments[n].expected # "none",
         NEW t \in Scored(n), NEW i \in RowAt(t)
  PROVE  i \in ScoredRows(Segments[n])
<1> DEFINE a == ScoredFrom(Segments[n])
           b == Segments[n].end
<1>1. Scored(n) = a..(b - 1) /\ a \in Int /\ b \in Int /\ ScoredRows(Segments[n]) = Window(a, b)
  BY ScoredIs
<1>2. i \in DOMAIN predictions
  BY DEF RowAt
<1> HIDE DEF a, b
<1>3. a < b
  BY <1>1
<1>4. QED BY <1>1, <1>2, <1>3, WindowIs

\* The time of a status in a segment.
LEMMA ShownIs ==
  ASSUME ScoringInv, NEW n \in DOMAIN Segments, Segments[n].expected # "none", NEW status \in ScoredStatuses
  PROVE  /\ IsFiniteSet({t \in Scored(n) : Showed(t) = status})
         /\ ShownTime(Segments[n], status) = Cardinality({t \in Scored(n) : Showed(t) = status})
<1> DEFINE a == ScoredFrom(Segments[n])
           b == Segments[n].end
           some == {i \in ScoredRows(Segments[n]) : predictions[i].status = status}
<1>1. Scored(n) = a..(b - 1) /\ a \in Int /\ b \in Int
  BY ScoredIs
<1>2. ShownTime(Segments[n], status) = Within(some, a, b)
  BY DEF ShownTime
<1>3. some \in SUBSET (DOMAIN predictions)
  BY ScoredIs DEF Window
<1> HIDE DEF a, b
<1>4. ASSUME NEW t \in Scored(n) PROVE Showed(t) = status <=> \E i \in some : i \in RowAt(t)
  <2>1. t \in Int
    BY <1>1
  <2>2. Showed(t) = status <=> \E i \in RowAt(t) : predictions[i].status = status
    BY <2>1, ShowedIs
  <2>3. \A i \in RowAt(t) : i \in ScoredRows(Segments[n])
    BY RowsScored
  <2>4. QED BY <2>2, <2>3, Zenon
<1>5. {t \in Scored(n) : Showed(t) = status} = {t \in a..(b - 1) : \E i \in some : i \in RowAt(t)}
  BY <1>1, <1>4, Zenon
<1> HIDE DEF some
<1>6. QED BY <1>1, <1>2, <1>3, <1>5, WithinIs

\* And in the segments of some expectations.
LEMMA SumOfSegments ==
  ASSUME ScoringInv, NEW E \in SUBSET (DOMAIN Segments), \A n \in E : Segments[n].expected # "none",
         NEW status \in ScoredStatuses
  PROVE  SumFunction([n \in E |-> ShownTime(Segments[n], status)])
         = Cardinality({t \in UNION {Scored(n) : n \in E} : Showed(t) = status})
<1> DEFINE f == [n \in E |-> ShownTime(Segments[n], status)]
           A == [n \in E |-> {t \in Scored(n) : Showed(t) = status}]
<1>1. IsFiniteSet(E)
  <2>1. Segments \in Seq([start : Int, end : Int, expected : Expectations])
    BY SegmentsAssumption
  <2>2. DOMAIN Segments = 1..Len(Segments) /\ Len(Segments) \in Nat
    BY <2>1
  <2>3. IsFiniteSet(DOMAIN Segments)
    BY <2>2, FS_Interval
  <2>4. QED BY <2>3, FS_Subset
<1>2. DOMAIN f = E /\ \A n \in E : /\ f[n] = ShownTime(Segments[n], status)
                                  /\ A[n] = {t \in Scored(n) : Showed(t) = status}
  OBVIOUS
<1>3. UNION {A[n] : n \in E} = {t \in UNION {Scored(n) : n \in E} : Showed(t) = status}
  OBVIOUS
<1> HIDE DEF f, A
<1>4. \A n \in DOMAIN f : IsFiniteSet(A[n]) /\ f[n] = Cardinality(A[n])
  BY <1>2, ShownIs
<1>5. \A x, y \in DOMAIN f : x # y => A[x] \cap A[y] = {}
  <2> SUFFICES ASSUME NEW x \in E, NEW y \in E, x # y PROVE A[x] \cap A[y] = {}
    BY <1>2
  <2>1. Scored(x) \cap Scored(y) = {}
    BY ScoredApart
  <2>2. QED BY <1>2, <2>1
<1>6. IsFiniteSet(DOMAIN f)
  BY <1>1, <1>2
<1>7. IsFiniteSet(UNION {A[n] : n \in DOMAIN f}) /\ SumFunction(f) = Cardinality(UNION {A[n] : n \in DOMAIN f})
  <2>1. IsFiniteSet(DOMAIN f) /\ \A x \in DOMAIN f : IsFiniteSet(A[x]) /\ f[x] = Cardinality(A[x])
    BY <1>4, <1>6
  <2>2. CountsOf(f, A)
    BY <1>5, <2>1, Zenon DEF CountsOf
  <2>3. QED BY <2>2, SumIsUnion, Zenon
<1>8. QED BY <1>2, <1>3, <1>7 DEF f

\* Before the first millisecond of a row is the last of the one before, if none
\* is missing between them, and else nothing.
LEMMA JustBefore ==
  ASSUME ScoringInv, NEW i \in DOMAIN predictions
  PROVE  Showed(predictions[i].at - 1) = "NG"
         <=> /\ i - 1 \in DOMAIN predictions /\ predictions[i - 1].status = "NG"
             /\ predictions[i].frame_index = predictions[i - 1].frame_index + 1
<1> DEFINE t == predictions[i].at - 1
<1>1. /\ DOMAIN predictions = 1..Len(predictions) /\ Len(predictions) \in Nat
      /\ i \in Nat \ {0} /\ i <= Len(predictions) /\ predictions[i].at \in Nat
  BY RowsApart
<1>2. t \in Int /\ t < predictions[i].at
  BY <1>1
<1>3. Showed(t) = "NG" <=> \E k \in RowAt(t) : predictions[k].status = "NG"
  BY <1>2, ShowedIs DEF ScoredStatuses
<1>4. ASSUME NEW k \in RowAt(t)
      PROVE  k = i - 1 /\ k \in DOMAIN predictions
  <2>1. k \in DOMAIN predictions
    BY DEF RowAt
  <2>2. k \in Nat /\ predictions[k].at <= t
    BY <1>2, <2>1, RowsApart, RowLasts
  <2>3. ~(i < k) /\ k # i
    <3>1. i < k => predictions[i].at < predictions[k].at
      BY <2>1, RowsApart
    <3>2. predictions[k].at \in Nat
      BY <2>1, RowsApart
    <3>3. QED BY <1>1, <1>2, <2>2, <3>1, <3>2
  <2>4. ASSUME k < i - 1 PROVE FALSE
    <3>1. i - 1 \in DOMAIN predictions /\ i - 1 < i
      BY <1>1, <2>1, <2>2, <2>4
    <3>2. Ends(k) <= predictions[i - 1].at /\ t < Ends(k) /\ Ends(k) \in Int
      BY <1>2, <2>1, <2>4, <3>1, RowLasts
    <3>3. predictions[i - 1].at < predictions[i].at /\ predictions[i - 1].at \in Nat
      BY <3>1, RowsApart
    <3>4. QED BY <1>1, <3>2, <3>3
  <2>5. QED BY <1>1, <2>1, <2>2, <2>3, <2>4
<1>5. ASSUME i - 1 \in DOMAIN predictions
      PROVE  i - 1 \in RowAt(t) <=> predictions[i].frame_index = predictions[i - 1].frame_index + 1
  <2> DEFINE k == i - 1
             adjacent == predictions[i].frame_index = predictions[k].frame_index + 1
  <2>1. k \in DOMAIN predictions /\ k < i /\ k # Len(predictions) /\ k + 1 = i
    BY <1>1, <1>5
  <2>2. /\ predictions[k].at < predictions[i].at /\ predictions[k].at \in Nat /\ FrameMs \in Nat
        /\ ~adjacent => predictions[k].at + FrameMs < predictions[i].at
    BY <2>1, RowsApart
  <2>3. Ends(k) = IF adjacent THEN predictions[i].at ELSE Least(predictions[k].at + FrameMs, predictions[i].at)
    BY <2>1 DEF Ends
  <2>4. k \in RowAt(t) <=> predictions[k].at <= t /\ t < Ends(k)
    BY <1>2, <2>1, RowLasts
  <2> DEFINE in == k \in RowAt(t)
             x == predictions[k].at
             y == predictions[i].at
  <2>5. in <=> x <= t /\ t < Ends(k)
    BY <2>4
  <2>6. t = y - 1
    OBVIOUS
  <2> HIDE DEF in, adjacent, k, x, y, t
  <2>7. x < y /\ x \in Nat /\ y \in Nat /\ FrameMs \in Nat /\ (~adjacent => x + FrameMs < y)
        /\ Ends(k) = IF adjacent THEN y ELSE Least(x + FrameMs, y)
    BY <1>1, <2>2, <2>3 DEF x, y
  <2>8. in <=> adjacent
    BY <2>5, <2>6, <2>7 DEF Least
  <2>9. QED BY <2>8 DEF in, adjacent, k
<1>6. QED BY <1>3, <1>4, <1>5, Zenon

\* What is scored of a segment no longer than the grace.
LEMMA OnsetOfNothing ==
  ASSUME ScoringInv, NEW n \in DOMAIN Segments, Segments[n].expected # "none",
         ScoredFrom(Segments[n]) = Segments[n].end
  PROVE  Cardinality({i \in ScoredRows(Segments[n]) : NgBegins(ScoredRows(Segments[n]), i)})
         = Cardinality(Onsets(n))
<1> DEFINE b == Segments[n].end
           samples == ScoredRows(Segments[n])
           begun == {i \in samples : NgBegins(samples, i)}
<1>1. b \in Int /\ b - 1 \in Int /\ Scored(n) = b..(b - 1) /\ samples = Window(b, b)
  BY ScoredIs
<1>2. Scored(n) = {}
  BY <1>1
<1>3. Onsets(n) = {t \in {b} : \E i \in RowAt(t) : predictions[i].status = "NG" /\ i \in RowAt(t - 1)}
  BY <1>2, Zenon DEF Onsets
<1> HIDE DEF b, samples
<1>4. ASSUME NEW i \in DOMAIN predictions PROVE i \in samples <=> i \in RowAt(b) /\ i \in RowAt(b - 1)
  <2>1. /\ Ends(i) \in Int /\ predictions[i].at \in Int
        /\ \A t \in Int : i \in RowAt(t) <=> predictions[i].at <= t /\ t < Ends(i)
    BY RowLasts
  <2>2. (i \in RowAt(b) <=> predictions[i].at <= b /\ b < Ends(i))
        /\ (i \in RowAt(b - 1) <=> predictions[i].at <= b - 1 /\ b - 1 < Ends(i))
    BY <1>1, <2>1
  <2>3. i \in samples <=> predictions[i].at < b /\ Ends(i) > b
    BY <1>1, Zenon DEF Window
  <2> DEFINE here == i \in RowAt(b)
             before == i \in RowAt(b - 1)
             in == i \in samples
  <2> HIDE DEF here, before, in
  <2>4. (here <=> predictions[i].at <= b /\ b < Ends(i)) /\ (before <=> predictions[i].at <= b - 1 /\ b - 1 < Ends(i))
        /\ (in <=> predictions[i].at < b /\ Ends(i) > b)
    BY <2>2, <2>3 DEF here, before, in
  <2>5. in <=> here /\ before
    BY <1>1, <2>1, <2>4
  <2>6. QED BY <2>5 DEF here, before, in
<1>5. samples \subseteq DOMAIN predictions /\ RowAt(b) \subseteq DOMAIN predictions
  BY <1>1, Zenon DEF Window, RowAt
<1>6. ASSUME NEW i \in samples PROVE NgBegins(samples, i) <=> predictions[i].status = "NG"
  <2>1. i \in RowAt(b) /\ i \in Nat
    BY <1>4, <1>5, RowsApart
  <2>2. i - 1 # i
    BY <2>1
  <2>3. i - 1 \notin samples
    <3>1. RowAt(b) = {i}
      BY <1>1, <2>1, OneRow
    <3>2. QED BY <1>4, <1>5, <2>2, <3>1
  <2>4. QED BY <2>3, Zenon DEF NgBegins
<1>7. CASE \E i \in samples : predictions[i].status = "NG"
  <2>1. PICK i \in samples : predictions[i].status = "NG"
    BY <1>7
  <2>2. i \in RowAt(b) /\ i \in RowAt(b - 1)
    BY <1>4, <1>5, <2>1
  <2>3. RowAt(b) = {i}
    BY <1>1, <2>2, OneRow
  <2>4. begun = {i}
    BY <1>4, <1>5, <1>6, <2>1, <2>3, Zenon
  <2>5. Onsets(n) = {b}
    BY <1>3, <2>1, <2>2
  <2>6. QED BY <2>4, <2>5, FS_Singleton DEF samples
<1>8. CASE ~\E i \in samples : predictions[i].status = "NG"
  <2>1. begun = {}
    BY <1>6, <1>8
  <2>2. Onsets(n) = {}
    BY <1>3, <1>4, <1>5, <1>8
  <2>3. QED BY <2>1, <2>2 DEF samples
<1>9. QED BY <1>7, <1>8

\* The rows with which an NG begins, and the milliseconds.
LEMMA OnsetOfRow ==
  ASSUME ScoringInv, NEW n \in DOMAIN Segments, Segments[n].expected # "none",
         ScoredFrom(Segments[n]) < Segments[n].end, NEW i \in ScoredRows(Segments[n]), NEW t \in Scored(n),
         t = Most(predictions[i].at, ScoredFrom(Segments[n]))
  PROVE  NgBegins(ScoredRows(Segments[n]), i) <=> t \in Onsets(n)
<1> DEFINE a == ScoredFrom(Segments[n])
           b == Segments[n].end
           samples == ScoredRows(Segments[n])
           at == predictions[i].at
<1>1. a \in Int /\ b \in Int /\ a < b /\ Scored(n) = a..(b - 1) /\ samples = Window(a, b)
  BY ScoredIs
<1>2. i \in DOMAIN predictions
  BY <1>1 DEF Window
<1>3. i \in Nat /\ at \in Int
  BY <1>2, RowsApart
<1>4. i \in RowAt(t)
  BY <1>1, <1>2, WindowIs
<1>5. t \in Int /\ Showed(t) = predictions[i].status
  BY <1>1, <1>4, OneRow
<1>6. t \in Onsets(n) <=> predictions[i].status = "NG" /\ (t - 1 \in Scored(n) => Showed(t - 1) # "NG")
  <2>1. Scored(n) # {}
    OBVIOUS
  <2>2. QED BY <1>5, <2>1, Zenon DEF Onsets
<1>7. CASE t - 1 \in Scored(n)
  <2>1. t = at /\ a < at
    <3> HIDE DEF a, at, b
    <3>1. t - 1 \in a..(b - 1) /\ t = Most(at, a)
      BY <1>1, <1>7 DEF a, at, b
    <3>2. QED BY <1>1, <1>3, <3>1 DEF Most
  <2>2. Showed(t - 1) = "NG"
        <=> /\ i - 1 \in DOMAIN predictions /\ predictions[i - 1].status = "NG"
            /\ predictions[i].frame_index = predictions[i - 1].frame_index + 1
    BY <1>2, <2>1, JustBefore
  <2>3. ASSUME Showed(t - 1) = "NG" PROVE i - 1 \in samples
    <3>1. i - 1 \in DOMAIN predictions /\ i - 1 < i /\ i - 1 # Len(predictions) /\ (i - 1) + 1 = i
      BY <1>2, <1>3, <2>2, <2>3, RowsApart
    <3>2. predictions[i].frame_index = predictions[i - 1].frame_index + 1
      BY <2>2, <2>3
    <3>3. Ends(i - 1) = at /\ predictions[i - 1].at < at /\ predictions[i - 1].at \in Nat
      BY <1>2, <3>1, <3>2, RowsApart DEF Ends
    <3>4. at < b
      BY <1>1, <1>2 DEF Window
    <3> HIDE DEF a, at, b, samples
    <3>5. predictions[i - 1].at < b /\ Ends(i - 1) > a
      BY <1>1, <1>3, <2>1, <3>3, <3>4
    <3>6. QED BY <1>1, <3>1, <3>5 DEF Window
  <2>4. NgBegins(samples, i) <=> predictions[i].status = "NG" /\ Showed(t - 1) # "NG"
    <3>1. samples \subseteq DOMAIN predictions
      BY <1>1, Zenon DEF Window
    <3> HIDE DEF samples
    <3>2. QED BY <2>2, <2>3, <3>1, Zenon DEF NgBegins
  <2>5. QED BY <1>6, <1>7, <2>4
<1>8. CASE t - 1 \notin Scored(n)
  <2>1. t = a /\ at <= a
    <3> HIDE DEF a, at, b
    <3>1. t \in a..(b - 1) /\ t - 1 \notin a..(b - 1) /\ t = Most(at, a)
      BY <1>1, <1>8 DEF a, at, b
    <3>2. QED BY <1>1, <1>3, <3>1 DEF Most
  <2>2. i - 1 \notin samples
    <3>1. ASSUME i - 1 \in samples PROVE FALSE
      <4>1. i - 1 \in DOMAIN predictions /\ Ends(i - 1) > a
        BY <1>1, <3>1 DEF Window
      <4>2. Ends(i - 1) <= at /\ Ends(i - 1) \in Int
        BY <1>2, <1>3, <4>1, RowLasts
      <4> HIDE DEF a, at
      <4>3. QED BY <1>1, <1>3, <2>1, <4>1, <4>2
    <3>2. QED BY <3>1
  <2>3. NgBegins(samples, i) <=> predictions[i].status = "NG"
    BY <2>2, Zenon DEF NgBegins
  <2>4. QED BY <1>6, <1>8, <2>3
<1>9. QED BY <1>7, <1>8

LEMMA OnsetOfSome ==
  ASSUME ScoringInv, NEW n \in DOMAIN Segments, Segments[n].expected # "none",
         ScoredFrom(Segments[n]) < Segments[n].end
  PROVE  Cardinality({i \in ScoredRows(Segments[n]) : NgBegins(ScoredRows(Segments[n]), i)})
         = Cardinality(Onsets(n))
<1> DEFINE a == ScoredFrom(Segments[n])
           b == Segments[n].end
           samples == ScoredRows(Segments[n])
           begun == {i \in samples : NgBegins(samples, i)}
           first(i) == Most(predictions[i].at, a)
           f == [i \in begun |-> first(i)]
<1>1. a \in Int /\ b \in Int /\ a < b /\ Scored(n) = a..(b - 1) /\ samples = Window(a, b) /\ IsFiniteSet(Scored(n))
      /\ Scored(n) \in SUBSET Int
  BY ScoredIs
<1>2. samples \subseteq DOMAIN predictions
  BY <1>1, Zenon DEF Window
<1>3. \A i \in samples : first(i) \in Scored(n) /\ i \in RowAt(first(i))
  BY <1>1, <1>2, WindowIs
<1>4. \A i \in samples : NgBegins(samples, i) <=> first(i) \in Onsets(n)
  BY <1>1, <1>3, OnsetOfRow
<1>5. Onsets(n) \subseteq Scored(n)
  <2>1. Scored(n) # {}
    BY <1>1
  <2>2. QED BY <2>1, Zenon DEF Onsets
<1>6. \A i, k \in samples : first(i) = first(k) => i = k
  <2> SUFFICES ASSUME NEW i \in samples, NEW k \in samples, first(i) = first(k) PROVE i = k
    BY Zenon
  <2>1. first(i) \in Int /\ i \in RowAt(first(i)) /\ k \in RowAt(first(i))
    BY <1>1, <1>3
  <2>2. RowAt(first(i)) = {i}
    BY <2>1, OneRow
  <2>3. QED BY <2>1, <2>2
\* A row that comes up with a millisecond of an onset begins there.
<1>7. ASSUME NEW t \in Onsets(n) PROVE \E i \in samples : first(i) = t
  <2>1. t \in Scored(n) /\ t \in Int /\ Showed(t) = "NG" /\ (t - 1 \in Scored(n) => Showed(t - 1) # "NG")
    <3>1. Scored(n) # {}
      BY <1>1
    <3>2. QED BY <1>1, <1>5, <3>1 DEF Onsets
  <2>2. PICK i \in RowAt(t) : predictions[i].status = "NG"
    BY <2>1, ShowedIs DEF ScoredStatuses
  <2>3. i \in samples
    BY <2>1, RowsScored
  <2>4. predictions[i].at <= t /\ t < Ends(i) /\ Ends(i) \in Int /\ predictions[i].at \in Int
        /\ \A u \in Int : i \in RowAt(u) <=> predictions[i].at <= u /\ u < Ends(i)
    BY <1>2, <2>1, <2>3, RowLasts
  <2>5. ASSUME t # first(i) PROVE FALSE
    <3>1. t - 1 \in Scored(n) /\ predictions[i].at <= t - 1 /\ t - 1 < Ends(i) /\ t - 1 \in Int
      <4> HIDE DEF a, b
      <4>1. t \in a..(b - 1) /\ t # Most(predictions[i].at, a)
        BY <1>1, <2>1, <2>5
      <4>2. t - 1 \in a..(b - 1) /\ predictions[i].at <= t - 1 /\ t - 1 < Ends(i) /\ t - 1 \in Int
        BY <1>1, <2>4, <4>1 DEF Most
      <4>3. QED BY <1>1, <4>2
    <3>2. i \in RowAt(t - 1)
      BY <2>4, <3>1
    <3>3. Showed(t - 1) = "NG"
      BY <2>2, <3>1, <3>2, OneRow
    <3>4. QED BY <2>1, <3>1, <3>3
  <2>6. QED BY <2>3, <2>5
<1> HIDE DEF first, samples
<1>8. f \in [begun -> Onsets(n)] /\ \A i \in begun : f[i] = first(i) /\ i \in samples
  BY <1>4
<1>9. \A t \in Onsets(n) : \E i \in begun : first(i) = t
  BY <1>4, <1>7
<1> HIDE DEF f, begun
<1>10. \A i, k \in begun : f[i] = f[k] => i = k
  BY <1>6, <1>8
<1>11. \A t \in Onsets(n) : \E i \in begun : f[i] = t
  BY <1>8, <1>9
<1>12. f \in Injection(begun, Onsets(n)) /\ f \in Surjection(begun, Onsets(n))
  BY <1>8, <1>10, <1>11 DEF Injection, Surjection, IsInjective
<1>13. IsFiniteSet(Onsets(n))
  BY <1>1, <1>5, FS_Subset
<1>14. Cardinality(begun) = Cardinality(Onsets(n))
  BY <1>12, <1>13, FS_Injection
<1>15. QED BY <1>14 DEF begun, samples

\* What a window of an error shows.
LEMMA ErrorIsShown ==
  ASSUME ScoringInv, NEW a \in Int, NEW b \in Int
  PROVE  /\ Covered(a, b) > 0 /\ Covered(a, b) >= b - a
            <=> a..(b - 1) # {} /\ \A t \in a..(b - 1) : Showed(t) # "dark"
         /\ a < b => \A i \in DOMAIN predictions : i \in Window(a, b) <=> \E t \in a..(b - 1) : i \in RowAt(t)
<1> DEFINE window == a..(b - 1)
           told == {t \in window : \E i \in Window(a, b) : i \in RowAt(t)}
<1>1. IsFiniteSet(window) /\ Cardinality(window) = Most(0, b - a)
  BY LengthOfInterval
<1>2. Covered(a, b) = Cardinality(told) /\ IsFiniteSet(told)
  <2>1. Window(a, b) \in SUBSET (DOMAIN predictions)
    BY DEF Window
  <2>2. QED BY <2>1, WithinIs DEF Covered
<1>3. CASE ~(a < b)
  <2>1. window = {} /\ told = {}
    BY <1>3
  <2>2. Covered(a, b) = 0
    BY <1>2, <2>1, FS_EmptySet
  <2>3. QED BY <1>3, <2>1, <2>2
<1>4. CASE a < b
  <2>1. \A i \in DOMAIN predictions : i \in Window(a, b) <=> \E t \in a..(b - 1) : i \in RowAt(t)
    BY <1>4, WindowIs
  <2>2. ASSUME NEW t \in window PROVE t \in told <=> Showed(t) # "dark"
    <3>1. t \in Int
      OBVIOUS
    <3>2. RowAt(t) \subseteq DOMAIN predictions
      BY Zenon DEF RowAt
    <3>3. QED BY <2>1, <3>1, <3>2, ShowedIs
  <2>3. window # {} /\ Cardinality(window) = b - a
    BY <1>1, <1>4, SMTT(40) DEF Most
  <2>4. told \subseteq window
    OBVIOUS
  <2> HIDE DEF window, told
  <2>5. Cardinality(told) \in Nat /\ Cardinality(told) <= Cardinality(window)
        /\ (Cardinality(told) = Cardinality(window) => told = window)
    BY <1>1, <2>4, FS_Subset, FS_CardinalityType
  <2>6. Cardinality(told) > 0 /\ Cardinality(told) >= b - a <=> told = window
    BY <1>4, <2>3, <2>5
  <2>7. told = window <=> window # {} /\ \A t \in window : Showed(t) # "dark"
    BY <2>2, <2>3, <2>4
  <2>8. QED BY <1>2, <2>1, <2>6, <2>7 DEF window
<1>5. QED BY <1>3, <1>4

LEMMA ScoreIsTold == ScoringInv => ScoreIsTheTime
<1> SUFFICES ASSUME ScoringInv PROVE ScoreIsTheTime
  OBVIOUS
<1>1. ASSUME NEW expectations \in SUBSET Expectations, "none" \notin expectations
      PROVE  /\ Expecting(expectations) \in SUBSET (DOMAIN Segments)
             /\ \A n \in Expecting(expectations) : Segments[n].expected # "none"
  BY <1>1 DEF Expecting
<1>2. ASSUME NEW expected \in ScoredStatuses, NEW status \in ScoredStatuses
      PROVE  Confusion(expected, status)
             = Cardinality({t \in UNION {Scored(n) : n \in Expecting({expected})} : Showed(t) = status})
  <2>1. {expected} \in SUBSET Expectations /\ "none" \notin {expected}
    BY DEF ScoredStatuses, Expectations
  <2>2. QED BY <1>1, <2>1, SumOfSegments DEF Confusion
<1>3. FalsePassTime = Cardinality({t \in UNION {Scored(n) : n \in DOMAIN Segments} :
                                      /\ t \notin UNION {Scored(n) : n \in Expecting({"PASS"})}
                                      /\ Showed(t) = "PASS"})
  <2> DEFINE E == Expecting({"READY", "IN_PROGRESS", "NG", "HOLD"})
             due == UNION {Scored(n) : n \in Expecting({"PASS"})}
             all == UNION {Scored(n) : n \in DOMAIN Segments}
  <2>1. E \in SUBSET (DOMAIN Segments) /\ \A n \in E : Segments[n].expected # "none"
    BY <1>1 DEF Expectations
  <2>2. FalsePassTime = Cardinality({t \in UNION {Scored(n) : n \in E} : Showed(t) = "PASS"})
    BY <2>1, SumOfSegments DEF FalsePassTime, ScoredStatuses
  <2>3. \A t : t \in UNION {Scored(n) : n \in E} <=> t \in all /\ t \notin due
    <3>1. \A n \in DOMAIN Segments : n \in E \/ n \in Expecting({"PASS"}) \/ Scored(n) = {}
      BY SegmentIs DEF Expecting, Expectations, Scored
    <3>2. \A n \in E : n \in DOMAIN Segments /\ n \notin Expecting({"PASS"})
      BY DEF Expecting
    <3>3. \A n \in Expecting({"PASS"}) : n \in DOMAIN Segments
      BY DEF Expecting
    <3>4. ASSUME NEW t, t \in UNION {Scored(n) : n \in E} PROVE t \in all /\ t \notin due
      <4>1. PICK n \in E : t \in Scored(n)
        BY <3>4
      <4>2. \A m \in Expecting({"PASS"}) : t \notin Scored(m)
        BY <3>2, <3>3, <4>1, ScoredApart
      <4>3. QED BY <3>2, <4>1, <4>2
    <3>5. ASSUME NEW t, t \in all, t \notin due PROVE t \in UNION {Scored(n) : n \in E}
      <4>1. PICK n \in DOMAIN Segments : t \in Scored(n)
        BY <3>5
      <4>2. n \notin Expecting({"PASS"}) /\ Scored(n) # {}
        BY <3>5, <4>1
      <4>3. QED BY <3>1, <4>1, <4>2
    <3>6. QED BY <3>4, <3>5
  <2> HIDE DEF E, due, all
  <2>4. {t \in UNION {Scored(n) : n \in E} : Showed(t) = "PASS"} = {t \in all : t \notin due /\ Showed(t) = "PASS"}
    BY <2>3, Zenon
  <2>5. QED BY <2>2, <2>4 DEF all, due
<1>4. FalseNgEpisodes = SumFunction([n \in Expecting({"IN_PROGRESS", "PASS"}) |-> Cardinality(Onsets(n))])
  <2> DEFINE E == Expecting({"IN_PROGRESS", "PASS"})
             f == [n \in E |-> Cardinality({i \in ScoredRows(Segments[n]) : NgBegins(ScoredRows(Segments[n]), i)})]
             g == [n \in E |-> Cardinality(Onsets(n))]
  <2>1. E \in SUBSET (DOMAIN Segments) /\ \A n \in E : Segments[n].expected # "none"
    BY <1>1 DEF Expectations
  <2>2. ASSUME NEW n \in E
        PROVE  Cardinality({i \in ScoredRows(Segments[n]) : NgBegins(ScoredRows(Segments[n]), i)})
               = Cardinality(Onsets(n))
    <3>1. /\ ScoredFrom(Segments[n]) \in Int /\ Segments[n].end \in Int
          /\ ScoredFrom(Segments[n]) <= Segments[n].end
      BY <2>1, ScoredIs
    <3>2. ScoredFrom(Segments[n]) = Segments[n].end \/ ScoredFrom(Segments[n]) < Segments[n].end
      BY <3>1
    <3>3. QED BY <2>1, <3>2, OnsetOfNothing, OnsetOfSome
  <2>3. f = g
    BY <2>2, Zenon
  <2>4. QED BY <2>3, Zenon DEF FalseNgEpisodes
<1>5. ASSUME NEW n \in DOMAIN ErrorEvents
      PROVE  LET e == ErrorEvents[n]
                 window == e.start..(e.end - 1)
             IN  /\ FullyCovered(e) <=> window # {} /\ \A t \in window : Showed(t) # "dark"
                 /\ FullyCovered(e) =>
                       /\ NgDetected(e) <=> \E t \in window : Showed(t) = "NG"
                       /\ CauseMatched(e) <=> \E t \in window : \E i \in RowAt(t) : predictions[i].cause
  <2> DEFINE a == ErrorEvents[n].start
             b == ErrorEvents[n].end
             window == a..(b - 1)
  <2>1. a \in Int /\ b \in Int
    BY SegmentsAssumption
  <2>2. FullyCovered(ErrorEvents[n]) <=> window # {} /\ \A t \in window : Showed(t) # "dark"
    BY <2>1, ErrorIsShown DEF FullyCovered
  <2>3. ASSUME FullyCovered(ErrorEvents[n])
        PROVE  /\ NgDetected(ErrorEvents[n]) <=> \E t \in window : Showed(t) = "NG"
               /\ CauseMatched(ErrorEvents[n]) <=> \E t \in window : \E i \in RowAt(t) : predictions[i].cause
    <3>1. a < b
      BY <2>1, <2>2, <2>3
    <3>2. \A i \in DOMAIN predictions : i \in Window(a, b) <=> \E t \in window : i \in RowAt(t)
      BY <2>1, <3>1, ErrorIsShown
    <3>3. \A t \in window : RowAt(t) \subseteq DOMAIN predictions
                            /\ (Showed(t) = "NG" <=> \E i \in RowAt(t) : predictions[i].status = "NG")
      <4>1. \A t \in window : t \in Int
        OBVIOUS
      <4>2. \A t \in window : RowAt(t) \subseteq DOMAIN predictions
        BY Zenon DEF RowAt
      <4>3. QED BY <4>1, <4>2, ShowedIs DEF ScoredStatuses
    <3>4. Window(a, b) \subseteq DOMAIN predictions
      BY Zenon DEF Window
    <3>5. /\ NgDetected(ErrorEvents[n]) <=> \E i \in Window(a, b) : predictions[i].status = "NG"
          /\ CauseMatched(ErrorEvents[n]) <=> \E i \in Window(a, b) : predictions[i].cause
      BY Zenon DEF NgDetected, CauseMatched
    <3> HIDE DEF window, a, b
    <3>6. NgDetected(ErrorEvents[n]) <=> \E t \in window : Showed(t) = "NG"
      BY <3>2, <3>3, <3>4, <3>5, Zenon
    <3>7. CauseMatched(ErrorEvents[n]) <=> \E t \in window : \E i \in RowAt(t) : predictions[i].cause
      BY <3>2, <3>3, <3>4, <3>5, Zenon
    <3>8. QED BY <3>6, <3>7
  <2>4. QED BY <2>2, <2>3
<1>6. QED BY <1>2, <1>3, <1>4, <1>5, Zenon DEF ScoreIsTheTime, ScoredStatuses

\* For any annotation, grace, frame rate and log, the score is what a look at the
\* screen in every millisecond would have found.
THEOREM ScoreIsTrue == ScoringInit /\ [][ScoringNext]_predictions => []ScoreIsTheTime
BY ScoringStarts, ScoringKept, ScoreIsTold, PTL
=============================================================================
