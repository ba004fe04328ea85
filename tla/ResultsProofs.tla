----------------------------- MODULE ResultsProofs -----------------------------
(***************************************************************************)
(* Proofs about Results, for any plans, scorers and verdicts and any       *)
(* number of verification rows: the bounds of a batch and of a matrix cell *)
(* are exact, the main score is earned, and no trial comes to count as     *)
(* passed against a verdict it already has.                                *)
(***************************************************************************)
EXTENDS Results, FiniteSetTheorems, SequenceTheorems, TLAPS

-----------------------------------------------------------------------------
(* Induction over a set of numbers, and over the subsets of a finite set.  *)

LEMMA Less == \A x, y \in Nat : <<x, y>> \in OpToRel(<, Nat) <=> x < y
BY DEF OpToRel

LEMMA NumberInduction ==
    ASSUME NEW G, 0 \in G, \A n \in Nat : n \in G => n + 1 \in G
    PROVE  Nat \subseteq G
<1>. SUFFICES ASSUME Nat \ G # {}
              PROVE  FALSE
  OBVIOUS
<1>1. PICK m \in Nat \ G : \A n \in Nat \ G : ~(<<n, m>> \in OpToRel(<, Nat))
  BY NatLessThanWellFounded, WFMin, Nat \ G \subseteq Nat
<1>2. m \in Nat /\ m # 0
  BY <1>1
<1>3. m - 1 \in Nat /\ m - 1 < m /\ (m - 1) + 1 = m
  BY <1>2
<1>4. m - 1 \in G
  BY <1>1, <1>2, <1>3, Less
<1>. QED
  BY <1>1, <1>3, <1>4

\* What a fold over s takes first.
First(s) == CHOOSE x \in s : TRUE

\* Induction along the fold: a set is good if it is when its first element is taken away.
LEMMA SubsetInduction ==
    ASSUME NEW D, IsFiniteSet(D), NEW G, {} \in G,
           \A s \in SUBSET D : s # {} /\ s \ {First(s)} \in G => s \in G
    PROVE  SUBSET D \subseteq G
<1>. DEFINE H == {n \in Nat : \A s \in SUBSET D : Cardinality(s) = n => s \in G}
<1>1. \A s \in SUBSET D : IsFiniteSet(s) /\ Cardinality(s) \in Nat
  BY FS_Subset, FS_CardinalityType
<1>2. 0 \in H
  BY <1>1, FS_EmptySet
<1>3. ASSUME NEW n \in Nat, n \in H
      PROVE  n + 1 \in H
  <2>. SUFFICES ASSUME NEW s \in SUBSET D, Cardinality(s) = n + 1
                PROVE  s \in G
    OBVIOUS
  <2>1. s # {}
    <3>1. n + 1 # 0
      OBVIOUS
    <3>. QED
      BY <3>1, FS_EmptySet
  <2>2. First(s) \in s
    BY <2>1 DEF First
  <2>3. Cardinality(s \ {First(s)}) = n
    BY <1>1, <2>2, FS_RemoveElement
  <2>4. s \ {First(s)} \in G
    BY <1>3, <2>3
  <2>. QED
    BY <2>1, <2>4
<1>. HIDE DEF H
<1>4. Nat \subseteq H
  BY <1>2, <1>3, NumberInduction
<1>. QED
  BY <1>1, <1>4 DEF H

\* A set of row numbers that is not empty has a last one.
LEMMA MaxIsLast ==
    ASSUME NEW n \in Nat, NEW S \in SUBSET (1..n), S # {}
    PROVE  Max(S) \in S /\ \A i \in S : i <= Max(S)
<1>. DEFINE G == {m \in Nat : \A T \in SUBSET (1..m) : T # {} => \E x \in T : \A y \in T : x >= y}
<1>1. 0 \in G
  <2>1. \A T \in SUBSET (1..0) : T = {}
    OBVIOUS
  <2>. QED
    BY <2>1
<1>2. ASSUME NEW m \in Nat, m \in G
      PROVE  m + 1 \in G
  <2>. SUFFICES ASSUME NEW T \in SUBSET (1..(m + 1)), T # {}
                PROVE  \E x \in T : \A y \in T : x >= y
    OBVIOUS
  <2>1. CASE m + 1 \in T
    BY <2>1
  <2>2. CASE m + 1 \notin T
    <3>1. T \in SUBSET (1..m)
      BY <2>2
    <3>. QED
      BY <1>2, <3>1
  <2>. QED
    BY <2>1, <2>2
<1>. HIDE DEF G
<1>3. n \in G
  BY <1>1, <1>2, NumberInduction
<1>4. \E x \in S : \A y \in S : x >= y
  BY <1>3 DEF G
<1>5. Max(S) \in S /\ \A y \in S : Max(S) >= y
  BY <1>4 DEF Max
<1>. QED
  BY <1>5

-----------------------------------------------------------------------------
(* Sums.                                                                   *)

\* One step of the sum of v over s, from what f says of smaller sets.
Step(v, f, s) == IF s = {} THEN 0 ELSE v[First(s)] + f[s \ {First(s)}]

\* The sums of v over all subsets of S.
Sums(v, S) == CHOOSE f : f = [s \in SUBSET S |-> Step(v, f, s)]

LEMMA SumIs ==
    ASSUME NEW v
    PROVE  Sum(v) = Sums(v, DOMAIN v)[DOMAIN v]
BY DEF Sum, MapThenSumSet, MapThenFoldSet, Sums, Step, First

\* There are such sums for a finite set.
LEMMA SumsExist ==
    ASSUME NEW v, NEW S, IsFiniteSet(S)
    PROVE  \A s \in SUBSET S : Sums(v, S)[s] = Step(v, Sums(v, S), s)
<1>. DEFINE Small(n) == {s \in SUBSET S : Cardinality(s) <= n}
            G == {n \in Nat : \E f : f = [s \in Small(n) |-> Step(v, f, s)]}
<1>0. \A s \in SUBSET S : /\ IsFiniteSet(s) /\ Cardinality(s) \in Nat
                          /\ Cardinality(s) <= Cardinality(S)
  BY FS_Subset, FS_CardinalityType
<1>1. 0 \in G
  <2>1. \A s \in Small(0) : s = {}
    BY <1>0, FS_EmptySet
  <2>2. PICK f : f = [s \in Small(0) |-> 0]
    OBVIOUS
  <2>3. \A s \in Small(0) : Step(v, f, s) = 0
    BY <2>1 DEF Step
  <2>4. [s \in Small(0) |-> 0] = [s \in Small(0) |-> Step(v, f, s)]
    BY <2>3
  <2>. QED
    BY <2>2, <2>4
<1>2. ASSUME NEW n \in Nat, n \in G
      PROVE  n + 1 \in G
  <2>1. PICK f : f = [s \in Small(n) |-> Step(v, f, s)]
    BY <1>2
  <2>2. PICK g : g = [s \in Small(n + 1) |-> Step(v, f, s)]
    OBVIOUS
  <2>3. \A s \in Small(n) : s \in Small(n + 1) /\ g[s] = f[s]
    BY <1>0, <2>1, <2>2
  <2>4. ASSUME NEW s \in Small(n + 1)
        PROVE  Step(v, f, s) = Step(v, g, s)
    <3>1. CASE s = {}
      BY <3>1 DEF Step
    <3>2. CASE s # {}
      <4>1. First(s) \in s
        BY <3>2 DEF First
      <4>2. Cardinality(s \ {First(s)}) = Cardinality(s) - 1
        BY <1>0, <4>1, FS_RemoveElement
      <4>3. s \ {First(s)} \in Small(n)
        BY <1>0, <4>2
      <4>. QED
        BY <2>3, <4>3 DEF Step
    <3>. QED
      BY <3>1, <3>2
  <2>5. g = [s \in Small(n + 1) |-> Step(v, g, s)]
    BY <2>2, <2>4
  <2>. QED
    BY <2>5
<1>. HIDE DEF G
<1>3. Cardinality(S) \in G
  BY <1>1, <1>2, NumberInduction, FS_CardinalityType
<1>4. Small(Cardinality(S)) = SUBSET S
  BY <1>0
<1>5. \E f : f = [s \in SUBSET S |-> Step(v, f, s)]
  BY <1>3, <1>4 DEF G
<1>6. Sums(v, S) = [s \in SUBSET S |-> Step(v, Sums(v, S), s)]
  BY <1>5 DEF Sums
<1>. QED
  BY <1>6

LEMMA SumStep ==
    ASSUME NEW v, NEW S, IsFiniteSet(S), NEW s \in SUBSET S, s # {}
    PROVE  /\ First(s) \in s /\ s \ {First(s)} \in SUBSET S
           /\ Sums(v, S)[s] = v[First(s)] + Sums(v, S)[s \ {First(s)}]
<1>1. Sums(v, S)[s] = Step(v, Sums(v, S), s)
  BY SumsExist
<1>2. First(s) \in s
  BY DEF First
<1>. QED
  BY <1>1, <1>2 DEF Step

LEMMA SumOfNothing ==
    ASSUME NEW v, NEW S, IsFiniteSet(S)
    PROVE  Sums(v, S)[{}] = 0
<1>1. Sums(v, S)[{}] = Step(v, Sums(v, S), {})
  BY SumsExist
<1>. QED
  BY <1>1 DEF Step

\* A sum of larger numbers is larger.
LEMMA SumIsMonotone ==
    ASSUME NEW S, IsFiniteSet(S), NEW v \in [S -> Nat], NEW w \in [S -> Nat],
           \A x \in S : v[x] <= w[x]
    PROVE  Sum(v) \in Nat /\ Sum(w) \in Nat /\ Sum(v) <= Sum(w)
<1>. DEFINE f == Sums(v, S)
            g == Sums(w, S)
            G == {s \in SUBSET S : f[s] \in Nat /\ g[s] \in Nat /\ f[s] <= g[s]}
<1>1. {} \in G
  BY SumOfNothing
<1>2. ASSUME NEW s \in SUBSET S, s # {}, s \ {First(s)} \in G
      PROVE  s \in G
  <2>1. /\ First(s) \in S
        /\ f[s] = v[First(s)] + f[s \ {First(s)}]
        /\ g[s] = w[First(s)] + g[s \ {First(s)}]
    BY <1>2, SumStep
  <2>2. /\ f[s \ {First(s)}] \in Nat /\ g[s \ {First(s)}] \in Nat
        /\ f[s \ {First(s)}] <= g[s \ {First(s)}]
    BY <1>2
  <2>. HIDE DEF f, g
  <2>3. f[s] \in Nat /\ g[s] \in Nat /\ f[s] <= g[s]
    BY <2>1, <2>2
  <2>. QED
    BY <2>3
<1>3. S \in G
  <2>. HIDE DEF G
  <2>. QED
    BY <1>1, <1>2, SubsetInduction
<1>4. Sum(v) = f[S] /\ Sum(w) = g[S]
  BY SumIs
<1>. QED
  BY <1>3, <1>4

\* Counting disjoint sets one by one counts their union.
LEMMA SumOfSizes ==
    ASSUME NEW S, IsFiniteSet(S), NEW U, IsFiniteSet(U), NEW A \in [S -> SUBSET U],
           \A x, y \in S : x # y => A[x] \cap A[y] = {}
    PROVE  Sum([x \in S |-> Count(A[x])]) = Count(UNION {A[x] : x \in S})
<1>. PICK v : v = [x \in S |-> Count(A[x])]
  OBVIOUS
<1>. DEFINE f == Sums(v, S)
            all(s) == UNION {A[x] : x \in s}
            G == {s \in SUBSET S : f[s] = Cardinality(all(s))}
<1>1. {} \in G
  <2>1. all({}) = {}
    OBVIOUS
  <2>. QED
    BY <2>1, SumOfNothing, FS_EmptySet
<1>2. ASSUME NEW s \in SUBSET S, s # {}, s \ {First(s)} \in G
      PROVE  s \in G
  <2>1. PICK x \in s : x = First(s)
    BY <1>2 DEF First
  <2>9. f[s] = v[First(s)] + f[s \ {First(s)}]
    BY <1>2, SumStep
  <2>2. f[s] = v[x] + f[s \ {x}]
    BY <2>1, <2>9
  <2>3. f[s \ {x}] = Cardinality(all(s \ {x})) /\ v[x] = Cardinality(A[x])
    BY <1>2, <2>1 DEF Count
  <2>4. all(s) = A[x] \cup all(s \ {x}) /\ A[x] \cap all(s \ {x}) = {}
    OBVIOUS
  <2>5. A[x] \in SUBSET U /\ all(s \ {x}) \in SUBSET U
    OBVIOUS
  <2>6. /\ IsFiniteSet(A[x]) /\ IsFiniteSet(all(s \ {x}))
        /\ Cardinality(A[x]) \in Nat /\ Cardinality(all(s \ {x})) \in Nat
    BY <2>5, FS_Subset, FS_CardinalityType
  <2>. HIDE DEF all, f
  <2>7. Cardinality(all(s)) = Cardinality(A[x]) + Cardinality(all(s \ {x}))
    <3>1. PICK a : a = A[x]
      OBVIOUS
    <3>2. PICK b : b = all(s \ {x})
      OBVIOUS
    <3>3. IsFiniteSet(a) /\ IsFiniteSet(b) /\ a \cap b = {}
      BY <2>4, <2>6, <3>1, <3>2
    <3>4. Cardinality(a \cup b) = Cardinality(a) + Cardinality(b) - Cardinality(a \cap b)
      BY <3>3, FS_Union
    <3>5. Cardinality(a \cap b) = 0
      BY <3>3, FS_EmptySet
    <3>6. Cardinality(a) \in Nat /\ Cardinality(b) \in Nat
      BY <2>6, <3>1, <3>2
    <3>7. Cardinality(a \cup b) = Cardinality(a) + Cardinality(b)
      BY <3>4, <3>5, <3>6
    <3>8. all(s) = a \cup b
      BY <2>4, <3>1, <3>2
    <3>. QED
      BY <3>1, <3>2, <3>7, <3>8
  <2>8. f[s] = Cardinality(all(s))
    BY <2>2, <2>3, <2>7
  <2>. QED
    BY <2>8
<1>3. S \in G
  <2>. HIDE DEF G
  <2>. QED
    BY <1>1, <1>2, SubsetInduction
<1>4. Sum(v) = f[S]
  BY SumIs
<1>. QED
  BY <1>3, <1>4 DEF Count

\* A quotient grows with its numerator.
LEMMA QuotientIsMonotone ==
    ASSUME NEW a \in Nat, NEW b \in Nat, NEW c \in Nat \ {0}, a <= b
    PROVE  a \div c \in Nat /\ b \div c \in Nat /\ a \div c <= b \div c
OBVIOUS

LEMMA RateIsMonotone ==
    ASSUME NEW a \in Nat, NEW b \in Nat, NEW c \in Nat \ {0}, a <= b
    PROVE  Rate(a, c) \in Nat /\ Rate(b, c) \in Nat /\ Rate(a, c) <= Rate(b, c)
<1>1. a * Unit \in Nat /\ b * Unit \in Nat /\ a * Unit <= b * Unit
  BY ResultsAssumption
<1>. QED
  BY <1>1, QuotientIsMonotone DEF Rate

-----------------------------------------------------------------------------
(* The trials of a batch and its tasks.                                    *)

\* The values of a function on a finite set are finitely many.
LEMMA ImageIsFinite ==
    ASSUME NEW S, IsFiniteSet(S), NEW f, DOMAIN f = S
    PROVE  IsFiniteSet({f[x] : x \in S})
<1>. DEFINE T == {f[x] : x \in S}
<1>1. PICK g : g = [x \in S |-> f[x]]
  OBVIOUS
<1>2. g \in [S -> T] /\ \A y \in T : \E x \in S : g[x] = y
  BY <1>1
<1>3. g \in Surjection(S, T)
  BY <1>2 DEF Surjection
<1>. QED
  BY <1>3, FS_Surjection

\* The smallest and the largest of a set of numbers, once they are known.
LEMMA MinIs ==
    ASSUME NEW S \in SUBSET Nat, NEW m \in S, \A x \in S : m <= x
    PROVE  m = Min(S)
<1>1. Min(S) \in S /\ \A x \in S : Min(S) <= x
  BY DEF Min
<1>2. m <= Min(S) /\ Min(S) <= m
  BY <1>1
<1>3. m \in Nat /\ Min(S) \in Nat
  BY <1>1
<1>. QED
  BY <1>2, <1>3

LEMMA MaxIs ==
    ASSUME NEW S \in SUBSET Nat, NEW m \in S, \A x \in S : x <= m
    PROVE  m = Max(S)
<1>1. Max(S) \in S /\ \A x \in S : Max(S) >= x
  BY DEF Max
<1>2. m >= Max(S) /\ Max(S) >= m
  BY <1>1
<1>3. m \in Nat /\ Max(S) \in Nat
  BY <1>1
<1>. QED
  BY <1>2, <1>3

\* The trials of a task can be counted, and so can the tasks.
LEMMA SizeType ==
    ASSUME NEW S \in SUBSET Trial
    PROVE  IsFiniteSet(S) /\ Count(S) \in Nat /\ (S # {} => Count(S) # 0)
<1>1. IsFiniteSet(S)
  BY FS_Subset, ResultsAssumption
<1>. QED
  BY <1>1, FS_CardinalityType, FS_EmptySet DEF Count

LEMMA TasksFinite ==
    ASSUME NEW T \in SUBSET Trial
    PROVE  IsFiniteSet(Tasks(T))
<1>1. PICK f : f = [t \in T |-> plan[t].task]
  OBVIOUS
<1>2. IsFiniteSet(T)
  BY SizeType
<1>3. Tasks(T) = {f[t] : t \in T}
  BY <1>1 DEF Tasks
<1>. QED
  BY <1>1, <1>2, <1>3, ImageIsFinite

LEMMA TaskSize ==
    ASSUME NEW T \in SUBSET Trial, NEW k \in Tasks(T)
    PROVE  OfTask(T, k) \in SUBSET T /\ Count(OfTask(T, k)) \in Nat \ {0}
<1>1. OfTask(T, k) \in SUBSET T /\ OfTask(T, k) # {}
  BY DEF OfTask, Tasks
<1>. QED
  BY <1>1, SizeType

\* The verdicts of a scorer: what passed is valid, and what is not valid is unknown.
LEMMA VerdictsOf ==
    ASSUME NEW T \in SUBSET Trial, NEW pick
    PROVE  /\ Passes(T, pick) \in SUBSET Valid(T, pick)
           /\ Valid(T, pick) \in SUBSET T
           /\ Outcomes(T, pick) \subseteq SUBSET T
           /\ \A passing \in Outcomes(T, pick) :
                 /\ Passes(T, pick) \subseteq passing
                 /\ passing \subseteq Passes(T, pick) \cup (T \ Valid(T, pick))
           /\ Passes(T, pick) \in Outcomes(T, pick)
           /\ Passes(T, pick) \cup (T \ Valid(T, pick)) \in Outcomes(T, pick)
<1>1. Passes(T, pick) \in SUBSET Valid(T, pick) /\ Valid(T, pick) \in SUBSET T
  BY DEF Passes, Valid, Passed
<1>2. Passes(T, pick) = Passes(T, pick) \cup {}
  OBVIOUS
<1>. QED
  BY <1>1, <1>2 DEF Outcomes

\* What passed or may still pass is counted by _task_point's upper bound.
LEMMA UpperCounts ==
    ASSUME NEW T \in SUBSET Trial, NEW P \in SUBSET T, NEW V \in SUBSET T, P \subseteq V
    PROVE  Count(P) + (Count(T) - Count(V)) = Count(P \cup (T \ V))
<1>1. PICK rest : rest = T \ V
  OBVIOUS
<1>2. /\ IsFiniteSet(T) /\ IsFiniteSet(P) /\ IsFiniteSet(V) /\ IsFiniteSet(rest)
      /\ Count(T) \in Nat /\ Count(P) \in Nat /\ Count(V) \in Nat /\ Count(rest) \in Nat
  BY <1>1, SizeType
<1>3. P \cap rest = {} /\ T \cap V = V
  BY <1>1
<1>4. Count(rest) = Count(T) - Count(V)
  BY <1>1, <1>2, <1>3, FS_Difference DEF Count
<1>5. Count(P \cup rest) = Count(P) + Count(rest) - Cardinality(P \cap rest)
  BY <1>2, FS_Union DEF Count
<1>6. Cardinality(P \cap rest) = 0
  BY <1>3, FS_EmptySet
<1>7. Count(P \cup rest) = Count(P) + Count(rest)
  BY <1>2, <1>5, <1>6
<1>. QED
  BY <1>1, <1>2, <1>4, <1>7

LEMMA CountIsMonotone ==
    ASSUME NEW T \in SUBSET Trial, NEW P \in SUBSET T
    PROVE  Count(P) \in Nat /\ Count(T) \in Nat /\ Count(P) <= Count(T)
BY SizeType, FS_Subset DEF Count

-----------------------------------------------------------------------------
(* The bounds of a point.                                                  *)

\* A mean of larger numbers is larger.
LEMMA MeanIsMonotone ==
    ASSUME NEW S, IsFiniteSet(S), S # {}, NEW v \in [S -> Nat], NEW w \in [S -> Nat],
           \A x \in S : v[x] <= w[x]
    PROVE  Mean(v) \in Nat /\ Mean(w) \in Nat /\ Mean(v) <= Mean(w)
<1>1. Sum(v) \in Nat /\ Sum(w) \in Nat /\ Sum(v) <= Sum(w)
  BY SumIsMonotone
<1>2. Count(S) \in Nat \ {0}
  BY FS_CardinalityType, FS_EmptySet DEF Count
<1>3. Mean(v) = Sum(v) \div Count(S) /\ Mean(w) = Sum(w) \div Count(S)
  BY DEF Mean
<1>. QED
  BY <1>1, <1>2, <1>3, QuotientIsMonotone

\* More passes never make a batch worse.
LEMMA ScoreIsMonotone ==
    ASSUME NEW T \in SUBSET Trial, T # {}, NEW P \in SUBSET T, NEW Q \in SUBSET T,
           P \subseteq Q
    PROVE  ScoreIf(T, P) \in Nat /\ ScoreIf(T, Q) \in Nat /\ ScoreIf(T, P) <= ScoreIf(T, Q)
<1>. DEFINE score(X) == [k \in Tasks(T) |-> Rate(Count(OfTask(X, k)), Count(OfTask(T, k)))]
<1>1. ASSUME NEW k \in Tasks(T)
      PROVE  score(P)[k] \in Nat /\ score(Q)[k] \in Nat /\ score(P)[k] <= score(Q)[k]
  <2>1. OfTask(P, k) \in SUBSET OfTask(Q, k) /\ OfTask(Q, k) \in SUBSET Trial
    BY DEF OfTask
  <2>2. /\ Count(OfTask(P, k)) \in Nat /\ Count(OfTask(Q, k)) \in Nat
        /\ Count(OfTask(P, k)) <= Count(OfTask(Q, k))
    BY <2>1, CountIsMonotone
  <2>. QED
    BY <2>2, TaskSize, RateIsMonotone
<1>2. PICK v : v = score(P)
  OBVIOUS
<1>3. PICK w : w = score(Q)
  OBVIOUS
<1>4. v \in [Tasks(T) -> Nat] /\ w \in [Tasks(T) -> Nat] /\ \A k \in Tasks(T) : v[k] <= w[k]
  BY <1>1, <1>2, <1>3
<1>5. IsFiniteSet(Tasks(T)) /\ Tasks(T) # {}
  BY TasksFinite DEF Tasks
<1>6. Mean(v) \in Nat /\ Mean(w) \in Nat /\ Mean(v) <= Mean(w)
  BY <1>4, <1>5, MeanIsMonotone
<1>. QED
  BY <1>2, <1>3, <1>6 DEF ScoreIf

\* The bounds of _batch_point are scores: of what passed, and of what passed or may.
LEMMA BoundsAreScores ==
    ASSUME NEW T \in SUBSET Trial, NEW pick
    PROVE  /\ BatchPoint(T, pick).lower = ScoreIf(T, Passes(T, pick))
           /\ BatchPoint(T, pick).upper
                = ScoreIf(T, Passes(T, pick) \cup (T \ Valid(T, pick)))
<1>. DEFINE upper == Passes(T, pick) \cup (T \ Valid(T, pick))
<1>1. ASSUME NEW k \in Tasks(T)
      PROVE  /\ TaskPoint(OfTask(T, k), pick).lower
                  = Rate(Count(OfTask(Passes(T, pick), k)), Count(OfTask(T, k)))
             /\ TaskPoint(OfTask(T, k), pick).upper
                  = Rate(Count(OfTask(upper, k)), Count(OfTask(T, k)))
  <2>1. PICK U \in SUBSET Trial : U = OfTask(T, k)
    BY TaskSize
  <2>2. Passes(U, pick) \in SUBSET Valid(U, pick) /\ Valid(U, pick) \in SUBSET U
    BY VerdictsOf
  <2>3. Count(Passes(U, pick)) + (Count(U) - Count(Valid(U, pick)))
          = Count(Passes(U, pick) \cup (U \ Valid(U, pick)))
    BY <2>2, UpperCounts
  <2>4. Passes(U, pick) = OfTask(Passes(T, pick), k)
    BY <2>1 DEF Passes, OfTask
  <2>5. Passes(U, pick) \cup (U \ Valid(U, pick)) = OfTask(upper, k)
    BY <2>1 DEF Passes, Valid, OfTask
  <2>6. /\ TaskPoint(U, pick).lower = Rate(Count(Passes(U, pick)), Count(U))
        /\ TaskPoint(U, pick).upper
             = Rate(Count(Passes(U, pick)) + (Count(U) - Count(Valid(U, pick))), Count(U))
    BY DEF TaskPoint
  <2>. QED
    BY <2>1, <2>3, <2>4, <2>5, <2>6
<1>2. [k \in Tasks(T) |-> TaskPoint(OfTask(T, k), pick).lower]
        = [k \in Tasks(T) |-> Rate(Count(OfTask(Passes(T, pick), k)), Count(OfTask(T, k)))]
  BY <1>1
<1>3. [k \in Tasks(T) |-> TaskPoint(OfTask(T, k), pick).upper]
        = [k \in Tasks(T) |-> Rate(Count(OfTask(upper, k)), Count(OfTask(T, k)))]
  BY <1>1
<1>. HIDE DEF upper
<1>4. BatchPoint(T, pick).lower = ScoreIf(T, Passes(T, pick))
  BY <1>2 DEF BatchPoint, ScoreIf
<1>5. BatchPoint(T, pick).upper = ScoreIf(T, upper)
  BY <1>3 DEF BatchPoint, ScoreIf
<1>. QED
  BY <1>4, <1>5 DEF upper

\* The trials of a point are all the trials of a batch, at least one.
LEMMA PointTrials ==
    ASSUME NEW pick \in Points
    PROVE  DOMAIN pick \in SUBSET Trial /\ DOMAIN pick # {}
<1>1. PICK b \in Batch : pick \in Raw(b) \cup TaskDefaults(b)
  BY DEF Points
<1>2. DOMAIN pick = Planned(b)
  BY <1>1 DEF Raw, TaskDefaults, Choice, Pinned
<1>. QED
  BY <1>2 DEF Planned, Batch

LEMMA BoundsOfAPoint ==
    ASSUME NEW T \in SUBSET Trial, T # {}, NEW pick
    PROVE  LET scores == {ScoreIf(T, passing) : passing \in Outcomes(T, pick)}
           IN /\ BatchPoint(T, pick).lower = Min(scores)
              /\ BatchPoint(T, pick).upper = Max(scores)
<1>. DEFINE least == Passes(T, pick)
            most == Passes(T, pick) \cup (T \ Valid(T, pick))
<1>1. PICK scores : scores = {ScoreIf(T, passing) : passing \in Outcomes(T, pick)}
  OBVIOUS
<1>2. least \in SUBSET T /\ most \in SUBSET T
  BY VerdictsOf
<1>3. ASSUME NEW passing \in Outcomes(T, pick)
      PROVE  /\ ScoreIf(T, passing) \in Nat
             /\ ScoreIf(T, least) <= ScoreIf(T, passing)
             /\ ScoreIf(T, passing) <= ScoreIf(T, most)
  <2>1. passing \in SUBSET T /\ least \subseteq passing /\ passing \subseteq most
    BY VerdictsOf
  <2>. HIDE DEF least, most
  <2>. QED
    BY <1>2, <2>1, ScoreIsMonotone
<1>0. least \in Outcomes(T, pick) /\ most \in Outcomes(T, pick)
  BY VerdictsOf
<1>. HIDE DEF least, most
<1>4. scores \in SUBSET Nat /\ ScoreIf(T, least) \in scores /\ ScoreIf(T, most) \in scores
  BY <1>0, <1>1, <1>3
<1>5. \A x \in scores : ScoreIf(T, least) <= x /\ x <= ScoreIf(T, most)
  BY <1>1, <1>3
<1>6. ScoreIf(T, least) = Min(scores) /\ ScoreIf(T, most) = Max(scores)
  BY <1>4, <1>5, MinIs, MaxIs
<1>. QED
  BY <1>1, <1>6, BoundsAreScores DEF least, most

\* "Missing bounds": whatever the verdicts of the trials that have none turn out to be, the
\* score of the batch lies within the bounds of _batch_point, and both can come true.
THEOREM MissingBounds == Spec => []BoundsAreTight
<1>1. BoundsAreTight
  <2>. SUFFICES ASSUME NEW pick \in Points
                PROVE  LET T == DOMAIN pick
                           scores == {ScoreIf(T, passing) : passing \in Outcomes(T, pick)}
                           point == BatchPoint(T, pick)
                       IN point.lower = Min(scores) /\ point.upper = Max(scores)
    BY DEF BoundsAreTight
  <2>. QED
    BY PointTrials, BoundsOfAPoint
<1>. QED
  BY <1>1, PTL

-----------------------------------------------------------------------------
(* The cells of the matrix.                                                *)

\* The batches shown under a scorer.
Shown(s) == UNION {Unified(b, s) : b \in Batch}

\* Each of them asks for that scorer, and no trial is of two of them.
LEMMA ShownBatches ==
    ASSUME NEW s \in Scorer
    PROVE  /\ IsFiniteSet(Shown(s))
           /\ \A pick \in Shown(s) :
                 /\ DOMAIN pick \in SUBSET Trial
                 /\ \A t \in DOMAIN pick : pick[t] = s
           /\ \A x, y \in Shown(s) : x # y => DOMAIN x \cap DOMAIN y = {}
<1>1. \A pick \in Shown(s) : \E b \in Batch : pick = Choice(b, s)
  BY DEF Shown, Unified
<1>2. \A b : DOMAIN Choice(b, s) = Planned(b) /\ \A t \in Planned(b) : Choice(b, s)[t] = s
  BY DEF Choice
<1>3. \A b, c : b # c => Planned(b) \cap Planned(c) = {}
  BY DEF Planned
<1>4. IsFiniteSet(Shown(s))
  <2>1. PICK batch : batch = [t \in Trial |-> plan[t].batch]
    OBVIOUS
  <2>2. IsFiniteSet(Batch)
    <3>1. Batch = {batch[t] : t \in Trial}
      BY <2>1 DEF Batch
    <3>. QED
      BY <2>1, <3>1, ImageIsFinite, ResultsAssumption
  <2>3. PICK choice : choice = [b \in Batch |-> Choice(b, s)]
    OBVIOUS
  <2>4. IsFiniteSet({choice[b] : b \in Batch})
    BY <2>2, <2>3, ImageIsFinite
  <2>5. Shown(s) \in SUBSET {choice[b] : b \in Batch}
    BY <1>1, <2>3
  <2>. QED
    BY <2>4, <2>5, FS_Subset
<1>5. ASSUME NEW x \in Shown(s), NEW y \in Shown(s), x # y
      PROVE  DOMAIN x \cap DOMAIN y = {}
  <2>1. PICK b \in Batch : x = Choice(b, s)
    BY <1>1
  <2>2. PICK c \in Batch : y = Choice(c, s)
    BY <1>1
  <2>. QED
    BY <1>2, <1>3, <1>5, <2>1, <2>2
<1>6. ASSUME NEW pick \in Shown(s)
      PROVE  DOMAIN pick \in SUBSET Trial /\ \A t \in DOMAIN pick : pick[t] = s
  <2>1. PICK b \in Batch : pick = Choice(b, s)
    BY <1>1
  <2>. QED
    BY <1>2, <2>1 DEF Planned
<1>. QED
  BY <1>4, <1>5, <1>6

\* Counting a part of each batch's trials counts the union of the parts.
LEMMA PoolCounts ==
    ASSUME NEW s \in Scorer, NEW A, DOMAIN A = Shown(s),
           \A pick \in Shown(s) : A[pick] \subseteq DOMAIN pick
    PROVE  Sum([pick \in Shown(s) |-> Count(A[pick])])
             = Count(UNION {A[pick] : pick \in Shown(s)})
<1>1. \A x, y \in Shown(s) : x # y => A[x] \cap A[y] = {}
  BY ShownBatches
<1>2. PICK B : B = [pick \in Shown(s) |-> A[pick]]
  OBVIOUS
<1>3. B \in [Shown(s) -> SUBSET Trial] /\ \A pick \in Shown(s) : B[pick] = A[pick]
  BY <1>2, ShownBatches
<1>4. Sum([pick \in Shown(s) |-> Count(B[pick])])
        = Count(UNION {B[pick] : pick \in Shown(s)})
  BY <1>1, <1>3, ShownBatches, ResultsAssumption, SumOfSizes
<1>5. [pick \in Shown(s) |-> Count(B[pick])] = [pick \in Shown(s) |-> Count(A[pick])]
  BY <1>3
<1>6. UNION {B[pick] : pick \in Shown(s)} = UNION {A[pick] : pick \in Shown(s)}
  BY <1>3
<1>. QED
  BY <1>4, <1>5, <1>6

\* The trials that a cell pools.
Pooled(k, s) == UNION {OfTask(DOMAIN pick, k) : pick \in Shown(s)}

\* _matrix computes the rates of the pooled trials.
LEMMA CellCounts ==
    ASSUME NEW s \in Scorer, NEW k
    PROVE  LET T == Pooled(k, s)
               pick == [t \in T |-> s]
           IN /\ Cell(k, Shown(s)).lower = Rate(Count(Passes(T, pick)), Count(T))
              /\ Cell(k, Shown(s)).upper
                   = Rate(Count(Passes(T, pick) \cup (T \ Valid(T, pick))), Count(T))
<1>. DEFINE U(p) == OfTask(DOMAIN p, k)
<1>1. PICK T : T = Pooled(k, s)
  OBVIOUS
<1>2. PICK pick : pick = [t \in T |-> s]
  OBVIOUS
<1>3. \A p \in Shown(s) : U(p) \subseteq DOMAIN p /\ \A t \in U(p) : p[t] = s /\ pick[t] = s
  <2>1. \A p \in Shown(s) : U(p) \subseteq DOMAIN p /\ U(p) \subseteq T
    BY <1>1 DEF Pooled, OfTask
  <2>. QED
    BY <1>2, <2>1, ShownBatches
<1>4. PICK A : A = [p \in Shown(s) |-> U(p)]
  OBVIOUS
<1>5. PICK P : P = [p \in Shown(s) |-> Passes(U(p), p)]
  OBVIOUS
<1>6. PICK V : V = [p \in Shown(s) |-> Valid(U(p), p)]
  OBVIOUS
<1>7. Sum([p \in Shown(s) |-> Count(U(p))]) = Count(T)
  <2>1. UNION {A[p] : p \in Shown(s)} = T
    BY <1>1, <1>4 DEF Pooled
  <2>2. \A p \in Shown(s) : A[p] \subseteq DOMAIN p /\ A[p] = U(p)
    BY <1>3, <1>4
  <2>3. Sum([p \in Shown(s) |-> Count(A[p])]) = Count(T)
    BY <1>4, <2>1, <2>2, PoolCounts
  <2>4. [p \in Shown(s) |-> Count(A[p])] = [p \in Shown(s) |-> Count(U(p))]
    BY <2>2
  <2>. QED
    BY <2>3, <2>4
<1>8. Sum([p \in Shown(s) |-> Count(Passes(U(p), p))]) = Count(Passes(T, pick))
  <2>1. UNION {P[p] : p \in Shown(s)} = Passes(T, pick)
    BY <1>1, <1>3, <1>5 DEF Pooled, Passes
  <2>2. \A p \in Shown(s) : P[p] \subseteq DOMAIN p /\ P[p] = Passes(U(p), p)
    BY <1>3, <1>5 DEF Passes
  <2>3. Sum([p \in Shown(s) |-> Count(P[p])]) = Count(Passes(T, pick))
    BY <1>5, <2>1, <2>2, PoolCounts
  <2>4. [p \in Shown(s) |-> Count(P[p])] = [p \in Shown(s) |-> Count(Passes(U(p), p))]
    BY <2>2
  <2>. QED
    BY <2>3, <2>4
<1>9. Sum([p \in Shown(s) |-> Count(Valid(U(p), p))]) = Count(Valid(T, pick))
  <2>1. UNION {V[p] : p \in Shown(s)} = Valid(T, pick)
    BY <1>1, <1>3, <1>6 DEF Pooled, Valid
  <2>2. \A p \in Shown(s) : V[p] \subseteq DOMAIN p /\ V[p] = Valid(U(p), p)
    BY <1>3, <1>6 DEF Valid
  <2>3. Sum([p \in Shown(s) |-> Count(V[p])]) = Count(Valid(T, pick))
    BY <1>6, <2>1, <2>2, PoolCounts
  <2>4. [p \in Shown(s) |-> Count(V[p])] = [p \in Shown(s) |-> Count(Valid(U(p), p))]
    BY <2>2
  <2>. QED
    BY <2>3, <2>4
<1>10. T \in SUBSET Trial
  BY <1>1, ShownBatches DEF Pooled, OfTask
<1>11. Count(Passes(T, pick)) + (Count(T) - Count(Valid(T, pick)))
         = Count(Passes(T, pick) \cup (T \ Valid(T, pick)))
  BY <1>10, VerdictsOf, UpperCounts
<1>12. /\ Cell(k, Shown(s)).lower = Rate(Count(Passes(T, pick)), Count(T))
       /\ Cell(k, Shown(s)).upper
            = Rate(Count(Passes(T, pick)) + (Count(T) - Count(Valid(T, pick))), Count(T))
  BY <1>7, <1>8, <1>9 DEF Cell
<1>. QED
  BY <1>1, <1>2, <1>11, <1>12

\* "Missing bounds" of the matrix: the rate of the trials pooled under one scorer lies
\* within the bounds of their cell, and both can come true.
THEOREM CellBounds == Spec => []CellsPoolBatches
<1>1. ASSUME NEW s \in Scorer, NEW k \in UNION {Tasks(DOMAIN pick) : pick \in Shown(s)}
      PROVE  LET T == Pooled(k, s)
                 scores == {Rate(Count(passing), Count(T)) :
                              passing \in Outcomes(T, [t \in T |-> s])}
                 cell == Cell(k, Shown(s))
             IN cell.lower = Min(scores) /\ cell.upper = Max(scores)
  <2>1. PICK T : T = Pooled(k, s)
    OBVIOUS
  <2>2. PICK pick : pick = [t \in T |-> s]
    OBVIOUS
  <2>3. PICK scores : scores = {Rate(Count(passing), Count(T)) : passing \in Outcomes(T, pick)}
    OBVIOUS
  <2>4. T \in SUBSET Trial /\ T # {}
    BY <2>1, ShownBatches DEF Pooled, OfTask, Tasks
  <2>5. PICK least : least = Passes(T, pick)
    OBVIOUS
  <2>6. PICK most : most = Passes(T, pick) \cup (T \ Valid(T, pick))
    OBVIOUS
  <2>7. least \in Outcomes(T, pick) /\ most \in Outcomes(T, pick)
    BY <2>4, <2>5, <2>6, VerdictsOf
  <2>8. ASSUME NEW passing \in Outcomes(T, pick)
        PROVE  /\ Rate(Count(passing), Count(T)) \in Nat
               /\ Rate(Count(least), Count(T)) <= Rate(Count(passing), Count(T))
               /\ Rate(Count(passing), Count(T)) <= Rate(Count(most), Count(T))
    <3>1. /\ least \in SUBSET passing /\ passing \in SUBSET most
          /\ passing \in SUBSET Trial /\ most \in SUBSET Trial
      BY <2>4, <2>5, <2>6, VerdictsOf
    <3>2. Count(T) \in Nat \ {0}
      BY <2>4, SizeType
    <3>3. /\ Count(least) \in Nat /\ Count(passing) \in Nat /\ Count(most) \in Nat
          /\ Count(least) <= Count(passing) /\ Count(passing) <= Count(most)
      BY <3>1, CountIsMonotone
    <3>. QED
      BY <3>2, <3>3, RateIsMonotone
  <2>9. /\ scores \in SUBSET Nat
        /\ Rate(Count(least), Count(T)) \in scores /\ Rate(Count(most), Count(T)) \in scores
        /\ \A x \in scores : /\ Rate(Count(least), Count(T)) <= x
                             /\ x <= Rate(Count(most), Count(T))
    BY <2>3, <2>7, <2>8
  <2>10. /\ Rate(Count(least), Count(T)) = Min(scores)
         /\ Rate(Count(most), Count(T)) = Max(scores)
    BY <2>9, MinIs, MaxIs
  <2>. QED
    BY <2>1, <2>2, <2>3, <2>5, <2>6, <2>10, CellCounts
<1>2. CellsPoolBatches
  BY <1>1 DEF CellsPoolBatches, Shown, Pooled
<1>. QED
  BY <1>2, PTL

-----------------------------------------------------------------------------
(* The main score.                                                         *)

\* The ends of trials, requests and scorings keep the types.
THEOREM TypeCorrect == Spec => []TypeOK
<1>1. Init => TypeOK
  BY DEF Init, TypeOK
<1>2. ASSUME TypeOK, [Next]_vars
      PROVE  TypeOK'
  <2>. USE <1>2 DEF TypeOK
  <2>1. ASSUME NEW t \in Trial, EndTrial(t)
        PROVE  TypeOK'
    BY <2>1 DEF EndTrial
  <2>2. ASSUME NEW t \in Trial, NEW s \in Scorer, Request(t, s)
        PROVE  TypeOK'
    <3>1. [trial |-> t, scorer |-> s, outcome |-> "queued"] \in Row
      BY DEF Row
    <3>. QED
      BY <2>2, <3>1 DEF Request
  <2>3. ASSUME Score
        PROVE  TypeOK'
    <3>1. PICK i \in DOMAIN rows, outcome \in {"error"} \cup Verdict :
              rows' = [rows EXCEPT ![i].outcome = outcome]
      BY <2>3 DEF Score
    <3>0. PICK old \in Row : old = rows[i]
      BY <3>1
    <3>2. PICK row \in Row : row = [rows[i] EXCEPT !.outcome = outcome]
      BY <3>0 DEF Row
    <3>3. rows' = [rows EXCEPT ![i] = row]
      BY <3>1, <3>2
    <3>4. rows' \in Seq(Row)
      BY <3>3
    <3>. QED
      BY <2>3, <3>4 DEF Score
  <2>. QED
    BY <1>2, <2>1, <2>2, <2>3 DEF Next, vars
<1>. QED
  BY <1>1, <1>2, PTL DEF Spec

\* The rows of a trial under a scorer, the last of which is the current one.
LEMMA RowsHaveLast ==
    ASSUME TypeOK, NEW t, NEW s
    PROVE  /\ IsFiniteSet(RowsOf(t, s))
           /\ RowsOf(t, s) # {} => Current(t, s) \in {rows[i].outcome : i \in RowsOf(t, s)}
<1>1. Len(rows) \in Nat /\ DOMAIN rows = 1..Len(rows)
  BY DEF TypeOK
<1>2. RowsOf(t, s) \in SUBSET (1..Len(rows))
  BY <1>1 DEF RowsOf
<1>3. IsFiniteSet(RowsOf(t, s))
  <2>1. IsFiniteSet(1..Len(rows))
    BY <1>1, FS_Interval
  <2>. QED
    BY <1>2, <2>1, FS_Subset
<1>4. RowsOf(t, s) # {} => Max(RowsOf(t, s)) \in RowsOf(t, s)
  BY <1>1, <1>2, MaxIsLast
<1>. QED
  BY <1>3, <1>4 DEF Current

\* A trial is valid exactly when its rows hold one verdict, the current one.
LEMMA ValidIsSettled ==
    ASSUME TypeOK, NEW t, NEW s
    PROVE  /\ Bucket(t, s) = "valid" <=> /\ Count(Successes(t, s)) = 1
                                         /\ Current(t, s) \in Successes(t, s)
           /\ Bucket(t, s) = "valid" => Successes(t, s) = {Current(t, s)}
<1>1. IsFiniteSet(Successes(t, s))
  <2>1. PICK f : f = [i \in RowsOf(t, s) |-> rows[i].outcome]
    OBVIOUS
  <2>2. IsFiniteSet({f[i] : i \in RowsOf(t, s)})
    BY <2>1, RowsHaveLast, ImageIsFinite
  <2>3. Successes(t, s) \in SUBSET {f[i] : i \in RowsOf(t, s)}
    BY <2>1 DEF Successes
  <2>. QED
    BY <2>2, <2>3, FS_Subset
<1>2. Count(Successes(t, s)) = 1 <=> \E x : Successes(t, s) = {x}
  BY <1>1, FS_Singleton DEF Count
<1>3. RowsOf(t, s) = {} => Successes(t, s) = {}
  BY DEF Successes
<1>4. RowsOf(t, s) # {} => (Current(t, s) \in Verdict <=> Current(t, s) \in Successes(t, s))
  BY RowsHaveLast DEF Successes
<1>5. Bucket(t, s) = "valid" <=>
          RowsOf(t, s) # {} /\ ~Unstable(t, s) /\ Current(t, s) \in Verdict
  BY DEF Bucket
<1>6. ~Unstable(t, s) <=> \A v, w \in Successes(t, s) : v = w
  BY DEF Unstable
<1>. QED
  BY <1>2, <1>3, <1>4, <1>5, <1>6

\* A batch is complete when every planned trial of every task is valid.
LEMMA CompleteIsAll ==
    ASSUME NEW T \in SUBSET Trial, NEW pick
    PROVE  BatchPoint(T, pick).complete <=> \A t \in T : Bucket(t, pick[t]) = "valid"
<1>1. BatchPoint(T, pick).complete <=>
        \A k \in Tasks(T) : Count(Valid(OfTask(T, k), pick)) = Count(OfTask(T, k))
  BY DEF BatchPoint, TaskPoint
<1>2. ASSUME NEW k \in Tasks(T)
      PROVE  Count(Valid(OfTask(T, k), pick)) = Count(OfTask(T, k))
                 <=> Valid(OfTask(T, k), pick) = OfTask(T, k)
  <2>1. Valid(OfTask(T, k), pick) \in SUBSET OfTask(T, k)
    BY DEF Valid
  <2>2. IsFiniteSet(OfTask(T, k))
    BY TaskSize, SizeType
  <2>. QED
    BY <2>1, <2>2, FS_Subset DEF Count
<1>3. (\A k \in Tasks(T) : Valid(OfTask(T, k), pick) = OfTask(T, k))
        <=> \A t \in T : Bucket(t, pick[t]) = "valid"
  BY DEF Valid, OfTask, Tasks
<1>. QED
  BY <1>1, <1>2, <1>3

\* A main score is given exactly when every planned trial has rows that agree and end in a
\* verdict, and then it is the score of those verdicts: an unstable, pending or failed
\* scoring, an anomaly or a cancelled trial keeps the batch without one.
THEOREM MainScore == Spec => []MainScoreIsEarned
<1>1. ASSUME TypeOK
      PROVE  MainScoreIsEarned
  <2>. SUFFICES ASSUME NEW pick \in Points
                PROVE  LET T == DOMAIN pick
                           settled == \A t \in T :
                               /\ Count(Successes(t, pick[t])) = 1
                               /\ Current(t, pick[t]) \in Successes(t, pick[t])
                       IN BatchPoint(T, pick).main =
                           IF settled
                           THEN ScoreIf(T, {t \in T : Successes(t, pick[t]) \subseteq Passing})
                           ELSE None
    BY DEF MainScoreIsEarned
  <2>1. PICK T \in SUBSET Trial : T = DOMAIN pick
    BY PointTrials
  <2>2. (\A t \in T : /\ Count(Successes(t, pick[t])) = 1
                      /\ Current(t, pick[t]) \in Successes(t, pick[t]))
          <=> BatchPoint(T, pick).complete
    BY <1>1, ValidIsSettled, CompleteIsAll
  <2>3. BatchPoint(T, pick).main
          = IF BatchPoint(T, pick).complete THEN BatchPoint(T, pick).lower ELSE None
    BY DEF BatchPoint
  <2>4. ASSUME BatchPoint(T, pick).complete
        PROVE  Passes(T, pick) = {t \in T : Successes(t, pick[t]) \subseteq Passing}
    <3>1. \A t \in T : Bucket(t, pick[t]) = "valid"
      BY <2>4, CompleteIsAll
    <3>2. \A t \in T : Successes(t, pick[t]) = {Current(t, pick[t])}
      BY <1>1, <3>1, ValidIsSettled
    <3>. QED
      BY <3>1, <3>2 DEF Passes, Passed
  <2>. QED
    BY <2>1, <2>2, <2>3, <2>4, BoundsAreScores
<1>. QED
  BY <1>1, TypeCorrect, PTL

-----------------------------------------------------------------------------
(* Nobody reruns until pass.                                               *)

\* What the query says of a trial and a scorer depends on the rows alone: it counts as
\* passed when some rows of the pair agree on a passing verdict and the last one has it.
Mine(r, t, s) == {i \in DOMAIN r : r[i].trial = t /\ r[i].scorer = s}
Told(r, t, s) == {r[i].outcome : i \in Mine(r, t, s)} \cap Verdict
Agreed(r, t, s) ==
    /\ Mine(r, t, s) # {}
    /\ \A v, w \in Told(r, t, s) : v = w
    /\ r[Max(Mine(r, t, s))].outcome \in Passing

LEMMA PassedByRows ==
    ASSUME NEW t, NEW s
    PROVE  /\ Passed(t, s) <=> Agreed(rows, t, s)
           /\ Passed(t, s)' <=> Agreed(rows', t, s)
           /\ Successes(t, s) = Told(rows, t, s)
<1>. USE ResultsAssumption
    DEF Passed, Bucket, Unstable, Successes, Current, RowsOf, Agreed, Told, Mine
<1>1. Passed(t, s) <=> Agreed(rows, t, s)
  OBVIOUS
<1>2. Passed(t, s)' <=> Agreed(rows', t, s)
  OBVIOUS
<1>. QED
  BY <1>1, <1>2

\* A request makes its pair wait again, and tells nothing about another pair.
LEMMA RequestRaisesNothing ==
    ASSUME NEW r \in Seq(Row), NEW new \in Row, new.outcome = "queued", NEW t, NEW s,
           Agreed(Append(r, new), t, s)
    PROVE  Agreed(r, t, s)
<1>. DEFINE r2 == Append(r, new)
<1>1. /\ Len(r) \in Nat /\ DOMAIN r = 1..Len(r) /\ DOMAIN r2 = 1..(Len(r) + 1)
      /\ \A i \in DOMAIN r : r2[i] = r[i]
      /\ r2[Len(r) + 1] = new
  OBVIOUS
<1>. HIDE DEF r2
<1>2. Len(r) + 1 \notin DOMAIN r /\ DOMAIN r2 = DOMAIN r \cup {Len(r) + 1}
  BY <1>1
<1>3. Mine(r2, t, s) \in SUBSET (1..(Len(r) + 1)) /\ Mine(r2, t, s) # {}
  BY <1>1 DEF Mine, Agreed, r2
<1>4. CASE Len(r) + 1 \in Mine(r2, t, s)
  <2>0. PICK n \in Nat : n = Len(r) + 1
    BY <1>1
  <2>1. Max(Mine(r2, t, s)) \in Mine(r2, t, s) /\ Len(r) + 1 <= Max(Mine(r2, t, s))
    BY <1>3, <1>4, <2>0, MaxIsLast
  <2>2. Max(Mine(r2, t, s)) = Len(r) + 1
    BY <1>1, <1>3, <2>1
  <2>3. "queued" \in Passing
    BY <1>1, <2>2 DEF Agreed, r2
  <2>. QED
    BY <2>3, ResultsAssumption
<1>5. CASE Len(r) + 1 \notin Mine(r2, t, s)
  <2>1. Mine(r2, t, s) = Mine(r, t, s)
    BY <1>1, <1>2, <1>5 DEF Mine
  <2>2. Max(Mine(r, t, s)) \in DOMAIN r
    BY <1>1, <1>3, <2>1, MaxIsLast DEF Mine
  <2>3. \A i \in Mine(r, t, s) : r2[i].outcome = r[i].outcome
    BY <1>1 DEF Mine
  <2>4. Told(r2, t, s) = Told(r, t, s)
    BY <2>1, <2>3 DEF Told
  <2>. QED
    BY <1>1, <2>1, <2>2, <2>4 DEF Agreed, r2
<1>. QED
  BY <1>4, <1>5

\* A scoring that makes a pair count as passed is a passing one of that pair, and agrees
\* with all that was told of the pair before.
LEMMA ScoreRaisesAgreed ==
    ASSUME NEW r \in Seq(Row), NEW i \in DOMAIN r, NEW outcome, r[i].outcome = "queued",
           NEW t, NEW s, ~Agreed(r, t, s), Agreed([r EXCEPT ![i].outcome = outcome], t, s)
    PROVE  /\ r[i].trial = t /\ r[i].scorer = s
           /\ outcome \in Passing
           /\ Told(r, t, s) \subseteq {outcome}
<1>. DEFINE r2 == [r EXCEPT ![i].outcome = outcome]
<1>0. PICK old \in Row : old = r[i]
  OBVIOUS
<1>1. PICK new : new = [old EXCEPT !.outcome = outcome]
  OBVIOUS
<1>2. new.trial = r[i].trial /\ new.scorer = r[i].scorer /\ new.outcome = outcome
  BY <1>0, <1>1 DEF Row
<1>3. r2 = [r EXCEPT ![i] = new]
  BY <1>0, <1>1
<1>4. /\ Len(r) \in Nat /\ DOMAIN r = 1..Len(r) /\ DOMAIN r2 = DOMAIN r
      /\ r2[i] = new /\ \A j \in DOMAIN r : j # i => r2[j] = r[j]
  BY <1>3
<1>5. Agreed(r2, t, s)
  OBVIOUS
<1>. HIDE DEF r2
<1>6. Mine(r2, t, s) = Mine(r, t, s)
  BY <1>2, <1>4 DEF Mine
<1>7. Mine(r, t, s) \in SUBSET (1..Len(r)) /\ Mine(r, t, s) # {}
  BY <1>4, <1>5, <1>6 DEF Mine, Agreed
<1>8. PICK last \in Mine(r, t, s) : last = Max(Mine(r, t, s))
  BY <1>4, <1>7, MaxIsLast
<1>9. \A x \in Told(r, t, s) : x \in Told(r2, t, s)
  <2>. SUFFICES ASSUME NEW j \in Mine(r, t, s), r[j].outcome \in Verdict
                PROVE  r[j].outcome \in Told(r2, t, s)
    BY DEF Told
  <2>1. j # i /\ j \in DOMAIN r
    BY ResultsAssumption DEF Mine
  <2>. QED
    BY <1>4, <1>6, <2>1 DEF Told
<1>10. \A v, w \in Told(r2, t, s) : v = w
  BY <1>5 DEF Agreed
<1>11. last = i
  <2>. SUFFICES ASSUME last # i
                PROVE  FALSE
    OBVIOUS
  <2>1. r[last].outcome \in Passing
    BY <1>4, <1>5, <1>6, <1>8 DEF Agreed, Mine
  <2>2. Agreed(r, t, s)
    BY <1>7, <1>8, <1>9, <1>10, <2>1 DEF Agreed
  <2>. QED
    BY <2>2
<1>12. i \in Mine(r, t, s) /\ outcome \in Passing
  BY <1>2, <1>4, <1>5, <1>6, <1>8, <1>11 DEF Agreed
<1>13. outcome \in Told(r2, t, s)
  BY <1>2, <1>4, <1>6, <1>12, ResultsAssumption DEF Told
<1>. QED
  BY <1>9, <1>10, <1>12, <1>13 DEF Mine

\* Nobody reruns until pass: a trial comes to count as passed under a scorer only with its
\* first verdict there, or one that all its verdicts agree with.
THEOREM NoRerunUntilPass == Spec => RisesAreAgreed
<1>1. ASSUME TypeOK, [Next]_vars, NEW t \in Trial, NEW s \in Scorer, ~Passed(t, s), Passed(t, s)'
      PROVE  \E i \in DOMAIN rows :
                /\ rows[i].trial = t /\ rows[i].scorer = s
                /\ rows[i].outcome = "queued" /\ rows'[i].outcome \in Passing
                /\ Successes(t, s) \subseteq {rows'[i].outcome}
  <2>0. ~Agreed(rows, t, s) /\ Agreed(rows', t, s) /\ rows \in Seq(Row)
    BY <1>1, PassedByRows DEF TypeOK
  <2>1. ASSUME UNCHANGED rows
        PROVE  FALSE
    BY <2>0, <2>1
  <2>2. ASSUME NEW u \in Trial, EndTrial(u)
        PROVE  FALSE
    BY <2>1, <2>2 DEF EndTrial
  <2>3. ASSUME NEW u \in Trial, NEW z \in Scorer, Request(u, z)
        PROVE  FALSE
    <3>1. PICK new \in Row : new = [trial |-> u, scorer |-> z, outcome |-> "queued"]
      BY DEF Row
    <3>2. rows' = Append(rows, new) /\ new.outcome = "queued"
      BY <2>3, <3>1 DEF Request
    <3>. QED
      BY <2>0, <3>2, RequestRaisesNothing
  <2>4. CASE Score
    <3>1. PICK i \in DOMAIN rows, outcome \in {"error"} \cup Verdict :
              /\ rows[i].outcome = "queued"
              /\ rows' = [rows EXCEPT ![i].outcome = outcome]
      BY <2>4 DEF Score
    <3>2. /\ rows[i].trial = t /\ rows[i].scorer = s
          /\ outcome \in Passing
          /\ Told(rows, t, s) \subseteq {outcome}
      BY <2>0, <3>1, ScoreRaisesAgreed
    <3>3. PICK old \in Row : old = rows[i]
      BY <2>0
    <3>4. rows'[i] = [old EXCEPT !.outcome = outcome]
      BY <3>1, <3>3
    <3>5. rows'[i].outcome = outcome
      BY <3>4 DEF Row
    <3>. QED
      BY <3>1, <3>2, <3>5, PassedByRows
  <2>. QED
    BY <1>1, <2>1, <2>2, <2>3, <2>4 DEF Next, vars
<1>2. TypeOK /\ [Next]_vars =>
        [ \A t \in Trial, s \in Scorer :
            ~Passed(t, s) /\ Passed(t, s)'
            => \E i \in DOMAIN rows :
                  /\ rows[i].trial = t /\ rows[i].scorer = s
                  /\ rows[i].outcome = "queued" /\ rows'[i].outcome \in Passing
                  /\ Successes(t, s) \subseteq {rows'[i].outcome} ]_vars
  BY <1>1
<1>. QED
  BY <1>2, TypeCorrect, PTL DEF Spec, RisesAreAgreed
=============================================================================
