-------------------------- MODULE Figures_proofs --------------------------
(***************************************************************************)
(* What is computed from the rows, for any of them: the cashback a client  *)
(* is due (Entitlement), the assignments of an experiment and its verdict  *)
(* (ABTests), and the reports of the marketing dashboard (Reports).        *)
(*                                                                         *)
(* A sum over a set of rows is counted: a row has a cell per unit of its   *)
(* amount, and disjoint sets of rows have disjoint sets of cells.          *)
(***************************************************************************)
EXTENDS ABTests, Reports, Entitlement, FiniteSetTheorems, FunctionTheorems, WellFoundedInduction, TLAPS

(***************************************************************************)
(* Lemma: induction over the subsets of a finite set, with a set of        *)
(* subsets for the property.                                               *)
(***************************************************************************)
LEMMA SubsetInduction ==
  ASSUME NEW S, IsFiniteSet(S), NEW G,
         \A T \in SUBSET S : (\A U \in SUBSET T : U # T => U \in G) => T \in G
  PROVE  S \in G
<1> SUFFICES ASSUME S \notin G PROVE FALSE
    OBVIOUS
<1> DEFINE bad == {T \in SUBSET S : T \notin G}
<1>1. S \in bad
  OBVIOUS
<1>2. IsWellFoundedOn(StrictSubsetOrdering(S), SUBSET S)
  <2>1. FiniteSubsetsOf(S) = SUBSET S
    BY FS_FiniteSubsetsOfFinite
  <2>2. IsWellFoundedOn(StrictSubsetOrdering(S), FiniteSubsetsOf(S))
    BY FS_StrictSubsetOrderingWellFounded
  <2>3. QED
    BY <2>1, <2>2
<1>3. PICK T \in bad : \A U \in bad : <<U, T>> \notin StrictSubsetOrdering(S)
  <2>1. bad \subseteq SUBSET S /\ bad # {}
    BY <1>1
  <2> HIDE DEF bad
  <2>2. QED
    BY <1>2, <2>1, WFMin
<1>4. ASSUME NEW U \in SUBSET T, U # T
      PROVE  U \in G
  <2>1. <<U, T>> \in StrictSubsetOrdering(S)
    BY <1>3, <1>4 DEF StrictSubsetOrdering
  <2>2. QED
    BY <1>3, <1>4, <2>1
<1>5. QED
  BY <1>3, <1>4

(***************************************************************************)
(* The sum of a set of rows, counted.                                      *)
(***************************************************************************)
Amounts(amount, S) == \A x \in S : amount[x] \in Nat
Cells(amount, S) == {cell \in S \X (Nat \ {0}) : cell[2] <= amount[cell[1]]}

(***************************************************************************)
(* Lemma: a further row brings as many cells as its amount.                *)
(***************************************************************************)
LEMMA CellsOfOneMore ==
  ASSUME NEW amount, NEW S, NEW x, x \notin S, amount[x] \in Nat,
         IsFiniteSet(Cells(amount, S))
  PROVE  /\ IsFiniteSet(Cells(amount, S \cup {x}))
         /\ Cardinality(Cells(amount, S \cup {x})) = Cardinality(Cells(amount, S)) + amount[x]
<1> PICK n \in Nat : n = amount[x]
    OBVIOUS
<1> DEFINE own == {x} \X (1 .. n)
<1>1. /\ Cells(amount, S \cup {x}) = Cells(amount, S) \cup own
      /\ Cells(amount, S) \cap own = {}
  BY DEF Cells
<1>2. IsFiniteSet({x}) /\ Cardinality({x}) = 1
  BY FS_Singleton
<1>3. IsFiniteSet(1 .. n) /\ Cardinality(1 .. n) = n
  <2>1. 1 \in Int /\ n \in Int
    OBVIOUS
  <2>2. IsFiniteSet(1 .. n)
    BY <2>1, FS_Interval
  <2>3. Cardinality(1 .. n) = IF 1 > n THEN 0 ELSE n - 1 + 1
    BY <2>1, FS_Interval
  <2>4. QED
    BY <2>2, <2>3
<1>4. IsFiniteSet(own) /\ Cardinality(own) = n
  <2>1. IsFiniteSet(own) /\ Cardinality(own) = Cardinality({x}) * Cardinality(1 .. n)
    BY <1>2, <1>3, FS_Product
  <2>2. QED
    BY <1>2, <1>3, <2>1
<1> HIDE DEF own
<1>5. Cardinality(Cells(amount, S)) \in Nat /\ Cardinality({}) = 0
  BY FS_CardinalityType, FS_EmptySet
<1>6. /\ IsFiniteSet(Cells(amount, S) \cup own)
      /\ Cardinality(Cells(amount, S) \cup own)
           = Cardinality(Cells(amount, S)) + Cardinality(own)
               - Cardinality(Cells(amount, S) \cap own)
  BY <1>4, FS_Union
<1>7. Cardinality(Cells(amount, S) \cap own) = 0
  BY <1>1, <1>5
<1>8. Cardinality(Cells(amount, S) \cup own) = Cardinality(Cells(amount, S)) + amount[x]
  BY <1>4, <1>5, <1>6, <1>7
<1>9. QED
  BY <1>1, <1>6, <1>8

(***************************************************************************)
(* Lemma: SumOf, which folds over the rows in some order, counts their     *)
(* cells, so the order does not matter.                                    *)
(***************************************************************************)
LEMMA SumCounts ==
  ASSUME NEW amount, NEW S, IsFiniteSet(S), Amounts(amount, S)
  PROVE  IsFiniteSet(Cells(amount, S)) /\ SumOf(amount, S) = Cardinality(Cells(amount, S))
<1> USE DEF Amounts
<1> DEFINE pick(s) == CHOOSE x \in s : TRUE
           Folds(f) == f = [s \in SUBSET S |-> IF s = {} THEN 0
                                               ELSE amount[pick(s)] + f[s \ {pick(s)}]]
           count == [s \in SUBSET S |-> Cardinality(Cells(amount, s))]
           Finite == {s \in SUBSET S : IsFiniteSet(Cells(amount, s))}
<1>1. Cells(amount, {}) = {} /\ IsFiniteSet({}) /\ Cardinality({}) = 0
  BY FS_EmptySet DEF Cells
<1>2. ASSUME NEW s \in SUBSET S, s # {}
      PROVE  /\ pick(s) \in s
             /\ s \ {pick(s)} \in SUBSET s /\ s \ {pick(s)} # s
             /\ s = (s \ {pick(s)}) \cup {pick(s)}
  BY <1>2
<1> HIDE DEF pick
<1>3. \A s \in SUBSET S : IsFiniteSet(Cells(amount, s))
  <2> SUFFICES ASSUME NEW R \in SUBSET S PROVE R \in Finite
      OBVIOUS
  <2>1. ASSUME NEW T \in SUBSET R, \A U \in SUBSET T : U # T => U \in Finite
        PROVE  T \in Finite
    <3>1. CASE T = {}
      BY <1>1, <3>1
    <3>2. CASE T # {}
      <4>1. pick(T) \in T /\ T \ {pick(T)} \in Finite /\ T = (T \ {pick(T)}) \cup {pick(T)}
        BY <1>2, <2>1, <3>2
      <4>2. IsFiniteSet(Cells(amount, (T \ {pick(T)}) \cup {pick(T)}))
        BY <4>1, CellsOfOneMore
      <4>3. QED
        BY <4>1, <4>2
    <3>3. QED
      BY <3>1, <3>2
  <2>2. IsFiniteSet(R)
    BY FS_Subset
  <2> HIDE DEF Finite
  <2>3. QED
    BY <2>1, <2>2, SubsetInduction
<1>4. Folds(count)
  <2>1. ASSUME NEW s \in SUBSET S, s # {}
        PROVE  Cardinality(Cells(amount, s)) = amount[pick(s)] + count[s \ {pick(s)}]
    <3>1. /\ pick(s) \in s /\ s \ {pick(s)} \in SUBSET S
          /\ s = (s \ {pick(s)}) \cup {pick(s)}
      BY <1>2, <2>1
    <3>2. Cardinality(Cells(amount, (s \ {pick(s)}) \cup {pick(s)}))
            = Cardinality(Cells(amount, s \ {pick(s)})) + amount[pick(s)]
      BY <1>3, <3>1, CellsOfOneMore
    <3>3. Cardinality(Cells(amount, s \ {pick(s)})) \in Nat
      BY <1>3, <3>1, FS_CardinalityType
    <3>4. count[s \ {pick(s)}] = Cardinality(Cells(amount, s \ {pick(s)}))
      BY <3>1
    <3>5. amount[pick(s)] \in Nat
      BY <3>1
    <3>6. Cardinality(Cells(amount, s))
            = Cardinality(Cells(amount, s \ {pick(s)})) + amount[pick(s)]
      BY <3>1, <3>2
    <3> HIDE DEF count
    <3>7. QED
      BY <3>3, <3>4, <3>5, <3>6
  <2>2. QED
    BY <1>1, <2>1
<1>5. ASSUME NEW f, Folds(f)
      PROVE  f[S] = Cardinality(Cells(amount, S))
  <2> DEFINE Right == {s \in SUBSET S : f[s] = Cardinality(Cells(amount, s))}
  <2>1. ASSUME NEW T \in SUBSET S, \A U \in SUBSET T : U # T => U \in Right
        PROVE  T \in Right
    <3>1. CASE T = {}
      BY <1>1, <1>5, <3>1
    <3>2. CASE T # {}
      <4>1. T \ {pick(T)} \in Right
        BY <1>2, <2>1, <3>2
      <4>2. f[T] = amount[pick(T)] + f[T \ {pick(T)}]
        BY <1>5, <3>2
      <4>3. count[T] = amount[pick(T)] + count[T \ {pick(T)}]
        BY <1>4, <3>2
      <4>4. QED
        BY <4>1, <4>2, <4>3
    <3>3. QED
      BY <3>1, <3>2
  <2> HIDE DEF Right
  <2>2. S \in Right
    BY <2>1, SubsetInduction
  <2>3. QED
    BY <2>2 DEF Right
<1>6. Folds(CHOOSE f : Folds(f))
  <2> HIDE DEF Folds, count
  <2>1. QED
    BY <1>4
<1>7. SumOf(amount, S) = (CHOOSE f : Folds(f))[S]
  BY DEF SumOf, MapThenSumSet, MapThenFoldSet, pick
<1> HIDE DEF Folds
<1>8. QED
  BY <1>3, <1>5, <1>6, <1>7

(***************************************************************************)
(* Lemma: no rows sum up to nothing, and every sum is a number.            *)
(***************************************************************************)
LEMMA SumOfNone ==
  ASSUME NEW amount
  PROVE  SumOf(amount, {}) = 0
<1>1. IsFiniteSet({}) /\ Cardinality({}) = 0 /\ Cells(amount, {}) = {}
  BY FS_EmptySet DEF Cells
<1>2. QED
  BY <1>1, SumCounts DEF Amounts

(***************************************************************************)
(* Lemma: a further row adds its amount.                                   *)
(***************************************************************************)
LEMMA SumOfMore ==
  ASSUME NEW amount, NEW S, IsFiniteSet(S), Amounts(amount, S),
         NEW x, x \notin S, amount[x] \in Nat
  PROVE  SumOf(amount, S) \in Nat /\ SumOf(amount, S \cup {x}) = SumOf(amount, S) + amount[x]
<1>1. IsFiniteSet(Cells(amount, S)) /\ SumOf(amount, S) = Cardinality(Cells(amount, S))
  BY SumCounts
<1>2. IsFiniteSet(S \cup {x}) /\ Amounts(amount, S \cup {x})
  BY FS_AddElement DEF Amounts
<1>3. SumOf(amount, S \cup {x}) = Cardinality(Cells(amount, S \cup {x}))
  BY <1>2, SumCounts
<1>4. QED
  BY <1>1, <1>3, CellsOfOneMore, FS_CardinalityType

(***************************************************************************)
(* Lemma: the sum of disjoint sets of rows is that of their union.         *)
(***************************************************************************)
LEMMA SumOfBoth ==
  ASSUME NEW amount, NEW S, IsFiniteSet(S), Amounts(amount, S),
         NEW T, IsFiniteSet(T), Amounts(amount, T), S \cap T = {}
  PROVE  /\ SumOf(amount, S) \in Nat /\ SumOf(amount, T) \in Nat
         /\ SumOf(amount, S \cup T) = SumOf(amount, S) + SumOf(amount, T)
<1>1. IsFiniteSet(S \cup T) /\ Amounts(amount, S \cup T)
  BY FS_Union DEF Amounts
<1>2. /\ Cells(amount, S \cup T) = Cells(amount, S) \cup Cells(amount, T)
      /\ Cells(amount, S) \cap Cells(amount, T) = {}
  BY DEF Cells
<1>3. /\ IsFiniteSet(Cells(amount, S)) /\ SumOf(amount, S) = Cardinality(Cells(amount, S))
      /\ IsFiniteSet(Cells(amount, T)) /\ SumOf(amount, T) = Cardinality(Cells(amount, T))
      /\ SumOf(amount, S \cup T) = Cardinality(Cells(amount, S \cup T))
  BY <1>1, SumCounts
<1>4. Cardinality(Cells(amount, S) \cap Cells(amount, T)) = 0
  BY <1>2, FS_EmptySet
<1>5. Cardinality(Cells(amount, S) \cup Cells(amount, T))
        = Cardinality(Cells(amount, S)) + Cardinality(Cells(amount, T)) - 0
  BY <1>3, <1>4, FS_Union
<1>6. Cardinality(Cells(amount, S)) \in Nat /\ Cardinality(Cells(amount, T)) \in Nat
  BY <1>3, FS_CardinalityType
<1>7. SumOf(amount, S \cup T)
        = Cardinality(Cells(amount, S)) + Cardinality(Cells(amount, T))
  <2>1. Cardinality(Cells(amount, S) \cup Cells(amount, T))
          = Cardinality(Cells(amount, S)) + Cardinality(Cells(amount, T))
    BY <1>5, <1>6
  <2>2. SumOf(amount, S \cup T) = Cardinality(Cells(amount, S) \cup Cells(amount, T))
    BY <1>2, <1>3
  <2>3. QED
    BY <2>1, <2>2
<1>8. QED
  BY <1>3, <1>6, <1>7

(***************************************************************************)
(* Lemma: ones sum up to the number of rows.                               *)
(***************************************************************************)
LEMMA SumOfOnes ==
  ASSUME NEW amount, NEW S, IsFiniteSet(S), \A x \in S : amount[x] = 1
  PROVE  SumOf(amount, S) = Cardinality(S)
<1>1. Amounts(amount, S)
  BY DEF Amounts
<1>2. Cells(amount, S) = S \X {1}
  <2>1. \A x \in S, n \in Nat \ {0} : n <= amount[x] <=> n = 1
    OBVIOUS
  <2>2. QED
    BY <2>1 DEF Cells
<1>3. IsFiniteSet({1}) /\ Cardinality({1}) = 1
  BY FS_Singleton
<1>4. Cardinality(S \X {1}) = Cardinality(S) * 1 /\ Cardinality(S) \in Nat
  BY <1>3, FS_Product, FS_CardinalityType
<1>5. QED
  BY <1>1, <1>2, <1>4, SumCounts

\* Every row of S falls into one of the parts.
Partition(part, I, S) ==
  /\ \A i \in I : part[i] \subseteq S
  /\ \A x \in S : \E i \in I : x \in part[i]
  /\ \A i, j \in I : i # j => part[i] \cap part[j] = {}

(***************************************************************************)
(* Lemma: when rows fall into parts, the sums of the parts sum up to the   *)
(* sum of the rows.                                                        *)
(***************************************************************************)
LEMMA SumOfParts ==
  ASSUME NEW amount, NEW S, IsFiniteSet(S), Amounts(amount, S),
         NEW I, IsFiniteSet(I), NEW part, Partition(part, I, S),
         NEW sums, \A i \in I : sums[i] = SumOf(amount, part[i])
  PROVE  SumOf(sums, I) = SumOf(amount, S)
<1> DEFINE Joined(J) == {x \in S : \E j \in J : x \in part[j]}
           Right == {J \in SUBSET I : SumOf(sums, J) = SumOf(amount, Joined(J))}
<1>1. ASSUME NEW J \in SUBSET I
      PROVE  IsFiniteSet(Joined(J)) /\ Amounts(amount, Joined(J))
  BY FS_Subset DEF Amounts
<1>2. ASSUME NEW i \in I
      PROVE  IsFiniteSet(part[i]) /\ Amounts(amount, part[i]) /\ sums[i] \in Nat
  <2>1. part[i] \in SUBSET S
    BY DEF Partition
  <2>2. IsFiniteSet(part[i]) /\ Amounts(amount, part[i])
    BY <2>1, FS_Subset DEF Amounts
  <2>3. SumOf(amount, part[i]) \in Nat
    BY <2>2, SumCounts, FS_CardinalityType
  <2>4. QED
    BY <2>2, <2>3
<1>3. ASSUME NEW J \in SUBSET I, \A K \in SUBSET J : K # J => K \in Right
      PROVE  J \in Right
  <2>1. CASE J = {}
    <3>1. Joined(J) = {}
      BY <2>1
    <3>2. QED
      BY <2>1, <3>1, SumOfNone
  <2>2. CASE J # {}
    <3>1. PICK i \in J : TRUE
      BY <2>2
    <3> DEFINE K == J \ {i}
    <3>2. K \in Right /\ K \in SUBSET I /\ J = K \cup {i} /\ i \notin K /\ i \in I
      BY <1>3, <3>1
    <3>3. IsFiniteSet(K) /\ Amounts(sums, K)
      BY <1>2, <3>2, FS_Subset DEF Amounts
    <3>4. Joined(J) = Joined(K) \cup part[i] /\ Joined(K) \cap part[i] = {}
      BY <3>2 DEF Partition
    <3>5. SumOf(sums, K) = SumOf(amount, Joined(K))
      BY <3>2
    <3>6. IsFiniteSet(Joined(K)) /\ Amounts(amount, Joined(K))
      BY <1>1, <3>2
    <3> HIDE DEF K, Joined
    <3>7. SumOf(sums, K) \in Nat /\ SumOf(sums, K \cup {i}) = SumOf(sums, K) + sums[i]
      BY <1>2, <3>2, <3>3, SumOfMore
    <3>8. SumOf(amount, Joined(K) \cup part[i])
            = SumOf(amount, Joined(K)) + SumOf(amount, part[i])
      BY <1>2, <3>2, <3>4, <3>6, SumOfBoth
    <3>9. SumOf(sums, J) = SumOf(amount, Joined(J))
      BY <3>2, <3>4, <3>5, <3>7, <3>8
    <3>10. QED
      BY <3>9
  <2>3. QED
    BY <2>1, <2>2
<1>4. I \in Right
  <2> HIDE DEF Right
  <2>1. QED
    BY <1>3, SubsetInduction
<1>5. Joined(I) = S
  BY DEF Partition
<1>6. QED
  BY <1>4, <1>5

(***************************************************************************)
(* Lemma: and so do their numbers.                                         *)
(***************************************************************************)
LEMMA CountOfParts ==
  ASSUME NEW S, IsFiniteSet(S), NEW I, IsFiniteSet(I), NEW part, Partition(part, I, S),
         NEW counts, \A i \in I : counts[i] = Cardinality(part[i])
  PROVE  SumOf(counts, I) = Cardinality(S)
<1> DEFINE one == [x \in S |-> 1]
<1>1. Amounts(one, S) /\ SumOf(one, S) = Cardinality(S)
  BY SumOfOnes DEF Amounts
<1>2. ASSUME NEW i \in I
      PROVE  counts[i] = SumOf(one, part[i])
  <2>1. part[i] \in SUBSET S
    BY DEF Partition
  <2>2. IsFiniteSet(part[i]) /\ \A x \in part[i] : one[x] = 1
    BY <2>1, FS_Subset
  <2> HIDE DEF one
  <2>3. QED
    BY <2>2, SumOfOnes
<1> HIDE DEF one
<1>3. QED
  BY <1>1, <1>2, SumOfParts

-----------------------------------------------------------------------------
(***************************************************************************)
(* Lemma: a finite set of numbers has a least one.                         *)
(***************************************************************************)
LEMMA MinIsLeast ==
  ASSUME NEW S, IsFiniteSet(S), S \subseteq Int, S # {}
  PROVE  Min(S) \in S /\ \A y \in S : Min(S) <= y
<1> DEFINE Least(T) == \E x \in T : \A y \in T : x <= y
           Right == {T \in SUBSET S : T = {} \/ Least(T)}
<1>1. ASSUME NEW T \in SUBSET S, \A U \in SUBSET T : U # T => U \in Right
      PROVE  T \in Right
  <2>1. SUFFICES ASSUME T # {} PROVE Least(T)
    OBVIOUS
  <2>2. PICK x \in T : TRUE
    BY <2>1
  <2>3. T \ {x} \in Right
    BY <1>1, <2>2
  <2>4. CASE T \ {x} = {}
    <3>1. \A y \in T : x <= y
      BY <2>2, <2>4
    <3>2. QED
      BY <2>2, <3>1
  <2>5. CASE Least(T \ {x})
    <3>1. PICK z \in T \ {x} : \A y \in T \ {x} : z <= y
      BY <2>5
    <3>2. x \in Int /\ z \in Int
      BY <2>2, <3>1
    <3>3. CASE z <= x
      BY <3>1, <3>3
    <3>4. CASE x <= z
      <4>1. \A y \in T : x <= y
        BY <3>1, <3>2, <3>4
      <4>2. QED
        BY <2>2, <4>1
    <3>5. QED
      BY <3>2, <3>3, <3>4
  <2>6. QED
    BY <2>3, <2>4, <2>5
<1>2. S \in Right
  <2> HIDE DEF Right
  <2>1. QED
    BY <1>1, SubsetInduction
<1>3. QED
  BY <1>2 DEF Min

-----------------------------------------------------------------------------
(***************************************************************************)
(* Sums again, for the scale of the cashback.                              *)
(*                                                                         *)
(* Lemma: fewer rows of smaller amounts sum up to no more.                 *)
(***************************************************************************)
LEMMA SumOfFewer ==
  ASSUME NEW amount, NEW more, NEW S, IsFiniteSet(S), Amounts(more, S),
         NEW T \in SUBSET S, Amounts(amount, T), \A x \in T : amount[x] <= more[x]
  PROVE  /\ SumOf(amount, T) \in Nat /\ SumOf(more, S) \in Nat
         /\ SumOf(amount, T) <= SumOf(more, S)
<1>1. IsFiniteSet(T)
  BY FS_Subset
<1>2. /\ IsFiniteSet(Cells(amount, T)) /\ SumOf(amount, T) = Cardinality(Cells(amount, T))
      /\ IsFiniteSet(Cells(more, S)) /\ SumOf(more, S) = Cardinality(Cells(more, S))
  BY <1>1, SumCounts
<1>3. Cells(amount, T) \subseteq Cells(more, S)
  <2>1. \A x \in T, n \in Nat : n <= amount[x] => n <= more[x]
    BY DEF Amounts
  <2>2. QED
    BY <2>1 DEF Cells
<1>4. Cardinality(Cells(amount, T)) <= Cardinality(Cells(more, S))
  BY <1>2, <1>3, FS_Subset
<1>5. QED
  BY <1>2, <1>4, FS_CardinalityType

(***************************************************************************)
(* Lemma: rows that amount to nothing may be left out, and only the        *)
(* amounts of the rows that are left count.                                *)
(***************************************************************************)
LEMMA SumWithoutZeros ==
  ASSUME NEW amount, NEW same, NEW S, IsFiniteSet(S), Amounts(amount, S),
         NEW T \in SUBSET S, \A x \in T : same[x] = amount[x],
         \A x \in S \ T : amount[x] = 0
  PROVE  SumOf(same, T) = SumOf(amount, S)
<1>1. IsFiniteSet(T) /\ Amounts(same, T)
  BY FS_Subset DEF Amounts
<1>2. Cells(same, T) = Cells(amount, S)
  <2>1. Cells(same, T) \subseteq Cells(amount, S)
    BY DEF Cells
  <2>2. ASSUME NEW cell \in Cells(amount, S)
        PROVE  cell \in Cells(same, T)
    <3>1. PICK x \in S, n \in Nat \ {0} : cell = <<x, n>> /\ n <= amount[x]
      BY DEF Cells
    <3>2. x \in T
      BY <3>1
    <3>3. QED
      BY <3>1, <3>2 DEF Cells
  <2>3. QED
    BY <2>1, <2>2
<1>3. QED
  BY <1>1, <1>2, SumCounts

(***************************************************************************)
(* Lemma: rows of one amount sum up to a multiple of it.                   *)
(***************************************************************************)
LEMMA SumOfSame ==
  ASSUME NEW amount, NEW S, IsFiniteSet(S), NEW n \in Nat, \A x \in S : amount[x] = n
  PROVE  SumOf(amount, S) = Cardinality(S) * n
<1>1. Amounts(amount, S)
  BY DEF Amounts
<1>2. Cells(amount, S) = S \X (1 .. n)
  <2>1. \A x \in S, k \in Nat \ {0} : k <= amount[x] <=> k \in 1 .. n
    OBVIOUS
  <2>2. 1 .. n \subseteq Nat \ {0}
    OBVIOUS
  <2>3. QED
    BY <2>1, <2>2 DEF Cells
<1>3. IsFiniteSet(1 .. n) /\ Cardinality(1 .. n) = n
  <2>1. 1 \in Int /\ n \in Int
    OBVIOUS
  <2>2. IsFiniteSet(1 .. n) /\ Cardinality(1 .. n) = IF 1 > n THEN 0 ELSE n - 1 + 1
    BY <2>1, FS_Interval
  <2>3. QED
    BY <2>2
<1>4. Cardinality(S \X (1 .. n)) = Cardinality(S) * n
  BY <1>3, FS_Product
<1>5. QED
  BY <1>1, <1>2, <1>4, SumCounts

(***************************************************************************)
(* Lemma: the sums of two columns sum up to that of their sum.             *)
(***************************************************************************)
LEMMA SumOfColumns ==
  ASSUME NEW f, NEW g, NEW both, NEW S, IsFiniteSet(S), Amounts(f, S), Amounts(g, S),
         \A x \in S : both[x] = f[x] + g[x]
  PROVE  SumOf(both, S) = SumOf(f, S) + SumOf(g, S)
<1> DEFINE Right == {T \in SUBSET S : SumOf(both, T) = SumOf(f, T) + SumOf(g, T)}
<1>1. ASSUME NEW T \in SUBSET S, \A U \in SUBSET T : U # T => U \in Right
      PROVE  T \in Right
  <2>1. CASE T = {}
    BY <2>1, SumOfNone
  <2>2. CASE T # {}
    <3>1. PICK x \in T : TRUE
      BY <2>2
    <3>2. PICK U \in SUBSET T : U = T \ {x}
      OBVIOUS
    <3>3. U \in Right /\ T = U \cup {x} /\ x \notin U /\ x \in S
      BY <1>1, <3>1, <3>2
    <3>4. IsFiniteSet(U) /\ Amounts(f, U) /\ Amounts(g, U) /\ Amounts(both, U)
      BY <3>2, FS_Subset DEF Amounts
    <3>5. f[x] \in Nat /\ g[x] \in Nat /\ both[x] \in Nat /\ both[x] = f[x] + g[x]
      BY <3>3 DEF Amounts
    <3>6. /\ SumOf(f, U) \in Nat /\ SumOf(f, T) = SumOf(f, U) + f[x]
          /\ SumOf(g, U) \in Nat /\ SumOf(g, T) = SumOf(g, U) + g[x]
          /\ SumOf(both, T) = SumOf(both, U) + both[x]
      <4> HIDE DEF Right
      <4>1. SumOf(f, U) \in Nat /\ SumOf(f, U \cup {x}) = SumOf(f, U) + f[x]
        BY <3>3, <3>4, <3>5, SumOfMore
      <4>2. SumOf(g, U) \in Nat /\ SumOf(g, U \cup {x}) = SumOf(g, U) + g[x]
        BY <3>3, <3>4, <3>5, SumOfMore
      <4>3. SumOf(both, U \cup {x}) = SumOf(both, U) + both[x]
        BY <3>3, <3>4, <3>5, SumOfMore
      <4>4. QED
        BY <3>3, <4>1, <4>2, <4>3
    <3>7. SumOf(both, U) = SumOf(f, U) + SumOf(g, U)
      BY <3>3
    <3>8. SumOf(both, T) = SumOf(f, T) + SumOf(g, T)
      BY <3>5, <3>6, <3>7
    <3>9. QED
      BY <3>8
  <2>3. QED
    BY <2>1, <2>2
<1>2. S \in Right
  <2> HIDE DEF Right
  <2>1. QED
    BY <1>1, SubsetInduction
<1>3. QED
  BY <1>2

(***************************************************************************)
(* Lemma: rows that are read in another order sum up to the same.          *)
(***************************************************************************)
LEMMA SumReordered ==
  ASSUME NEW D, IsFiniteSet(D), NEW order \in Bijection(D, D),
         NEW amount, Amounts(amount, D), NEW read, \A i \in D : read[i] = amount[order[i]],
         NEW S \in SUBSET D
  PROVE  SumOf(read, S) = SumOf(amount, {order[i] : i \in S})
<1> DEFINE Image(T) == {order[i] : i \in T}
           Right == {T \in SUBSET S : SumOf(read, T) = SumOf(amount, Image(T))}
<1>1. /\ \A i \in D : order[i] \in D
      /\ \A i, j \in D : order[i] = order[j] => i = j
  BY DEF Bijection, Injection, IsInjective
<1>2. ASSUME NEW T \in SUBSET S, \A U \in SUBSET T : U # T => U \in Right
      PROVE  T \in Right
  <2>1. CASE T = {}
    <3>1. Image(T) = {}
      BY <2>1
    <3>2. QED
      BY <2>1, <3>1, SumOfNone
  <2>2. CASE T # {}
    <3>1. PICK x \in T : TRUE
      BY <2>2
    <3>2. PICK U \in SUBSET T : U = T \ {x}
      OBVIOUS
    <3>3. U \in Right /\ T = U \cup {x} /\ x \notin U /\ x \in D /\ U \in SUBSET D
      BY <1>2, <3>1, <3>2
    <3>4. /\ Image(T) = Image(U) \cup {order[x]} /\ order[x] \notin Image(U)
          /\ Image(U) \in SUBSET D
      BY <1>1, <3>3
    <3> HIDE DEF Image
    <3>5. /\ IsFiniteSet(U) /\ Amounts(read, U)
          /\ IsFiniteSet(Image(U)) /\ Amounts(amount, Image(U))
          /\ amount[order[x]] \in Nat /\ read[x] = amount[order[x]]
      BY <1>1, <3>3, <3>4, FS_Subset DEF Amounts
    <3>6. /\ SumOf(read, U \cup {x}) = SumOf(read, U) + read[x]
          /\ SumOf(amount, Image(U) \cup {order[x]}) = SumOf(amount, Image(U)) + amount[order[x]]
      BY <3>3, <3>4, <3>5, SumOfMore
    <3>7. SumOf(read, T) = SumOf(amount, Image(T))
      BY <3>3, <3>4, <3>5, <3>6
    <3>8. QED
      BY <3>7
  <2>3. QED
    BY <2>1, <2>2
<1>3. S \in Right
  <2>1. IsFiniteSet(S)
    BY FS_Subset
  <2> HIDE DEF Right
  <2>2. QED
    BY <1>2, <2>1, SubsetInduction
<1>4. QED
  BY <1>3

-----------------------------------------------------------------------------
(***************************************************************************)
(* Lemma: whatever has numbers can be sorted by them.  The place of a row  *)
(* is one more than the number of rows before it, where equal ones come in *)
(* the order they had.                                                     *)
(***************************************************************************)
LEMMA CanBeSorted ==
  ASSUME NEW n \in Nat, NEW key, \A i \in 1 .. n : key[i] \in Nat
  PROVE  \E order \in Bijection(1 .. n, 1 .. n) :
           \A i, j \in 1 .. n : i < j => key[order[i]] <= key[order[j]]
<1> PICK D : D = 1 .. n
    OBVIOUS
<1> DEFINE Before(i, j) == key[i] < key[j] \/ (key[i] = key[j] /\ i < j)
           Lower(i) == {j \in D : Before(j, i)}
           rank == [i \in D |-> Cardinality(Lower(i)) + 1]
<1>1. IsFiniteSet(D) /\ Cardinality(D) = n
  <2>1. 1 \in Int /\ n \in Int
    OBVIOUS
  <2>2. IsFiniteSet(1 .. n) /\ Cardinality(1 .. n) = IF 1 > n THEN 0 ELSE n - 1 + 1
    BY <2>1, FS_Interval
  <2>3. QED
    BY <2>2
<1>2. \A i, j \in D : key[i] \in Nat /\ i \in Nat /\ (i # j => Before(i, j) \/ Before(j, i))
  OBVIOUS
<1>3. ASSUME NEW i \in D
      PROVE  /\ IsFiniteSet(Lower(i)) /\ Cardinality(Lower(i)) \in Nat
             /\ Lower(i) \subseteq D \ {i} /\ Cardinality(Lower(i)) < n
  <2>1. Lower(i) \subseteq D \ {i}
    BY <1>2
  <2>2. IsFiniteSet(D \ {i}) /\ Cardinality(D \ {i}) = n - 1
    BY <1>1, FS_RemoveElement
  <2> HIDE DEF Lower
  <2>3. IsFiniteSet(Lower(i)) /\ Cardinality(Lower(i)) <= n - 1
    BY <2>1, <2>2, FS_Subset
  <2>4. QED
    BY <2>1, <2>3, FS_CardinalityType
<1>4. rank \in [D -> D]
  <2> HIDE DEF Lower
  <2>1. \A i \in D : Cardinality(Lower(i)) + 1 \in D
    BY <1>3
  <2>2. QED
    BY <2>1
<1>5. ASSUME NEW i \in D, NEW j \in D, Before(i, j)
      PROVE  rank[i] < rank[j]
  <2>1. Lower(i) \cup {i} \subseteq Lower(j)
    BY <1>2, <1>5
  <2> HIDE DEF Lower, Before
  <2>2. i \notin Lower(i) /\ IsFiniteSet(Lower(i))
    BY <1>3
  <2>3. Cardinality(Lower(i) \cup {i}) = Cardinality(Lower(i)) + 1
    BY <2>2, FS_AddElement
  <2>4. Cardinality(Lower(i) \cup {i}) <= Cardinality(Lower(j))
    BY <1>3, <2>1, FS_Subset
  <2>5. QED
    BY <1>3, <2>3, <2>4
<1> HIDE DEF Lower
<1>6. rank \in Bijection(D, D)
  <2>1. \A i, j \in D : rank[i] = rank[j] => i = j
    <3>1. \A i \in D : rank[i] \in Int
      BY <1>4
    <3> HIDE DEF rank, Before
    <3>2. QED
      BY <1>2, <1>5, <3>1
  <2> HIDE DEF rank
  <2>2. rank \in Injection(D, D)
    BY <1>4, <2>1, Fun_IsInj
  <2>3. rank \in Surjection(D, D)
    BY <1>1, <2>2, FS_Injection
  <2>4. QED
    BY <2>2, <2>3 DEF Bijection
<1> HIDE DEF rank
<1>7. PICK order : order = Inverse(rank, D, D)
  OBVIOUS
<1>8. order \in Bijection(D, D) /\ \A i \in D : order[rank[i]] = i
  BY <1>6, <1>7, Fun_BijInverse
<1>9. \A i \in D : order[i] \in D /\ rank[order[i]] = i
  <2>1. \A i \in D : \E s \in D : rank[s] = i
    BY <1>6 DEF Bijection, Surjection
  <2>2. \A s \in D : order[rank[s]] \in D /\ rank[order[rank[s]]] = rank[s]
    BY <1>8
  <2>3. QED
    BY <2>1, <2>2
<1>10. ASSUME NEW i \in D, NEW j \in D, i < j
       PROVE  key[order[i]] <= key[order[j]]
  <2>1. SUFFICES ASSUME key[order[j]] < key[order[i]] PROVE FALSE
    BY <1>2, <1>9
  <2>2. rank[order[j]] < rank[order[i]]
    BY <1>5, <1>9, <2>1
  <2>3. QED
    BY <1>2, <1>9, <1>10, <2>2
<1>11. QED
  BY <1>8, <1>10

-----------------------------------------------------------------------------
(***************************************************************************)
(* Lemma: the loop over the tiers has an order.                            *)
(***************************************************************************)
LEMMA TiersAreSorted ==
  ASSUME NEW t \in Terms
  PROVE  /\ t.tiers \in Seq(Tier)
         /\ ByMin[t.tiers] \in Bijection(DOMAIN t.tiers, DOMAIN t.tiers)
         /\ Sorted(ByMin[t.tiers], t.tiers)
<1>1. PICK tiers : tiers = t.tiers
  OBVIOUS
<1>2. tiers \in Seq(Tier)
  BY <1>1, EntitlementAssumption DEF TermsType
<1>3. PICK n \in Nat : n = Len(tiers) /\ DOMAIN tiers = 1 .. n
  BY <1>2
<1>4. PICK key : key = [i \in 1 .. n |-> Coalesce(tiers[i].min, 0)]
  OBVIOUS
<1>5. \A i \in 1 .. n : key[i] \in Nat /\ key[i] = Coalesce(tiers[i].min, 0)
  <2>1. \A i \in 1 .. n : tiers[i] \in Tier
    BY <1>2, <1>3
  <2>2. QED
    BY <1>4, <2>1 DEF Tier, Price, Coalesce
<1>6. PICK order \in Bijection(1 .. n, 1 .. n) :
        \A i, j \in 1 .. n : i < j => key[order[i]] <= key[order[j]]
  BY <1>5, CanBeSorted
<1>7. \A i \in 1 .. n : order[i] \in 1 .. n
  BY <1>6 DEF Bijection, Injection
<1>8. Sorted(order, tiers)
  BY <1>3, <1>5, <1>6, <1>7 DEF Sorted
<1>9. ByMin[tiers] = CHOOSE o \in Bijection(DOMAIN tiers, DOMAIN tiers) : Sorted(o, tiers)
  <2>1. tiers \in {c.tiers : c \in Terms}
    BY <1>1
  <2>2. QED
    BY <2>1 DEF ByMin
<1>10. QED
  BY <1>1, <1>2, <1>3, <1>8, <1>9

(***************************************************************************)
(* The kopecks of an amount that a tier covers, one by one.                *)
(***************************************************************************)
Covers(tier, k) == Coalesce(tier.min, 0) < k /\ k <= Coalesce(tier.max, k)

(***************************************************************************)
(* Lemma: the greater, and the lesser, of two numbers.                     *)
(***************************************************************************)
LEMMA MaxOfTwo ==
  ASSUME NEW x \in Int, NEW y \in Int
  PROVE  Max({x, y}) = (IF x >= y THEN x ELSE y) /\ Min({x, y}) = (IF x <= y THEN x ELSE y)
<1>1. PICK m \in {x, y} : m = (IF x >= y THEN x ELSE y) /\ \A z \in {x, y} : m >= z
  OBVIOUS
<1>2. PICK l \in {x, y} : l = (IF x <= y THEN x ELSE y) /\ \A z \in {x, y} : l <= z
  OBVIOUS
<1>3. Max({x, y}) = m
  <2>1. \A z \in {x, y} : (\A w \in {x, y} : z >= w) => z = m
    BY <1>1
  <2>2. Max({x, y}) \in {x, y} /\ \A w \in {x, y} : Max({x, y}) >= w
    BY <1>1 DEF Max
  <2>3. QED
    BY <2>1, <2>2
<1>4. Min({x, y}) = l
  <2>1. \A z \in {x, y} : (\A w \in {x, y} : z <= w) => z = l
    BY <1>2
  <2>2. Min({x, y}) \in {x, y} /\ \A w \in {x, y} : Min({x, y}) <= w
    BY <1>2 DEF Min
  <2>3. QED
    BY <2>1, <2>2
<1>5. QED
  BY <1>1, <1>2, <1>3, <1>4

(***************************************************************************)
(* Lemma: the part of an amount in a tier is as many kopecks as the tier   *)
(* covers, also when the tier has no end, or ends before it begins.        *)
(***************************************************************************)
LEMMA SegmentCounts ==
  ASSUME NEW amount \in Nat, NEW tier \in Tier
  PROVE  LET covered == {k \in 1 .. amount : Covers(tier, k)}
         IN /\ Segment(amount, tier) \in Nat
            /\ IsFiniteSet(covered) /\ Cardinality(covered) = Segment(amount, tier)
            /\ amount <= Coalesce(tier.min, 0) => Segment(amount, tier) = 0
<1> DEFINE covered == {k \in 1 .. amount : Covers(tier, k)}
<1>1. PICK lo \in Nat : lo = Coalesce(tier.min, 0)
  BY EntitlementAssumption DEF Tier, Price, Coalesce
<1>2. PICK top \in Nat : top = Coalesce(tier.max, amount)
  BY EntitlementAssumption DEF Tier, Price, Coalesce
<1>3. PICK hi \in Nat : hi = IF amount <= top THEN amount ELSE top
  OBVIOUS
<1>4. Min({amount, top}) = hi
  BY <1>3, MaxOfTwo
<1>5. Segment(amount, tier) = IF 0 >= hi - lo THEN 0 ELSE hi - lo
  <2>1. Segment(amount, tier) = Max({0, hi - lo})
    BY <1>1, <1>2, <1>4 DEF Segment
  <2>2. QED
    BY <2>1, MaxOfTwo
<1>6. covered = (lo + 1) .. hi
  <2>1. ASSUME NEW k \in 1 .. amount
        PROVE  Covers(tier, k) <=> lo < k /\ k <= hi
    <3>1. k <= Coalesce(tier.max, k) <=> k <= top
      BY <1>2, EntitlementAssumption DEF Coalesce, Tier, Price
    <3>2. QED
      BY <1>1, <1>3, <3>1 DEF Covers
  <2>2. QED
    BY <1>3, <2>1
<1>7. /\ IsFiniteSet((lo + 1) .. hi)
      /\ Cardinality((lo + 1) .. hi) = IF lo + 1 > hi THEN 0 ELSE hi - (lo + 1) + 1
  BY FS_Interval
<1>8. Segment(amount, tier) \in Nat /\ Cardinality((lo + 1) .. hi) = Segment(amount, tier)
  BY <1>5, <1>7
<1>9. amount <= lo => Segment(amount, tier) = 0
  BY <1>3, <1>5
<1> HIDE DEF covered
<1>10. IsFiniteSet(covered) /\ Cardinality(covered) = Segment(amount, tier)
  BY <1>6, <1>7, <1>8
<1>11. QED
  BY <1>1, <1>8, <1>9, <1>10 DEF covered

(***************************************************************************)
(* What the tiers earn when each of them takes its turn.                   *)
(***************************************************************************)
Whole(amount, tiers) == [i \in DOMAIN tiers |-> Segment(amount, tiers[i]) * tiers[i].rate]

(***************************************************************************)
(* Lemma: a tier earns a number, none of an amount it does not reach, and  *)
(* of a greater amount no less.                                            *)
(***************************************************************************)
LEMMA WholeTyped ==
  ASSUME NEW tiers \in Seq(Tier), NEW amount \in Nat
  PROVE  /\ IsFiniteSet(DOMAIN tiers)
         /\ Amounts(Whole(amount, tiers), DOMAIN tiers)
         /\ \A i \in DOMAIN tiers :
              /\ tiers[i] \in Tier
              /\ amount <= Coalesce(tiers[i].min, 0) => Whole(amount, tiers)[i] = 0
<1>1. IsFiniteSet(DOMAIN tiers)
  <2>1. DOMAIN tiers = 1 .. Len(tiers) /\ Len(tiers) \in Nat
    OBVIOUS
  <2>2. QED
    BY <2>1, FS_Interval
<1>2. ASSUME NEW i \in DOMAIN tiers
      PROVE  /\ tiers[i] \in Tier /\ Whole(amount, tiers)[i] \in Nat
             /\ amount <= Coalesce(tiers[i].min, 0) => Whole(amount, tiers)[i] = 0
  <2>1. tiers[i] \in Tier
    OBVIOUS
  <2>2. PICK s \in Nat, r \in Nat : s = Segment(amount, tiers[i]) /\ r = tiers[i].rate
    BY <2>1, SegmentCounts DEF Tier
  <2>3. amount <= Coalesce(tiers[i].min, 0) => s = 0
    BY <2>1, <2>2, SegmentCounts
  <2>4. Whole(amount, tiers)[i] = s * r
    BY <2>2 DEF Whole
  <2>5. s * r \in Nat /\ (s = 0 => s * r = 0)
    OBVIOUS
  <2>6. QED
    BY <2>1, <2>3, <2>4, <2>5
<1>3. QED
  BY <1>1, <1>2 DEF Amounts

(***************************************************************************)
(* Lemma: the loop leaves out only tiers that would earn nothing, so that  *)
(* the order in which they were entered does not matter.                   *)
(***************************************************************************)
LEMMA LoopEarnsWhole ==
  ASSUME NEW t \in Terms, NEW amount \in Nat
  PROVE  Earned(amount, t.tiers) = SumOf(Whole(amount, t.tiers), DOMAIN t.tiers)
<1>1. PICK tiers : tiers = t.tiers
  OBVIOUS
<1>2. PICK D : D = DOMAIN tiers
  OBVIOUS
<1>3. PICK order : order = ByMin[tiers]
  OBVIOUS
<1>4. tiers \in Seq(Tier) /\ order \in Bijection(D, D) /\ Sorted(order, tiers)
  BY <1>1, <1>2, <1>3, TiersAreSorted
<1>5. PICK whole : whole = Whole(amount, tiers)
  OBVIOUS
<1>6. /\ IsFiniteSet(D) /\ Amounts(whole, D) /\ D \subseteq Nat
      /\ \A i \in D : tiers[i] \in Tier
      /\ \A i \in D : amount <= Coalesce(tiers[i].min, 0) => whole[i] = 0
  BY <1>2, <1>4, <1>5, WholeTyped
<1>7. PICK turn : turn = [i \in D |-> Segment(amount, tiers[order[i]]) * tiers[order[i]].rate]
  OBVIOUS
<1>8. PICK S \in SUBSET D : S = Turns(amount, tiers)
  BY <1>2 DEF Turns
<1>9. Earned(amount, tiers) = SumOf(turn, S)
  BY <1>2, <1>3, <1>7, <1>8 DEF Earned
<1>10. /\ \A i \in D : order[i] \in D /\ turn[i] = whole[order[i]]
       /\ \A d \in D : \E i \in D : order[i] = d
  BY <1>2, <1>4, <1>5, <1>7 DEF Bijection, Injection, Surjection, Whole
<1>11. PICK taken : taken = {order[i] : i \in S}
  OBVIOUS
<1>12. SumOf(turn, S) = SumOf(whole, taken)
  <2>1. IsFiniteSet(D) /\ Amounts(whole, D) /\ \A i \in D : turn[i] = whole[order[i]]
    BY <1>6, <1>10
  <2>2. SumOf(turn, S) = SumOf(whole, {order[i] : i \in S})
    BY <1>4, <2>1, SumReordered
  <2>3. QED
    BY <1>11, <2>2
<1>13. ASSUME NEW d \in D \ taken
       PROVE  whole[d] = 0
  <2>1. PICK i \in D : order[i] = d /\ i \notin S
    BY <1>10, <1>11, <1>13
  <2>2. PICK j \in 1 .. i : ~(amount > Coalesce(tiers[order[j]].min, 0))
    BY <1>2, <1>3, <1>8, <2>1 DEF Turns
  <2>3. j \in D /\ i \in Nat /\ j \in Nat /\ j <= i
    <3>1. D = 1 .. Len(tiers) /\ Len(tiers) \in Nat
      BY <1>2, <1>4
    <3>2. QED
      BY <2>1, <2>2, <3>1
  <2>4. /\ Coalesce(tiers[order[i]].min, 0) \in Nat /\ Coalesce(tiers[order[j]].min, 0) \in Nat
        /\ tiers[order[i]] \in Tier
    BY <1>6, <1>10, <2>1, <2>3 DEF Tier, Price, Coalesce
  <2>5. Coalesce(tiers[order[j]].min, 0) <= Coalesce(tiers[order[i]].min, 0)
    BY <1>2, <1>4, <2>1, <2>3, <2>4 DEF Sorted
  <2>6. amount <= Coalesce(tiers[d].min, 0)
    BY <2>1, <2>2, <2>4, <2>5
  <2>7. QED
    BY <1>6, <2>6
<1>14. taken \in SUBSET D
  BY <1>10, <1>11
<1>15. SumOf(whole, taken) = SumOf(whole, D)
  <2>1. IsFiniteSet(D) /\ Amounts(whole, D)
    BY <1>6
  <2>2. (\A d \in taken : whole[d] = whole[d]) /\ \A d \in D \ taken : whole[d] = 0
    BY <1>13
  <2>3. QED
    BY <1>14, <2>1, <2>2, SumWithoutZeros
<1>16. QED
  BY <1>1, <1>2, <1>5, <1>9, <1>12, <1>15

(***************************************************************************)
(* Lemma: kopeck by kopeck the tiers earn the same.                        *)
(***************************************************************************)
LEMMA KopecksEarnWhole ==
  ASSUME NEW tiers \in Seq(Tier), NEW amount \in Nat
  PROVE  SumAll([k \in 1 .. amount |-> EarnedBy(k, tiers)])
           = SumOf(Whole(amount, tiers), DOMAIN tiers)
<1>1. PICK D : D = DOMAIN tiers
  OBVIOUS
<1>2. PICK K : K = 1 .. amount
  OBVIOUS
<1>3. PICK whole : whole = Whole(amount, tiers)
  OBVIOUS
<1>4. PICK rates : rates = [i \in D |-> tiers[i].rate]
  OBVIOUS
<1>5. /\ IsFiniteSet(D) /\ Amounts(whole, D) /\ Amounts(rates, D)
      /\ \A i \in D : tiers[i] \in Tier /\ rates[i] = tiers[i].rate
  <2>1. /\ IsFiniteSet(D) /\ Amounts(whole, D)
        /\ \A i \in D : tiers[i] \in Tier
    BY <1>1, <1>3, WholeTyped
  <2>2. \A i \in D : rates[i] = tiers[i].rate /\ rates[i] \in Nat
    BY <1>4, <2>1 DEF Tier
  <2>3. QED
    BY <2>1, <2>2 DEF Amounts
<1>6. IsFiniteSet(K)
  BY <1>2, FS_Interval
<1> DEFINE Here(k, T) == {i \in T : Covers(tiers[i], k)}
           By(T) == [k \in K |-> SumOf(rates, Here(k, T))]
           Right == {T \in SUBSET D : SumOf(By(T), K) = SumOf(whole, T)}
<1>7. ASSUME NEW T \in SUBSET D, NEW k
      PROVE  IsFiniteSet(Here(k, T)) /\ Amounts(rates, Here(k, T)) /\ SumOf(rates, Here(k, T)) \in Nat
  <2>1. Here(k, T) \in SUBSET D
    OBVIOUS
  <2>2. IsFiniteSet(Here(k, T)) /\ Amounts(rates, Here(k, T))
    BY <1>5, <2>1, FS_Subset DEF Amounts
  <2> HIDE DEF Here
  <2>3. QED
    BY <2>2, SumCounts, FS_CardinalityType
<1>8. ASSUME NEW T \in SUBSET D, \A U \in SUBSET T : U # T => U \in Right
      PROVE  T \in Right
  <2>1. CASE T = {}
    <3>1. \A k \in K : By(T)[k] = 0
      <4>1. \A k \in K : Here(k, T) = {}
        BY <2>1
      <4> HIDE DEF Here
      <4>2. QED
        BY <4>1, SumOfNone
    <3> HIDE DEF By
    <3>2. SumOf(By(T), K) = Cardinality(K) * 0
      BY <1>6, <3>1, SumOfSame
    <3>3. Cardinality(K) * 0 = 0
      BY <1>6, FS_CardinalityType
    <3>4. QED
      BY <2>1, <3>2, <3>3, SumOfNone
  <2>2. CASE T # {}
    <3>1. PICK x \in T : TRUE
      BY <2>2
    <3>2. PICK U \in SUBSET T : U = T \ {x}
      OBVIOUS
    <3>3. U \in Right /\ T = U \cup {x} /\ x \notin U /\ x \in D /\ U \in SUBSET D
      BY <1>8, <3>1, <3>2
    <3>4. PICK n \in Nat : n = rates[x]
      BY <1>5, <3>3 DEF Amounts
    <3>5. PICK own : own = [k \in K |-> IF Covers(tiers[x], k) THEN n ELSE 0]
      OBVIOUS
    <3>6. ASSUME NEW k \in K
          PROVE  By(T)[k] = By(U)[k] + own[k] /\ By(U)[k] \in Nat /\ own[k] \in Nat
      <4>1. /\ By(T)[k] = SumOf(rates, Here(k, T)) /\ By(U)[k] = SumOf(rates, Here(k, U))
            /\ SumOf(rates, Here(k, U)) \in Nat
        BY <1>7, <3>3
      <4>2. CASE Covers(tiers[x], k)
        <5>1. Here(k, T) = Here(k, U) \cup {x} /\ x \notin Here(k, U)
          BY <3>3, <4>2
        <5>2. IsFiniteSet(Here(k, U)) /\ Amounts(rates, Here(k, U))
          BY <1>7, <3>3
        <5> HIDE DEF Here
        <5>3. SumOf(rates, Here(k, U) \cup {x}) = SumOf(rates, Here(k, U)) + rates[x]
          BY <3>4, <5>1, <5>2, SumOfMore
        <5>4. QED
          BY <3>4, <3>5, <4>1, <4>2, <5>1, <5>3
      <4>3. CASE ~Covers(tiers[x], k)
        <5>1. Here(k, T) = Here(k, U)
          BY <3>3, <4>3
        <5>2. own[k] = 0
          BY <3>5, <4>3
        <5> HIDE DEF By, Here
        <5>3. QED
          BY <4>1, <5>1, <5>2
      <4>4. QED
        BY <4>2, <4>3
    <3>7. Amounts(By(U), K) /\ Amounts(own, K) /\ \A k \in K : By(T)[k] = By(U)[k] + own[k]
      BY <3>6 DEF Amounts
    <3> HIDE DEF By
    <3>8. SumOf(By(T), K) = SumOf(By(U), K) + SumOf(own, K)
      BY <1>6, <3>7, SumOfColumns
    <3>9. SumOf(own, K) = whole[x]
      <4>1. PICK covered \in SUBSET K : covered = {k \in K : Covers(tiers[x], k)}
        OBVIOUS
      <4>2. IsFiniteSet(covered) /\ Cardinality(covered) = Segment(amount, tiers[x])
        BY <1>2, <1>5, <3>3, <4>1, SegmentCounts
      <4>3. /\ \A k \in covered : own[k] = n
            /\ \A k \in K \ covered : own[k] = 0
        BY <3>5, <4>1
      <4>4. SumOf(own, covered) = SumOf(own, K)
        BY <1>6, <3>7, <4>3, SumWithoutZeros
      <4>5. SumOf(own, covered) = Cardinality(covered) * n
        BY <4>2, <4>3, SumOfSame
      <4>6. whole[x] = Segment(amount, tiers[x]) * tiers[x].rate
        BY <1>1, <1>3, <3>3 DEF Whole
      <4>7. QED
        BY <1>5, <3>3, <3>4, <4>2, <4>4, <4>5, <4>6
    <3>10. SumOf(whole, U \cup {x}) = SumOf(whole, U) + whole[x]
      <4>1. IsFiniteSet(U) /\ Amounts(whole, U) /\ whole[x] \in Nat
        BY <1>5, <3>3, FS_Subset DEF Amounts
      <4> HIDE DEF Right
      <4>2. QED
        BY <3>3, <4>1, SumOfMore
    <3>11. SumOf(By(U), K) = SumOf(whole, U)
      BY <3>3
    <3>12. SumOf(By(T), K) = SumOf(whole, T)
      BY <3>3, <3>8, <3>9, <3>10, <3>11
    <3>13. QED
      BY <3>12
  <2>3. QED
    BY <2>1, <2>2
<1>9. D \in Right
  <2> HIDE DEF Right
  <2>1. QED
    BY <1>5, <1>8, SubsetInduction
<1>10. [k \in 1 .. amount |-> EarnedBy(k, tiers)] = By(D)
  <2>1. \A k \in K : EarnedBy(k, tiers) = SumOf(rates, Here(k, D))
    BY <1>1, <1>4 DEF EarnedBy, Covers
  <2>2. QED
    BY <1>2, <2>1
<1>11. SumAll(By(D)) = SumOf(By(D), K)
  BY DEF SumAll
<1> HIDE DEF By
<1>12. QED
  BY <1>1, <1>3, <1>9, <1>10, <1>11

-----------------------------------------------------------------------------
(***************************************************************************)
(* Lemma: rounding keeps the order.                                        *)
(***************************************************************************)
LEMMA RoundedGrows ==
  ASSUME NEW x \in Nat, NEW y \in Nat, x <= y
  PROVE  Rounded(x) \in Nat /\ Rounded(y) \in Nat /\ Rounded(x) <= Rounded(y)
BY DEF Rounded

(***************************************************************************)
(* Lemma: a rate pays more for more.                                       *)
(***************************************************************************)
LEMMA FlatGrows ==
  ASSUME NEW x \in Nat, NEW y \in Nat, x <= y, NEW rate \in Nat
  PROVE  x * rate \in Nat /\ y * rate \in Nat /\ x * rate <= y * rate
<1>1. PICK d \in Nat : y = x + d
  <2>1. y - x \in Nat /\ y = x + (y - x)
    OBVIOUS
  <2>2. QED
    BY <2>1
<1>2. x * rate \in Nat /\ d * rate \in Nat
  OBVIOUS
<1>3. (x + d) * rate = x * rate + d * rate
  OBVIOUS
<1>4. QED
  BY <1>1, <1>2, <1>3

(***************************************************************************)
(* Lemma: the scale is what the tiers earn kopeck by kopeck, and it pays   *)
(* more for more.                                                          *)
(***************************************************************************)
LEMMA ScaleGrows ==
  ASSUME NEW c, terms[c] \in Terms, NEW amount \in Nat, NEW less \in Nat, less <= amount
  PROVE  /\ Scale(c, amount) \in Nat /\ Scale(c, less) \in Nat
         /\ Scale(c, less) <= Scale(c, amount)
         /\ terms[c].tiers # <<>> =>
              Scale(c, amount) = Rounded(SumAll([k \in 1 .. amount |-> EarnedBy(k, terms[c].tiers)]))
<1>1. PICK t \in Terms : t = terms[c]
  OBVIOUS
<1>2. t.tiers \in Seq(Tier) /\ t.rate \in Nat
  <2>1. t.tiers \in Seq(Tier) /\ t.rate \in 0 .. 100
    BY EntitlementAssumption DEF TermsType
  <2>2. 0 .. 100 \subseteq Nat
    OBVIOUS
  <2>3. QED
    BY <2>1, <2>2
<1>3. CASE t.tiers = <<>>
  BY <1>1, <1>2, <1>3, FlatGrows, RoundedGrows DEF Scale
<1>4. CASE t.tiers # <<>>
  <2>1. PICK tiers \in Seq(Tier) : tiers = t.tiers
    BY <1>2
  <2>2. /\ Earned(amount, tiers) = SumOf(Whole(amount, tiers), DOMAIN tiers)
        /\ Earned(less, tiers) = SumOf(Whole(less, tiers), DOMAIN tiers)
    BY <2>1, LoopEarnsWhole
  <2>3. /\ IsFiniteSet(DOMAIN tiers) /\ DOMAIN tiers \in SUBSET DOMAIN tiers
        /\ Amounts(Whole(amount, tiers), DOMAIN tiers)
        /\ Amounts(Whole(less, tiers), DOMAIN tiers)
    BY WholeTyped
  <2>4. ASSUME NEW i \in DOMAIN tiers
        PROVE  Whole(less, tiers)[i] <= Whole(amount, tiers)[i]
    <3>1. tiers[i] \in Tier
      OBVIOUS
    <3>2. PICK part : part = {k \in 1 .. less : Covers(tiers[i], k)}
      OBVIOUS
    <3>3. PICK all : all = {k \in 1 .. amount : Covers(tiers[i], k)}
      OBVIOUS
    <3>4. /\ Segment(less, tiers[i]) \in Nat /\ Segment(amount, tiers[i]) \in Nat
          /\ Cardinality(part) = Segment(less, tiers[i])
          /\ IsFiniteSet(all) /\ Cardinality(all) = Segment(amount, tiers[i])
      BY <3>1, <3>2, <3>3, SegmentCounts
    <3>5. part \in SUBSET all
      BY <3>2, <3>3
    <3>6. Cardinality(part) <= Cardinality(all)
      BY <3>4, <3>5, FS_Subset
    <3>7. Segment(less, tiers[i]) <= Segment(amount, tiers[i]) /\ tiers[i].rate \in Nat
      BY <3>1, <3>4, <3>6 DEF Tier
    <3>8. Segment(less, tiers[i]) * tiers[i].rate <= Segment(amount, tiers[i]) * tiers[i].rate
      BY <3>4, <3>7, FlatGrows
    <3>9. QED
      BY <3>8 DEF Whole
  <2>5. /\ SumOf(Whole(less, tiers), DOMAIN tiers) \in Nat
        /\ SumOf(Whole(amount, tiers), DOMAIN tiers) \in Nat
        /\ SumOf(Whole(less, tiers), DOMAIN tiers) <= SumOf(Whole(amount, tiers), DOMAIN tiers)
    BY <2>3, <2>4, SumOfFewer
  <2>6. /\ Rounded(Earned(less, tiers)) \in Nat /\ Rounded(Earned(amount, tiers)) \in Nat
        /\ Rounded(Earned(less, tiers)) <= Rounded(Earned(amount, tiers))
    BY <2>2, <2>5, RoundedGrows
  <2>7. Scale(c, less) = Rounded(Earned(less, tiers)) /\ Scale(c, amount) = Rounded(Earned(amount, tiers))
    BY <1>1, <1>4, <2>1 DEF Scale
  <2>8. SumAll([k \in 1 .. amount |-> EarnedBy(k, tiers)]) = Earned(amount, tiers)
    BY <2>2, KopecksEarnWhole
  <2>9. QED
    BY <1>1, <2>1, <2>6, <2>7, <2>8
<1>5. QED
  BY <1>3, <1>4

(***************************************************************************)
(* Lemma: the cashback is a number, and more for more.                     *)
(***************************************************************************)
LEMMA CashbackGrows ==
  ASSUME NEW c, terms[c] \in Terms, NEW amount \in Nat, NEW less \in Nat, less <= amount
  PROVE  /\ CalculateCashback(c, amount) \in Nat
         /\ CalculateCashback(c, less) <= CalculateCashback(c, amount)
<1>1. Scale(c, amount) \in Nat /\ Scale(c, less) \in Nat /\ Scale(c, less) <= Scale(c, amount)
  BY ScaleGrows
<1>2. LeastAmount(c) \in Nat \cup {Null}
  BY EntitlementAssumption DEF TermsType, Price, LeastAmount, Coalesce
<1>3. QED
  BY <1>1, <1>2, EntitlementAssumption DEF CalculateCashback

-----------------------------------------------------------------------------
(***************************************************************************)
(* The inductive invariant of the accruals: what is booked is there.       *)
(***************************************************************************)
BookedWithinLimits ==
  \A c \in CampaignIds :
    /\ spentToday[c] <= budgetSpent[c] /\ budgetSpent[c] <= terms[c].budget
    /\ terms[c].daily # Null => spentToday[c] <= terms[c].daily

EntitlementInv == TermsTypeOK /\ BookedWithinLimits

(***************************************************************************)
(* Lemma: the terms of a campaign are a row of the table.                  *)
(***************************************************************************)
LEMMA TermsTyped ==
  ASSUME TermsTypeOK, NEW c \in CampaignIds
  PROVE  /\ terms[c] \in Terms
         /\ terms[c].budget \in Nat \ {0} /\ terms[c].daily \in Nat \cup {Null}
         /\ terms[c].min \in Nat \cup {Null} /\ terms[c].categoryMin \in Nat \cup {Null}
         /\ terms[c].rate \in 0 .. 100 /\ terms[c].channels \subseteq ChannelNames
         /\ budgetSpent[c] \in Nat /\ spentToday[c] \in Nat
<1>1. PICK t \in Terms : t = terms[c]
  BY DEF TermsTypeOK
<1>2. TermsType(t)
  BY EntitlementAssumption
<1>3. /\ t.budget \in Nat \ {0} /\ t.rate \in 0 .. 100 /\ t.channels \subseteq ChannelNames
      /\ t.daily \in Nat \cup {Null} /\ t.min \in Nat \cup {Null} /\ t.categoryMin \in Nat \cup {Null}
  BY <1>2 DEF TermsType, Price
<1>4. QED
  BY <1>1, <1>3 DEF TermsTypeOK

(***************************************************************************)
(* Lemma: it holds before anything is booked.                              *)
(***************************************************************************)
LEMMA EntitlementBegins == TermsInit => EntitlementInv
<1> SUFFICES ASSUME TermsInit PROVE EntitlementInv
    OBVIOUS
<1>1. TermsTypeOK
  BY DEF TermsInit, TermsTypeOK
<1>2. BookedWithinLimits
  <2>1. \A c \in CampaignIds : /\ terms[c].budget \in Nat /\ terms[c].daily \in Nat \cup {Null}
                               /\ budgetSpent[c] = 0 /\ spentToday[c] = 0
    BY <1>1, TermsTyped DEF TermsInit
  <2>2. QED
    BY <2>1 DEF BookedWithinLimits
<1>3. QED
  BY <1>1, <1>2 DEF EntitlementInv

(***************************************************************************)
(* Lemma: every step keeps it; an accrual checks for all it books.         *)
(***************************************************************************)
LEMMA EntitlementGoesOn == EntitlementInv /\ [TermsNext]_termVars => EntitlementInv'
<1> SUFFICES ASSUME EntitlementInv, [TermsNext]_termVars PROVE EntitlementInv'
    OBVIOUS
<1>0. TermsTypeOK /\ BookedWithinLimits
  BY DEF EntitlementInv
<1>1. CASE UNCHANGED termVars
  BY <1>0, <1>1 DEF termVars, EntitlementInv, TermsTypeOK, BookedWithinLimits
<1>2. ASSUME NEW answer \in {"GRANTED", "WITHDRAWN"}, Consent(answer)
      PROVE  EntitlementInv'
  BY <1>0, <1>2 DEF Consent, EntitlementInv, TermsTypeOK, BookedWithinLimits
<1>3. ASSUME NEW c \in CampaignIds, CloseCampaign(c)
      PROVE  EntitlementInv'
  BY <1>0, <1>3 DEF CloseCampaign, EntitlementInv, TermsTypeOK, BookedWithinLimits
<1>4. CASE Midnight
  <2>1. TermsTypeOK'
    BY <1>0, <1>4 DEF Midnight, TermsTypeOK
  <2>2. \A c \in CampaignIds : /\ terms[c].daily \in Nat \cup {Null} /\ budgetSpent[c] \in Nat
                               /\ spentToday'[c] = 0
    BY <1>0, <1>4, TermsTyped DEF Midnight
  <2>3. BookedWithinLimits'
    BY <1>0, <1>4, <2>2 DEF Midnight, BookedWithinLimits
  <2>4. QED
    BY <2>1, <2>3 DEF EntitlementInv
<1>5. ASSUME NEW c \in CampaignIds, NEW amount \in PurchaseAmounts, AccrueDue(c, amount)
      PROVE  EntitlementInv'
  <2>1. PICK cashback \in Nat : cashback = CalculateCashback(c, amount)
    BY <1>0, TermsTyped, CashbackGrows, EntitlementAssumption
  <2>2. /\ budgetSpent' = [budgetSpent EXCEPT ![c] = budgetSpent[c] + cashback]
        /\ spentToday' = [spentToday EXCEPT ![c] = spentToday[c] + cashback]
        /\ UNCHANGED <<terms, running, segment, rfm, consent>>
    BY <1>0, <1>5, <2>1 DEF AccrueDue, TermsTypeOK
  <2>3. /\ terms[c].daily # Null => spentToday[c] + cashback <= terms[c].daily
        /\ cashback <= terms[c].budget - budgetSpent[c]
    BY <1>5, <2>1 DEF AccrueDue, PaysFor
  <2>4. TermsTypeOK'
    BY <1>0, <2>2 DEF TermsTypeOK
  <2>5. ASSUME NEW d \in CampaignIds
        PROVE  /\ spentToday'[d] <= budgetSpent'[d] /\ budgetSpent'[d] <= terms'[d].budget
               /\ terms'[d].daily # Null => spentToday'[d] <= terms'[d].daily
    <3>1. /\ spentToday[d] <= budgetSpent[d] /\ budgetSpent[d] <= terms[d].budget
          /\ terms[d].daily # Null => spentToday[d] <= terms[d].daily
      BY <1>0 DEF BookedWithinLimits
    <3>2. CASE d = c
      <4>1. /\ spentToday'[c] = spentToday[c] + cashback
            /\ budgetSpent'[c] = budgetSpent[c] + cashback
        BY <1>0, <2>2 DEF TermsTypeOK
      <4>2. /\ spentToday[c] \in Nat /\ budgetSpent[c] \in Nat /\ terms[c].budget \in Nat
        BY <1>0, TermsTyped
      <4>3. QED
        BY <2>2, <2>3, <3>1, <3>2, <4>1, <4>2
    <3>3. CASE d # c
      <4>1. spentToday'[d] = spentToday[d] /\ budgetSpent'[d] = budgetSpent[d]
        BY <1>0, <2>2, <3>3 DEF TermsTypeOK
      <4>2. QED
        BY <2>2, <3>1, <4>1
    <3>4. QED
      BY <3>2, <3>3
  <2>6. QED
    BY <2>4, <2>5 DEF EntitlementInv, BookedWithinLimits
<1>6. QED
  BY <1>1, <1>2, <1>3, <1>4, <1>5 DEF TermsNext

(***************************************************************************)
(* Theorem: no campaign books more than its budget, nor in a day more than *)
(* its daily limit, whatever its terms.                                    *)
(***************************************************************************)
THEOREM EntitlementHolds == TermsSpec => []EntitlementInv
BY EntitlementBegins, EntitlementGoesOn, PTL DEF TermsSpec

(***************************************************************************)
(* Lemma: the category's minimum, if there is one, is meant by all three.  *)
(***************************************************************************)
LEMMA MinimaAlwaysAgree ==
  ASSUME EntitlementInv
  PROVE  MinimaAgree
<1> SUFFICES ASSUME NEW c \in CampaignIds, NEW amount \in PurchaseAmounts
             PROVE  /\ EligibleFor(c, amount) =>
                         CalculateCashback(c, amount) = Scale(c, amount) /\ MinTransaction(c, amount)
                    /\ EligibleFor(c, Null) /\ CalculateCashback(c, amount) > 0 =>
                         EligibleFor(c, amount)
    BY DEF MinimaAgree
<1>1. /\ terms[c].min \in Nat \cup {Null} /\ terms[c].categoryMin \in Nat \cup {Null}
      /\ amount \in Nat /\ Null \notin Nat
  BY TermsTyped, EntitlementAssumption DEF EntitlementInv
<1>2. PICK least \in Nat \cup {Null} : least = Coalesce(terms[c].categoryMin, terms[c].min)
  BY <1>1 DEF Coalesce
<1>3. EligibleFor(c, amount) => terms[c].listed /\ (least # Null => amount >= least)
  BY <1>1, <1>2 DEF EligibleFor, Coalesce
<1>4. EligibleFor(c, Null) /\ (least # Null => amount >= least) => EligibleFor(c, amount)
  BY <1>1, <1>2 DEF EligibleFor, Coalesce
<1>5. terms[c].listed /\ (least # Null => amount >= least) =>
        CalculateCashback(c, amount) = Scale(c, amount) /\ MinTransaction(c, amount)
  BY <1>1, <1>2 DEF CalculateCashback, LeastAmount, MinTransaction
<1>6. CalculateCashback(c, amount) > 0 => (least # Null => amount >= least)
  BY <1>1, <1>2 DEF CalculateCashback, LeastAmount
<1>7. QED
  BY <1>3, <1>4, <1>5, <1>6

(***************************************************************************)
(* Lemma: a finite set of numbers has a greatest one.                      *)
(***************************************************************************)
LEMMA MaxIsGreatest ==
  ASSUME NEW S, IsFiniteSet(S), S \subseteq Int, S # {}
  PROVE  Max(S) \in S /\ \A y \in S : y <= Max(S)
<1> DEFINE Greatest(T) == \E x \in T : \A y \in T : x >= y
           Right == {T \in SUBSET S : T = {} \/ Greatest(T)}
<1>1. ASSUME NEW T \in SUBSET S, \A U \in SUBSET T : U # T => U \in Right
      PROVE  T \in Right
  <2>1. SUFFICES ASSUME T # {} PROVE Greatest(T)
    OBVIOUS
  <2>2. PICK x \in T : TRUE
    BY <2>1
  <2>3. T \ {x} \in Right
    BY <1>1, <2>2
  <2>4. CASE T \ {x} = {}
    <3>1. \A y \in T : x >= y
      BY <2>2, <2>4
    <3>2. QED
      BY <2>2, <3>1
  <2>5. CASE Greatest(T \ {x})
    <3>1. PICK z \in T \ {x} : \A y \in T \ {x} : z >= y
      BY <2>5
    <3>2. x \in Int /\ z \in Int
      BY <2>2, <3>1
    <3>3. CASE z >= x
      BY <3>1, <3>3
    <3>4. CASE x >= z
      <4>1. \A y \in T : x >= y
        BY <3>1, <3>2, <3>4
      <4>2. QED
        BY <2>2, <4>1
    <3>5. QED
      BY <3>2, <3>3, <3>4
  <2>6. QED
    BY <2>3, <2>4, <2>5
<1>2. S \in Right
  <2> HIDE DEF Right
  <2>1. QED
    BY <1>1, SubsetInduction
<1>3. QED
  BY <1>2 DEF Max

(***************************************************************************)
(* Lemma: where a campaign would pay, some campaign is offered.            *)
(***************************************************************************)
LEMMA SomeCampaignIsBest ==
  ASSUME EntitlementInv, NEW c \in CampaignIds, EligibleFor(c, Null)
  PROVE  Best # Null
<1> DEFINE eligible == {d \in CampaignIds : EligibleFor(d, Null)}
           top == {d \in eligible : \A e \in eligible : terms[e].rate <= terms[d].rate}
           rates == {r \in 0 .. 100 : \E d \in eligible : terms[d].rate = r}
<1>1. \A d \in CampaignIds : terms[d].rate \in 0 .. 100
  BY TermsTyped DEF EntitlementInv
<1>2. IsFiniteSet(rates) /\ rates \subseteq Int /\ rates # {}
  <2>1. rates \in SUBSET (0 .. 100)
    OBVIOUS
  <2>2. 0 \in Int /\ 100 \in Int /\ 0 .. 100 \subseteq Int
    OBVIOUS
  <2>3. IsFiniteSet(0 .. 100)
    BY <2>2, FS_Interval
  <2>4. c \in eligible /\ terms[c].rate \in rates
    BY <1>1
  <2> HIDE DEF rates
  <2>5. IsFiniteSet(rates)
    BY <2>1, <2>3, FS_Subset
  <2>6. QED
    BY <2>1, <2>2, <2>4, <2>5
<1>3. top # {}
  <2>1. Max(rates) \in rates /\ \A r \in rates : r <= Max(rates)
    <3> HIDE DEF rates
    <3>1. QED
      BY <1>2, MaxIsGreatest
  <2>2. PICK d \in eligible : terms[d].rate = Max(rates)
    BY <2>1
  <2>3. \A e \in eligible : terms[e].rate \in rates
    BY <1>1
  <2> HIDE DEF rates
  <2>4. \A e \in eligible : terms[e].rate <= terms[d].rate
    BY <2>1, <2>2, <2>3
  <2>5. QED
    BY <2>2, <2>4
<1>4. IsFiniteSet(top) /\ top \subseteq Int
  <2>1. top \in SUBSET CampaignIds
    OBVIOUS
  <2>2. IsFiniteSet(CampaignIds) /\ CampaignIds \subseteq Int
    BY EntitlementAssumption
  <2> HIDE DEF top
  <2>3. IsFiniteSet(top)
    BY <2>1, <2>2, FS_Subset
  <2>4. QED
    BY <2>1, <2>2, <2>3
<1>5. Max(top) \in top
  <2> HIDE DEF top
  <2>1. QED
    BY <1>3, <1>4, MaxIsGreatest
<1>6. Best = Max(top)
  BY <1>3 DEF Best
<1>7. Max(top) \in Nat
  BY <1>5, EntitlementAssumption
<1>8. QED
  BY <1>6, <1>7, EntitlementAssumption

(***************************************************************************)
(* Lemma: the rules before the offer refuse nothing that would be paid.    *)
(***************************************************************************)
LEMMA RulesNeverRefuseDue ==
  ASSUME EntitlementInv
  PROVE  RulesRefuseNoDue
<1> SUFFICES ASSUME NEW c \in CampaignIds, NEW amount \in PurchaseAmounts, PaysFor(c, amount)
             PROVE  /\ Best # Null
                    /\ terms[c].budget - budgetSpent[c] > MinAward =>
                         \E channel \in ChannelNames : Offered(c, amount, channel)
    BY DEF RulesRefuseNoDue, EntitlementInv, BookedWithinLimits
<1>1. amount \in Nat /\ Null \notin Nat /\ EligibleFor(c, amount)
  BY EntitlementAssumption DEF PaysFor
<1>2. EligibleFor(c, Null)
  BY <1>1 DEF EligibleFor
<1>3. Best # Null
  BY <1>2, SomeCampaignIsBest
<1>4. MinTransaction(c, amount)
  BY <1>1, MinimaAlwaysAgree DEF MinimaAgree
<1>5. PICK channel \in ChannelNames : ChannelApplicability(c, channel)
  <2>1. CASE terms[c].channels = {}
    BY <2>1, EntitlementAssumption DEF ChannelApplicability
  <2>2. CASE terms[c].channels # {}
    <3>1. PICK channel \in terms[c].channels : TRUE
      BY <2>2
    <3>2. channel \in ChannelNames
      BY <3>1, TermsTyped DEF EntitlementInv
    <3>3. QED
      BY <3>1, <3>2 DEF ChannelApplicability
  <2>3. QED
    BY <2>1, <2>2
<1>6. terms[c].daily # Null => spentToday[c] < terms[c].daily
  BY <1>1 DEF EligibleFor
<1>7. QED
  BY <1>3, <1>4, <1>5, <1>6 DEF Offered, BudgetReservation

(***************************************************************************)
(* Theorem: the scale of the cashback is progressive in whatever order its *)
(* tiers were entered (009:149), the services that read a minimum agree on *)
(* it (ADR 0014), and the rules before an offer refuse nothing that the    *)
(* accrual would pay, for any terms that a campaign may have.              *)
(***************************************************************************)
THEOREM TermsAlwaysAgree == TermsSpec => []TermsAgree
<1>1. ASSUME EntitlementInv
      PROVE  TermsAgree
  <2>1. ScaleIsProgressive
    <3> SUFFICES ASSUME NEW c \in CampaignIds, NEW amount \in PurchaseAmounts
                 PROVE  /\ terms[c].tiers # <<>> =>
                             Scale(c, amount) =
                               Rounded(SumAll([k \in 1 .. amount |-> EarnedBy(k, terms[c].tiers)]))
                        /\ \A less \in PurchaseAmounts : less <= amount =>
                             CalculateCashback(c, less) <= CalculateCashback(c, amount)
        BY DEF ScaleIsProgressive
    <3>1. terms[c] \in Terms /\ amount \in Nat /\ amount <= amount
      BY <1>1, TermsTyped, EntitlementAssumption DEF EntitlementInv
    <3>2. terms[c].tiers # <<>> =>
            Scale(c, amount) =
              Rounded(SumAll([k \in 1 .. amount |-> EarnedBy(k, terms[c].tiers)]))
      BY <3>1, ScaleGrows
    <3>3. ASSUME NEW less \in PurchaseAmounts, less <= amount
          PROVE  CalculateCashback(c, less) <= CalculateCashback(c, amount)
      <4>1. less \in Nat
        BY EntitlementAssumption
      <4>2. QED
        BY <3>1, <3>3, <4>1, CashbackGrows
    <3>4. QED
      BY <3>2, <3>3
  <2>2. QED
    BY <1>1, <2>1, MinimaAlwaysAgree, RulesNeverRefuseDue DEF TermsAgree
<1>2. QED
  BY <1>1, EntitlementHolds, PTL

-----------------------------------------------------------------------------
USE ABAssumption

(***************************************************************************)
(* Lemma: a user is put into one of the variants.                          *)
(***************************************************************************)
LEMMA PickIsVariant ==
  ASSUME NEW bucket, NEW w
  PROVE  /\ PickVariant(bucket, w) \in Variants
         /\ Beyond(bucket, w) # {} =>
              /\ PickVariant(bucket, w) \in Beyond(bucket, w)
              /\ \A v \in Beyond(bucket, w) : PickVariant(bucket, w) <= v
<1>1. IsFiniteSet(Variants) /\ Variants \subseteq Int /\ VariantCount \in Variants
  BY FS_Interval DEF Variants, ABAssumption
<1>2. Beyond(bucket, w) \in SUBSET Variants
  BY DEF Beyond
<1>3. IsFiniteSet(Beyond(bucket, w)) /\ Beyond(bucket, w) \subseteq Int
  BY <1>1, <1>2, FS_Subset
<1>4. QED
  BY <1>1, <1>2, <1>3, MinIsLeast DEF PickVariant

(***************************************************************************)
(* What makes OneVariantEach inductive: the weights are chosen before      *)
(* anything is done with the experiment and stay, and a row is written     *)
(* whole.                                                                  *)
(***************************************************************************)
WeightsFixed ==
  /\ status # "absent" => SumAll(weights) = Grid
  /\ \A p \in StatusPatches : patch[p].action # "none" => status # "absent"
  /\ \A a \in Assigns : assign[a].phase = "insert" =>
       status # "absent" /\ assign[a].user \in Participants
  /\ \A u \in Participants : rows[u].count > 0 => status # "absent"

RowsWhole == \A u \in Participants : rows[u].count = 0 => rows[u].variant = Absent

ExperimentInv == ExperimentTypeOK /\ WeightsFixed /\ RowsWhole /\ OneVariantEach

(***************************************************************************)
(* Lemma: the invariant holds before the experiment is created.            *)
(***************************************************************************)
LEMMA ExperimentBegins == ExperimentInit => ExperimentInv
<1> SUFFICES ASSUME ExperimentInit PROVE ExperimentInv
    OBVIOUS
<1> USE DEF ExperimentInit, NoPatch, NoAssign, NoRow
<1>1. ExperimentTypeOK
  BY DEF ExperimentTypeOK, Statuses, Variants, ABAssumption
<1>2. WeightsFixed
  BY DEF WeightsFixed
<1>3. RowsWhole
  BY DEF RowsWhole
<1>4. OneVariantEach
  BY DEF OneVariantEach
<1>5. QED
  BY <1>1, <1>2, <1>3, <1>4 DEF ExperimentInv

(***************************************************************************)
(* Lemma: every step of the experiment keeps the invariant.                *)
(***************************************************************************)
LEMMA ExperimentGoesOn == ExperimentInv /\ [ExperimentNext]_experimentVars => ExperimentInv'
<1> SUFFICES ASSUME ExperimentInv, [ExperimentNext]_experimentVars PROVE ExperimentInv'
    OBVIOUS
<1> USE DEF ExperimentInv
<1>1. CASE CreateExperiment
  <2>1. \A u \in Participants : rows[u].count = 0
    BY <1>1 DEF CreateExperiment, WeightsFixed, ExperimentTypeOK
  <2>2. ExperimentTypeOK'
    BY <1>1 DEF CreateExperiment, ExperimentTypeOK, Statuses
  <2>3. WeightsFixed'
    BY <1>1 DEF CreateExperiment, WeightsFixed
  <2>4. RowsWhole' /\ OneVariantEach'
    BY <1>1, <2>1 DEF CreateExperiment, RowsWhole, OneVariantEach
  <2>5. QED
    BY <2>2, <2>3, <2>4
<1>2. ASSUME NEW p \in StatusPatches, NEW action \in DOMAIN FSM, ReadStatus(p, action)
      PROVE  ExperimentInv'
  <2>1. action \in {"start", "stop"} /\ status # "absent"
    BY <1>2 DEF ReadStatus, FSM
  <2>2. ExperimentTypeOK'
    BY <1>2, <2>1 DEF ReadStatus, ExperimentTypeOK
  <2>3. WeightsFixed'
    BY <1>2, <2>1 DEF ReadStatus, WeightsFixed, ExperimentTypeOK
  <2>4. RowsWhole' /\ OneVariantEach'
    BY <1>2 DEF ReadStatus, RowsWhole, OneVariantEach
  <2>5. QED
    BY <2>2, <2>3, <2>4
<1>3. ASSUME NEW p \in StatusPatches, WriteStatus(p)
      PROVE  ExperimentInv'
  <2>1. status' \in Statuses \ {"absent"} /\ status # "absent"
    <3>1. patch[p].action \in {"start", "stop"}
      BY <1>3 DEF WriteStatus, ExperimentTypeOK
    <3>2. QED
      BY <1>3, <3>1 DEF WriteStatus, WeightsFixed, FSM, Statuses
  <2>2. ExperimentTypeOK'
    BY <1>3, <2>1 DEF WriteStatus, ExperimentTypeOK, NoPatch, Statuses
  <2>3. WeightsFixed'
    BY <1>3, <2>1 DEF WriteStatus, WeightsFixed
  <2>4. RowsWhole' /\ OneVariantEach'
    BY <1>3 DEF WriteStatus, RowsWhole, OneVariantEach
  <2>5. QED
    BY <2>2, <2>3, <2>4
<1>4. ASSUME NEW a \in Assigns, NEW u \in Participants, ReadActive(a, u)
      PROVE  ExperimentInv'
  <2>1. ExperimentTypeOK'
    BY <1>4 DEF ReadActive, ExperimentTypeOK
  <2>2. WeightsFixed'
    BY <1>4 DEF ReadActive, WeightsFixed, ExperimentTypeOK
  <2>3. RowsWhole' /\ OneVariantEach'
    BY <1>4 DEF ReadActive, RowsWhole, OneVariantEach
  <2>4. QED
    BY <2>1, <2>2, <2>3
<1>5. ASSUME NEW a \in Assigns, InsertAssignment(a)
      PROVE  ExperimentInv'
  <2> DEFINE u == assign[a].user
             pick == PickVariant(Bucket[u], weights)
  <2>1. u \in Participants /\ status # "absent" /\ assign[a].phase = "insert"
    BY <1>5 DEF InsertAssignment, WeightsFixed
  <2>2. pick \in Variants /\ 0 \notin Variants
    BY PickIsVariant DEF Variants, ABAssumption
  <2>3. /\ rows \in [Participants -> [variant : Variants \cup {Absent}, count : Nat]]
        /\ rows' = [rows EXCEPT ![u] = IF @.count > 0 THEN @
                                       ELSE [variant |-> pick, count |-> 1]]
    BY <1>5 DEF InsertAssignment, InsertedOnce, ExperimentTypeOK
  <2> HIDE DEF pick
  <2>4. /\ rows' \in [Participants -> [variant : Variants \cup {Absent}, count : Nat]]
        /\ \A x \in Participants : rows'[x] = rows[x] \/ (x = u /\ rows[x].count = 0
                                     /\ rows'[x].variant = pick /\ rows'[x].count = 1)
    BY <2>1, <2>2, <2>3
  <2>5. ExperimentTypeOK'
    BY <1>5, <2>4 DEF InsertAssignment, ExperimentTypeOK, NoAssign
  <2>6. WeightsFixed'
    BY <1>5, <2>1, <2>4 DEF InsertAssignment, WeightsFixed, ExperimentTypeOK, NoAssign
  <2>7. RowsWhole'
    BY <2>4 DEF RowsWhole
  <2>8. OneVariantEach'
    BY <1>5, <2>3, <2>4 DEF InsertAssignment, OneVariantEach, pick
  <2>9. QED
    BY <2>5, <2>6, <2>7, <2>8
<1>6. ASSUME NEW u \in Participants, Convert(u)
      PROVE  ExperimentInv'
  <2>1. ExperimentTypeOK'
    BY <1>6 DEF Convert, ExperimentTypeOK, ABAssumption
  <2>2. WeightsFixed' /\ RowsWhole' /\ OneVariantEach'
    BY <1>6 DEF Convert, WeightsFixed, RowsWhole, OneVariantEach
  <2>3. QED
    BY <2>1, <2>2
<1>7. CASE UNCHANGED experimentVars
  <2>1. ExperimentTypeOK' /\ WeightsFixed'
    BY <1>7 DEF experimentVars, ExperimentTypeOK, WeightsFixed
  <2>2. RowsWhole' /\ OneVariantEach'
    BY <1>7 DEF experimentVars, RowsWhole, OneVariantEach
  <2>3. QED
    BY <2>1, <2>2
<1>8. QED
  BY <1>1, <1>2, <1>3, <1>4, <1>5, <1>6, <1>7 DEF ExperimentNext

(***************************************************************************)
(* The invariant holds always.                                             *)
(***************************************************************************)
THEOREM ExperimentHolds == ExperimentSpec => []ExperimentInv
BY ExperimentBegins, ExperimentGoesOn, PTL DEF ExperimentSpec

-----------------------------------------------------------------------------
(***************************************************************************)
(* Lemma: the cumulative weights, each the one before and the variant's    *)
(* own, never fall.                                                        *)
(***************************************************************************)
LEMMA WeightsCumulate ==
  ASSUME NEW w \in [Variants -> 0 .. Grid]
  PROVE  /\ UpTo(w, 0) = 0
         /\ \A v \in Variants : UpTo(w, v) \in Nat /\ UpTo(w, v) = UpTo(w, v - 1) + w[v]
         /\ \A v, x \in 0 .. VariantCount : v <= x => UpTo(w, v) <= UpTo(w, x)
         /\ \A v \in 0 .. VariantCount : UpTo(w, v) \in Nat
         /\ UpTo(w, VariantCount) = SumAll(w)
<1>1. ASSUME NEW a \in Int, NEW b \in Int, 1 <= a, b <= VariantCount
      PROVE  IsFiniteSet(a .. b) /\ Amounts(w, a .. b)
  <2>1. IsFiniteSet(a .. b)
    BY FS_Interval
  <2>2. \A i \in a .. b : i \in Variants
    BY <1>1 DEF Variants, ABAssumption
  <2>3. \A i \in Variants : w[i] \in Nat
    BY DEF ABAssumption
  <2>4. QED
    BY <2>1, <2>2, <2>3 DEF Amounts
<1>2. UpTo(w, 0) = 0
  <2>1. 1 .. 0 = {}
    OBVIOUS
  <2>2. QED
    BY <2>1, SumOfNone DEF UpTo
<1>3. ASSUME NEW v \in Variants
      PROVE  UpTo(w, v) = UpTo(w, v - 1) + w[v] /\ UpTo(w, v - 1) \in Nat
  <2>1. v - 1 \in Int /\ v - 1 <= VariantCount /\ v \in Int /\ VariantCount \in Int
    BY DEF Variants, ABAssumption
  <2>2. 1 .. v = (1 .. (v - 1)) \cup {v} /\ v \notin 1 .. (v - 1)
    BY <2>1 DEF Variants
  <2>3. IsFiniteSet(1 .. (v - 1)) /\ Amounts(w, 1 .. (v - 1))
    BY <1>1, <2>1
  <2>4. w[v] \in Nat
    BY DEF ABAssumption
  <2>5. QED
    BY <2>2, <2>3, <2>4, SumOfMore DEF UpTo
<1>4. ASSUME NEW v \in 0 .. VariantCount
      PROVE  UpTo(w, v) \in Nat
  <2>1. IsFiniteSet(1 .. v) /\ Amounts(w, 1 .. v)
    BY <1>1 DEF ABAssumption
  <2>2. QED
    BY <2>1, SumCounts, FS_CardinalityType DEF UpTo
<1>5. ASSUME NEW v \in 0 .. VariantCount, NEW x \in 0 .. VariantCount, v <= x
      PROVE  UpTo(w, v) <= UpTo(w, x)
  <2>1. 1 .. x = (1 .. v) \cup ((v + 1) .. x) /\ (1 .. v) \cap ((v + 1) .. x) = {}
    BY <1>5
  <2>2. IsFiniteSet(1 .. v) /\ Amounts(w, 1 .. v)
    BY <1>1 DEF ABAssumption
  <2>3. IsFiniteSet((v + 1) .. x) /\ Amounts(w, (v + 1) .. x)
    BY <1>1 DEF ABAssumption
  <2> DEFINE head == 1 .. v
             tail == (v + 1) .. x
  <2> HIDE DEF head, tail
  <2>4. /\ SumOf(w, head) \in Nat /\ SumOf(w, tail) \in Nat
        /\ SumOf(w, head \cup tail) = SumOf(w, head) + SumOf(w, tail)
    BY <2>1, <2>2, <2>3, SumOfBoth DEF head, tail
  <2>5. UpTo(w, v) = SumOf(w, head) /\ UpTo(w, x) = SumOf(w, head \cup tail)
    BY <2>1 DEF UpTo, head, tail
  <2>6. QED
    BY <2>4, <2>5
<1>6. UpTo(w, VariantCount) = SumAll(w)
  BY DEF UpTo, SumAll, Variants
<1>7. Variants \subseteq 0 .. VariantCount
  BY DEF Variants
<1>8. QED
  BY <1>2, <1>3, <1>4, <1>5, <1>6, <1>7

(***************************************************************************)
(* Lemma: a bucket falls into the variant whose span of the cumulative     *)
(* weights it is in.                                                       *)
(***************************************************************************)
LEMMA PickIsSpan ==
  ASSUME NEW w \in [Variants -> 0 .. Grid], SumAll(w) = Grid,
         NEW b \in 0 .. Grid - 1, NEW v \in Variants
  PROVE  PickVariant(b, w) = v <=> UpTo(w, v - 1) <= b /\ b < UpTo(w, v)
<1> DEFINE p == PickVariant(b, w)
<1>1. VariantCount \in Beyond(b, w)
  BY WeightsCumulate DEF Beyond, Variants, ABAssumption
<1>2. p \in Variants /\ p \in Beyond(b, w) /\ \A x \in Beyond(b, w) : p <= x
  BY <1>1, PickIsVariant
<1> HIDE DEF p
<1>3. b < UpTo(w, p)
  BY <1>2 DEF Beyond
<1>4. ASSUME NEW x \in 0 .. VariantCount, x < p
      PROVE  UpTo(w, x) <= b
  <2>1. CASE x = 0
    BY <2>1, WeightsCumulate
  <2>2. CASE x # 0
    <3>1. x \in Variants /\ UpTo(w, x) \in Nat /\ p \in Int
      BY <1>2, <2>2, WeightsCumulate DEF Variants, ABAssumption
    <3>2. x \notin Beyond(b, w)
      BY <1>2, <1>4, <3>1
    <3>3. QED
      BY <3>1, <3>2 DEF Beyond
  <2>3. QED
    BY <2>1, <2>2
<1>5. ASSUME p = v
      PROVE  UpTo(w, v - 1) <= b /\ b < UpTo(w, v)
  <2>1. v - 1 \in 0 .. VariantCount /\ v - 1 < v
    BY DEF Variants, ABAssumption
  <2>2. QED
    BY <1>3, <1>4, <1>5, <2>1
<1>6. ASSUME UpTo(w, v - 1) <= b, b < UpTo(w, v)
      PROVE  p = v
  <2>1. v \in Beyond(b, w) /\ p <= v /\ p \in Int /\ v \in Int
    BY <1>2, <1>6 DEF Beyond, Variants
  <2>2. ASSUME p < v
        PROVE  FALSE
    <3>1. p \in 0 .. VariantCount /\ v - 1 \in 0 .. VariantCount /\ p <= v - 1
      BY <1>2, <2>1, <2>2 DEF Variants, ABAssumption
    <3>2. /\ UpTo(w, p) <= UpTo(w, v - 1)
          /\ UpTo(w, p) \in Nat /\ UpTo(w, v - 1) \in Nat
      BY <3>1, WeightsCumulate
    <3>3. QED
      BY <1>3, <1>6, <3>2
  <2>3. QED
    BY <2>1, <2>2
<1>7. QED
  BY <1>5, <1>6 DEF p

(***************************************************************************)
(* However many requests assign a user at once, he is in the experiment    *)
(* once, in the variant of his bucket; and every variant gets the share of *)
(* the buckets that its weight says.                                       *)
(***************************************************************************)
THEOREM AssignedOnceHolds == ExperimentSpec => []AssignedOnce
<1>1. ExperimentInv => AssignedOnce
  <2> SUFFICES ASSUME ExperimentInv PROVE AssignedOnce
      OBVIOUS
  <2>1. ASSUME status # "absent", NEW v \in Variants
        PROVE  Cardinality({b \in 0 .. Grid - 1 : PickVariant(b, weights) = v}) = weights[v]
    <3>1. weights \in [Variants -> 0 .. Grid] /\ SumAll(weights) = Grid
      BY <2>1 DEF ExperimentInv, ExperimentTypeOK, WeightsFixed
    <3> DEFINE from == UpTo(weights, v - 1)
               to == UpTo(weights, v)
    <3>2. /\ v \in 0 .. VariantCount /\ v - 1 \in 0 .. VariantCount /\ v <= VariantCount
          /\ VariantCount \in 0 .. VariantCount
      BY DEF Variants, ABAssumption
    <3>3. from \in Nat /\ to \in Nat /\ to = from + weights[v] /\ to <= Grid
          /\ weights[v] \in Nat
      <4>1. to <= UpTo(weights, VariantCount) /\ UpTo(weights, VariantCount) = Grid
        BY <3>1, <3>2, WeightsCumulate
      <4>2. from \in Nat /\ to \in Nat /\ to = from + weights[v]
        BY <3>1, <3>2, WeightsCumulate
      <4>3. QED
        BY <3>1, <4>1, <4>2 DEF ABAssumption
    <3>4. \A b \in 0 .. Grid - 1 : PickVariant(b, weights) = v <=> from <= b /\ b < to
      BY <3>1, PickIsSpan
    <3> HIDE DEF from, to
    <3>5. {b \in 0 .. Grid - 1 : PickVariant(b, weights) = v} = from .. (to - 1)
      BY <3>3, <3>4 DEF ABAssumption
    <3>6. from \in Int /\ to - 1 \in Int
      BY <3>3
    <3>7. Cardinality(from .. (to - 1)) = IF from > to - 1 THEN 0 ELSE to - 1 - from + 1
      BY <3>6, FS_Interval
    <3>8. weights[v] = IF from > to - 1 THEN 0 ELSE to - 1 - from + 1
      BY <3>3
    <3>9. QED
      BY <3>5, <3>7, <3>8
  <2>2. QED
    BY <2>1 DEF AssignedOnce, TrafficFollowsWeights, ExperimentInv
<1>2. QED
  BY <1>1, ExperimentHolds, PTL

(***************************************************************************)
(* Lemma: variants of which all and none convert are told apart, whatever  *)
(* the order of the factors.                                               *)
(***************************************************************************)
LEMMA AllAgainstNone ==
  ASSUME NEW a \in Nat, NEW b \in Nat, a > 0, b > 0, a + b >= MinN
  PROVE  /\ 10 * (a + b) * (a * b) * (a * b) > TrendSquared * a * b * b * a
         /\ 10 * (a + b) * (0 - a * b) * (0 - a * b) > TrendSquared * a * b * a * b
<1> DEFINE n == 10 * (a + b)
           q == (a * b) * (a * b)
<1>1. n \in Nat /\ n > TrendSquared /\ TrendSquared \in Nat
  BY DEF ABAssumption
<1>2. a * b \in Nat /\ a * b > 0
  OBVIOUS
<1>3. q \in Nat /\ q > 0
  BY <1>2
<1>4. n * q > TrendSquared * q
  <2> HIDE DEF n, q
  <2>1. n >= TrendSquared + 1
    BY <1>1
  <2>2. n * q >= (TrendSquared + 1) * q
    BY <1>1, <1>3, <2>1
  <2>3. (TrendSquared + 1) * q = TrendSquared * q + q /\ TrendSquared * q \in Nat /\ n * q \in Nat
    BY <1>1, <1>3
  <2>4. QED
    BY <1>3, <2>2, <2>3
<1>5. /\ n * (a * b) * (a * b) = n * q
      /\ n * (0 - a * b) * (0 - a * b) = n * q
  <2> DEFINE m == a * b
  <2>1. m \in Nat /\ q = m * m
    BY <1>2
  <2> HIDE DEF n, q, m
  <2>2. n * m * m = n * q /\ n * (0 - m) * (0 - m) = n * q
    BY <1>1, <2>1
  <2>3. QED
    BY <2>2 DEF m
<1>6. /\ TrendSquared * a * b * b * a = TrendSquared * q
      /\ TrendSquared * a * b * a * b = TrendSquared * q
  BY <1>1
<1>7. QED
  BY <1>4, <1>5, <1>6

(***************************************************************************)
(* Lemma: the figures of the results are numbers of users.                 *)
(***************************************************************************)
LEMMA FiguresCountUsers ==
  ASSUME ExperimentInv, NEW v \in Variants
  PROVE  /\ Trials(v) = Cardinality(AssignedTo(v)) /\ Successes(v) = Cardinality(WithEvents(v))
         /\ Trials(v) \in Nat /\ Successes(v) \in Nat /\ Successes(v) <= Trials(v)
         /\ AssignedTo(v) # {} => Trials(v) > 0
         /\ WithEvents(v) = {} => Successes(v) = 0
         /\ WithEvents(v) = AssignedTo(v) => Successes(v) = Trials(v)
<1> DEFINE counts == [u \in Participants |-> rows[u].count]
<1>1. AssignedTo(v) \in SUBSET Participants /\ IsFiniteSet(AssignedTo(v))
  BY FS_Subset DEF AssignedTo, ABAssumption
<1>2. \A u \in AssignedTo(v) : counts[u] = 1
  <2>1. v # Absent
    BY DEF Variants, Absent
  <2>2. ASSUME NEW u \in AssignedTo(v)
        PROVE  counts[u] = 1
    <3>1. u \in Participants /\ rows[u].variant # Absent
      BY <2>1 DEF AssignedTo
    <3>2. rows[u].count \in Nat
      BY <3>1 DEF ExperimentInv, ExperimentTypeOK
    <3>3. rows[u].count # 0
      BY <3>1 DEF ExperimentInv, RowsWhole
    <3>4. rows[u].count <= 1
      BY <3>1 DEF ExperimentInv, OneVariantEach
    <3>5. counts[u] = rows[u].count
      BY <3>1
    <3> HIDE DEF counts
    <3>6. QED
      BY <3>2, <3>3, <3>4, <3>5
  <2>3. QED
    BY <2>2
<1> HIDE DEF counts
<1>3. SumOf(counts, AssignedTo(v)) = Cardinality(AssignedTo(v))
  BY <1>1, <1>2, SumOfOnes
<1>4. Trials(v) = Cardinality(AssignedTo(v))
  BY <1>3 DEF Trials, counts
<1>5. Successes(v) = Cardinality(WithEvents(v)) /\ WithEvents(v) \in SUBSET AssignedTo(v)
  BY DEF Successes, WithEvents
<1>6. Trials(v) \in Nat /\ Successes(v) \in Nat /\ Successes(v) <= Trials(v)
  BY <1>1, <1>4, <1>5, FS_Subset, FS_CardinalityType
<1>7. /\ AssignedTo(v) # {} => Trials(v) # 0
      /\ WithEvents(v) = {} => Successes(v) = 0
  BY <1>1, <1>4, <1>5, FS_EmptySet
<1>8. QED
  BY <1>4, <1>5, <1>6, <1>7

(***************************************************************************)
(* Lemma: the verdict's test, by the figures it is made of.                *)
(***************************************************************************)
LEMMA TestFigures ==
  ASSUME NEW c, NEW t, NEW critical
  PROVE  Exceeds(c, t, critical) <=>
           /\ Trials(c) > 0 /\ Trials(t) > 0
           /\ Successes(c) <= Trials(c) /\ Successes(t) <= Trials(t)
           /\ Successes(c) + Successes(t) > 0
           /\ Successes(c) + Successes(t) < Trials(c) + Trials(t)
           /\ Trials(c) + Trials(t) >= MinN
           /\ 10 * (Trials(c) + Trials(t))
                 * (Successes(t) * Trials(c) - Successes(c) * Trials(t))
                 * (Successes(t) * Trials(c) - Successes(c) * Trials(t))
                > critical * Trials(c) * Trials(t) * (Successes(c) + Successes(t))
                    * ((Trials(c) + Trials(t)) - (Successes(c) + Successes(t)))
BY DEF Exceeds

(***************************************************************************)
(* The verdict names the variant whose users convert more often, and       *)
(* names it also when all of them and none of the others do.               *)
(***************************************************************************)
THEOREM WinnerIsBetterHolds == ExperimentSpec => []WinnerIsBetter
<1>1. ExperimentInv => WinnerIsBetter
  <2> SUFFICES ASSUME ExperimentInv PROVE WinnerIsBetter
      OBVIOUS
  <2> DEFINE t == Treatment
             c == control
             nc == Trials(c)
             nt == Trials(t)
             sc == Successes(c)
             st == Successes(t)
             other(v) == IF v = t THEN c ELSE t
             ahead(v, w) == Cardinality(WithEvents(v)) * Cardinality(AssignedTo(w))
                              > Cardinality(WithEvents(w)) * Cardinality(AssignedTo(v))
             told(critical) ==
                        /\ nc > 0 /\ nt > 0 /\ sc <= nc /\ st <= nt
                        /\ sc + st > 0 /\ sc + st < nc + nt
                        /\ nc + nt >= MinN
                        /\ 10 * (nc + nt) * (st * nc - sc * nt) * (st * nc - sc * nt)
                             > critical * nc * nt * (sc + st) * ((nc + nt) - (sc + st))
             decided == told(ZSquared) \/ told(TrendSquared)
             diff == st * nc - sc * nt
  <2>1. c \in Variants /\ t \in Variants /\ t # c /\ c # Absent /\ t # Absent
    <3>1. c \in Variants
      BY DEF ExperimentInv, ExperimentTypeOK
    <3>2. IsFiniteSet(Variants) /\ 1 \in Variants /\ 2 \in Variants
      BY FS_Interval DEF Variants, ABAssumption
    <3>3. Variants \ {c} \in SUBSET Variants /\ Variants \ {c} # {}
      BY <3>2
    <3>4. IsFiniteSet(Variants \ {c}) /\ Variants \ {c} \subseteq Int
      BY <3>2, <3>3, FS_Subset DEF Variants
    <3>5. t \in Variants \ {c}
      BY <3>3, <3>4, MinIsLeast DEF Treatment
    <3>6. QED
      BY <3>1, <3>5 DEF Variants, Absent
  <2>2. \A v \in {t, c} :
          /\ Trials(v) = Cardinality(AssignedTo(v)) /\ Successes(v) = Cardinality(WithEvents(v))
          /\ Trials(v) \in Nat /\ Successes(v) \in Nat /\ Successes(v) <= Trials(v)
          /\ AssignedTo(v) # {} => Trials(v) > 0
          /\ WithEvents(v) = {} => Successes(v) = 0
          /\ WithEvents(v) = AssignedTo(v) => Successes(v) = Trials(v)
    BY <2>1, FiguresCountUsers
  <2>3. nc \in Nat /\ nt \in Nat /\ sc \in Nat /\ st \in Nat /\ sc <= nc /\ st <= nt
    BY <2>2
  <2>4. /\ st * nc > sc * nt => ahead(t, other(t))
        /\ t # c /\ sc * nt > st * nc => ahead(c, other(c))
    BY <2>2
  <2>5. Winner = IF ~decided \/ diff = 0 THEN Absent ELSE IF diff > 0 THEN t ELSE c
    <3>1. /\ Exceeds(c, t, ZSquared) <=> told(ZSquared)
          /\ Exceeds(c, t, TrendSquared) <=> told(TrendSquared)
      BY TestFigures
    <3> HIDE DEF told
    <3>2. Significance(c, t) = "no_data" <=> ~decided
      BY <3>1 DEF Significance
    <3>3. Winner = IF Significance(c, t) = "no_data" \/ diff = 0 THEN Absent
                   ELSE IF diff > 0 THEN t ELSE c
      BY DEF Winner
    <3>4. QED
      BY <3>2, <3>3
  <2> HIDE DEF t, c, nc, nt, sc, st, told, decided, ahead
  <2>6. st * nc \in Nat /\ sc * nt \in Nat /\ diff \in Int
    BY <2>3
  <2>7. Winner # Absent => ahead(Winner, other(Winner))
    <3>1. CASE Winner = t /\ diff > 0
      <4>1. ahead(t, other(t))
        BY <2>4, <2>6, <3>1
      <4>2. QED
        BY <3>1, <4>1
    <3>2. CASE Winner = c /\ diff # 0 /\ ~(diff > 0)
      <4>1. ahead(c, other(c))
        BY <2>1, <2>4, <2>6, <3>2
      <4>2. QED
        BY <3>2, <4>1
    <3>3. QED
      BY <2>5, <3>1, <3>2
  <2>8. ASSUME nc > 0, nt > 0, nc + nt >= MinN, st = nt, sc = 0
        PROVE  Winner = t
    <3>1. diff = nc * nt /\ nc * nt > 0 /\ nc * nt \in Nat
      BY <2>3, <2>8
    <3>2. 10 * (nc + nt) * (nc * nt) * (nc * nt) > TrendSquared * nc * nt * nt * nc
      BY <2>3, <2>8, AllAgainstNone
    <3>3. sc + st = nt /\ (nc + nt) - (sc + st) = nc
      BY <2>3, <2>8
    <3>4. decided
      BY <2>3, <2>8, <3>1, <3>2, <3>3 DEF decided, told
    <3>5. QED
      BY <2>5, <3>1, <3>4
  <2>9. ASSUME nc > 0, nt > 0, nc + nt >= MinN, st = 0, sc = nc
        PROVE  Winner = c
    <3>1. diff = 0 - nc * nt /\ nc * nt > 0 /\ nc * nt \in Nat
      BY <2>3, <2>9
    <3>2. 10 * (nc + nt) * (0 - nc * nt) * (0 - nc * nt) > TrendSquared * nc * nt * nc * nt
      BY <2>3, <2>9, AllAgainstNone
    <3>3. sc + st = nc /\ (nc + nt) - (sc + st) = nt
      BY <2>3, <2>9
    <3>4. decided
      BY <2>3, <2>9, <3>1, <3>2, <3>3 DEF decided, told
    <3>5. QED
      BY <2>5, <3>1, <3>4
  <2>10. ASSUME NEW v \in {t, c},
                AssignedTo(v) # {}, WithEvents(v) = AssignedTo(v),
                AssignedTo(other(v)) # {}, WithEvents(other(v)) = {},
                Cardinality(AssignedTo(v)) + Cardinality(AssignedTo(other(v))) >= MinN
         PROVE  Winner = v
    <3>1. CASE v = t
      <4>1. nc > 0 /\ nt > 0 /\ nc + nt >= MinN /\ st = nt /\ sc = 0
        BY <2>2, <2>3, <2>10, <3>1 DEF nc, nt, sc, st
      <4>2. QED
        BY <2>8, <3>1, <4>1
    <3>2. CASE v = c
      <4>1. other(v) = t
        BY <2>1, <3>2
      <4>2. nc > 0 /\ nt > 0 /\ nc + nt >= MinN /\ st = 0 /\ sc = nc
        BY <2>2, <2>3, <2>10, <3>2, <4>1 DEF nc, nt, sc, st
      <4>3. QED
        BY <2>9, <3>2, <4>2
    <3>3. QED
      BY <3>1, <3>2
  <2>11. QED
    BY <2>7, <2>10 DEF WinnerIsBetter, t, c, ahead
<1>2. QED
  BY <1>1, ExperimentHolds, PTL

-----------------------------------------------------------------------------
USE ReportsAssumption

(***************************************************************************)
(* What the reports rely on: a row is not newer than the clock, and only   *)
(* an accepted offer has an accrual.                                       *)
(***************************************************************************)
RowsInOrder ==
  \A o \in Offers :
    /\ offer[o] # NoOffer => offer[o].generated <= now
    /\ accrual[o] # NoAccrual =>
         offer[o].status = "ACCEPTED" /\ accrual[o].accrued <= now

ReportsInv == ReportsTypeOK /\ RowsInOrder

(***************************************************************************)
(* Lemma: a row is there or not by its status.                             *)
(***************************************************************************)
LEMMA RowOrNot ==
  ASSUME ReportsTypeOK, NEW o \in Offers
  PROVE  /\ offer[o] # NoOffer =>
              /\ offer[o].status \in Opened \cup {"PENDING", "EXPIRED"}
              /\ offer[o].user \in Clients /\ offer[o].campaign \in Campaigns
              /\ offer[o].mcc \in Mccs /\ offer[o].generated \in Time
              /\ offer[o].channel \in Channels \cup {Unknown}
              /\ client[offer[o].user].segment \in Deciles \cup {None}
         /\ offer[o].status = "absent" <=> offer[o] = NoOffer
         /\ accrual[o] # NoAccrual =>
              accrual[o].status \in {"PENDING", "PAID"} /\ accrual[o].accrued \in Time
         /\ accrual[o].status = "absent" <=> accrual[o] = NoAccrual
BY DEF ReportsTypeOK, NoOffer, NoAccrual, Opened

(***************************************************************************)
(* Lemma: every step keeps the rows well typed and in order.               *)
(***************************************************************************)
LEMMA ReportsGoOn == ReportsInv /\ [ReportsNext]_reportVars => ReportsInv'
<1> SUFFICES ASSUME ReportsInv, [ReportsNext]_reportVars PROVE ReportsInv'
    OBVIOUS
<1> USE DEF ReportsInv
<1>0. 0 \in Time /\ now \in Time
  BY DEF ReportsTypeOK, Time, ReportsAssumption
<1> DEFINE Full == [status : Opened \cup {"PENDING", "EXPIRED"}, user : Clients,
                    campaign : Campaigns, mcc : Mccs, generated : Time,
                    channel : Channels \cup {Unknown}, responded : Time]
<1>1. ASSUME NEW o \in Offers, NEW u \in Clients, NEW c \in Campaigns, NEW m \in Mccs,
             Deliver(o, u, c, m)
      PROVE  ReportsInv'
  <2> DEFINE row == [status |-> "PENDING", user |-> u, campaign |-> c, mcc |-> m,
                     generated |-> now, channel |-> Unknown, responded |-> None]
  <2>1. row \in Full
    BY <1>0 DEF None
  <2>2. offer' = [offer EXCEPT ![o] = row] /\ UNCHANGED <<now, underway, client, accrual>>
    BY <1>1 DEF Deliver
  <2>3. row.generated = now
    OBVIOUS
  <2>4. accrual[o] = NoAccrual
    BY <1>1, RowOrNot DEF Deliver, RowsInOrder, NoOffer
  <2> HIDE DEF row
  <2>5. ReportsTypeOK'
    BY <2>1, <2>2 DEF ReportsTypeOK
  <2>6. RowsInOrder'
    BY <1>0, <2>2, <2>3, <2>4 DEF RowsInOrder, ReportsTypeOK, Time, ReportsAssumption
  <2>7. QED
    BY <2>5, <2>6
<1>2. ASSUME NEW o \in Offers, NEW ch \in Channels, RecordChannel(o, ch)
      PROVE  ReportsInv'
  <2>1. offer[o] \in Full /\ offer' = [offer EXCEPT ![o].channel = ch]
    BY <1>2 DEF RecordChannel, ReportsTypeOK
  <2>2. ReportsTypeOK'
    BY <1>2, <2>1 DEF RecordChannel, ReportsTypeOK
  <2>3. RowsInOrder'
    BY <1>2, <2>1 DEF RecordChannel, ReportsTypeOK, RowsInOrder
  <2>4. QED
    BY <2>2, <2>3
<1>3. ASSUME NEW o \in Offers, NEW answer \in Opened, Respond(o, answer)
      PROVE  ReportsInv'
  <2>1. offer[o] \in Full /\ offer[o] # NoOffer /\ offer[o].status # "ACCEPTED"
    BY <1>3 DEF Respond, ReportsTypeOK, NoOffer
  <2>2. offer' = [offer EXCEPT ![o] = [offer[o] EXCEPT !.status = answer, !.responded = now]]
    BY <1>3 DEF Respond, ReportsTypeOK
  <2>3. ReportsTypeOK'
    BY <1>0, <1>3, <2>1, <2>2 DEF Respond, ReportsTypeOK
  <2>4. RowsInOrder'
    BY <1>3, <2>1, <2>2 DEF Respond, ReportsTypeOK, RowsInOrder
  <2>5. QED
    BY <2>3, <2>4
<1>4. ASSUME NEW o \in Offers, Expire(o)
      PROVE  ReportsInv'
  <2>1. offer[o] \in Full /\ offer[o] # NoOffer /\ offer[o].status # "ACCEPTED"
    BY <1>4 DEF Expire, ReportsTypeOK, NoOffer
  <2>2. ReportsTypeOK'
    BY <1>4, <2>1 DEF Expire, ReportsTypeOK
  <2>3. RowsInOrder'
    BY <1>4, <2>1 DEF Expire, ReportsTypeOK, RowsInOrder
  <2>4. QED
    BY <2>2, <2>3
<1>5. ASSUME NEW o \in Offers, Accrue(o)
      PROVE  ReportsInv'
  <2>1. ReportsTypeOK'
    BY <1>0, <1>5 DEF Accrue, ReportsTypeOK
  <2>2. RowsInOrder'
    BY <1>0, <1>5 DEF Accrue, ReportsTypeOK, RowsInOrder, Time, ReportsAssumption
  <2>3. QED
    BY <2>1, <2>2
<1>6. CASE Settle
  <2>1. \A o \in Offers : /\ accrual'[o] = NoAccrual <=> accrual[o] = NoAccrual
                          /\ accrual'[o] \in {NoAccrual} \cup
                               [status : {"PENDING", "PAID"}, accrued : Time]
                          /\ accrual[o] # NoAccrual => accrual'[o].accrued = accrual[o].accrued
    BY <1>6 DEF Settle, ReportsTypeOK, NoAccrual
  <2>2. DOMAIN accrual' = Offers /\ accrual' = [o \in Offers |-> accrual'[o]]
    BY <1>6 DEF Settle
  <2>3. ReportsTypeOK'
    BY <1>6, <2>1, <2>2 DEF Settle, ReportsTypeOK
  <2>4. RowsInOrder'
    BY <1>6, <2>1 DEF Settle, RowsInOrder
  <2>5. QED
    BY <2>3, <2>4
<1>7. ASSUME NEW u \in Clients, NEW s \in Deciles \cup {None}, Resegment(u, s)
      PROVE  ReportsInv'
  <2>1. ReportsTypeOK'
    BY <1>7 DEF Resegment, ReportsTypeOK
  <2>2. RowsInOrder'
    BY <1>7 DEF Resegment, RowsInOrder
  <2>3. QED
    BY <2>1, <2>2
<1>8. CASE Tick
  <2>1. now' \in Time /\ now <= now'
    BY <1>0, <1>8 DEF Tick, Time, ReportsAssumption
  <2>2. ReportsTypeOK'
    BY <1>8, <2>1 DEF Tick, ReportsTypeOK
  <2>3. ASSUME NEW o \in Offers
        PROVE  /\ offer[o] # NoOffer => offer[o].generated <= now'
               /\ accrual[o] # NoAccrual =>
                    offer[o].status = "ACCEPTED" /\ accrual[o].accrued <= now'
    BY <1>0, <2>1, RowOrNot DEF RowsInOrder, Time, ReportsAssumption
  <2>4. RowsInOrder'
    BY <1>8, <2>3 DEF Tick, RowsInOrder
  <2>5. QED
    BY <2>2, <2>4
<1>9. ASSUME NEW c \in Campaigns, Close(c) PROVE ReportsInv'
  BY <1>9 DEF Close, ReportsTypeOK, RowsInOrder
<1>10. CASE UNCHANGED reportVars
  BY <1>10 DEF reportVars, ReportsTypeOK, RowsInOrder
<1>11. QED
  BY <1>1, <1>2, <1>3, <1>4, <1>5, <1>6, <1>7, <1>8, <1>9, <1>10 DEF ReportsNext

(***************************************************************************)
(* The rows keep their types and their order.                              *)
(***************************************************************************)
THEOREM ReportsHold == ReportsSpec => []ReportsInv
<1>1. ReportsInit => ReportsInv
  BY DEF ReportsInit, ReportsInv, ReportsTypeOK, RowsInOrder, Time, ReportsAssumption
<1>2. QED
  BY <1>1, ReportsGoOn, PTL DEF ReportsSpec

-----------------------------------------------------------------------------
(***************************************************************************)
(* Lemma: fewer rows are not of more clients.                              *)
(***************************************************************************)
LEMMA FewerUsers ==
  ASSUME ReportsTypeOK, NEW S \in SUBSET Rows, NEW T \in SUBSET S
  PROVE  CountUsers(T) \in Nat /\ CountUsers(S) \in Nat /\ CountUsers(T) <= CountUsers(S)
<1> DEFINE of(R) == {offer[o].user : o \in R}
<1>1. of(S) \subseteq Clients
  BY RowOrNot DEF Rows
<1>2. of(T) \subseteq of(S)
  OBVIOUS
<1>3. IsFiniteSet(of(S))
  BY <1>1, FS_Subset DEF ReportsAssumption
<1> HIDE DEF of
<1>4. IsFiniteSet(of(T)) /\ Cardinality(of(T)) <= Cardinality(of(S))
  BY <1>2, <1>3, FS_Subset
<1>5. Cardinality(of(T)) \in Nat /\ Cardinality(of(S)) \in Nat
  BY <1>3, <1>4, FS_CardinalityType
<1>6. QED
  BY <1>4, <1>5 DEF CountUsers, of

(***************************************************************************)
(* Lemma: a stage of the funnel is a part of the one before.               *)
(***************************************************************************)
LEMMA StagesNest ==
  ASSUME ReportsTypeOK, NEW S \in SUBSET Rows
  PROVE  /\ Answered(S) \in SUBSET S /\ Answered(S) \in SUBSET Rows
         /\ Accepted(S) \in SUBSET Answered(S) /\ Accepted(S) \in SUBSET Rows
         /\ Accepted(S) \in SUBSET S
         /\ Converted(S) \in SUBSET Accepted(S) /\ Converted(S) \in SUBSET Rows
         /\ Paid(S) \in SUBSET Converted(S)
<1>1. \A o \in Accepted(S) : accrual[o].status = "PAID" => accrual[o] # NoAccrual
  BY DEF NoAccrual
<1>2. QED
  BY <1>1 DEF Answered, Accepted, Converted, Paid, Opened

(***************************************************************************)
(* Lemma: the funnel narrows, under every filter.                          *)
(***************************************************************************)
LEMMA FunnelAlwaysNarrows == ReportsInv => FunnelNarrows
<1> SUFFICES ASSUME ReportsInv PROVE FunnelNarrows
    OBVIOUS
<1>0. ReportsTypeOK
  BY DEF ReportsInv
<1>1. ASSUME NEW f \in Filters, NEW i \in 1 .. 4
      PROVE  Funnel(f[1], f[2], f[3])[i + 1] <= Funnel(f[1], f[2], f[3])[i]
  <2> DEFINE S == Recent(f[1], f[2], f[3])
  <2>1. S \in SUBSET Rows
    BY DEF Recent, Window
  <2>2. Funnel(f[1], f[2], f[3]) =
          <<CountUsers(S), CountUsers(Answered(S)), CountUsers(Accepted(S)),
            CountUsers(Converted(S)), CountUsers(Paid(S))>>
    BY DEF Funnel
  <2> HIDE DEF S
  <2>3. /\ CountUsers(Answered(S)) <= CountUsers(S)
        /\ CountUsers(Accepted(S)) <= CountUsers(Answered(S))
        /\ CountUsers(Converted(S)) <= CountUsers(Accepted(S))
        /\ CountUsers(Paid(S)) <= CountUsers(Converted(S))
    BY <1>0, <2>1, StagesNest, FewerUsers
  <2>4. CASE i = 1
    BY <2>2, <2>3, <2>4
  <2>5. CASE i = 2
    BY <2>2, <2>3, <2>5
  <2>6. CASE i = 3
    BY <2>2, <2>3, <2>6
  <2>7. CASE i = 4
    BY <2>2, <2>3, <2>7
  <2>8. QED
    BY <2>4, <2>5, <2>6, <2>7
<1>2. ASSUME NEW c \in Campaigns
      PROVE  /\ TopCampaign(c).transacted <= TopCampaign(c).accepted
             /\ TopCampaign(c).accepted <= TopCampaign(c).delivered
  <2> DEFINE S == {o \in Rows : offer[o].campaign = c}
  <2>1. S \in SUBSET Rows
    OBVIOUS
  <2>2. /\ TopCampaign(c).transacted = CountUsers(Converted(S))
        /\ TopCampaign(c).accepted = CountUsers(Accepted(S))
        /\ TopCampaign(c).delivered = CountUsers(S)
    BY DEF TopCampaign
  <2> HIDE DEF S
  <2>3. QED
    BY <1>0, <2>1, <2>2, StagesNest, FewerUsers
<1>3. QED
  BY <1>1, <1>2 DEF FunnelNarrows

-----------------------------------------------------------------------------
(***************************************************************************)
(* Lemma: a set of rows is counted by its channels.                        *)
(***************************************************************************)
LEMMA CountByChannel ==
  ASSUME ReportsTypeOK, NEW S \in SUBSET Rows, NEW counts,
         \A ch \in Channels \cup {Unknown} :
           counts[ch] = Cardinality({o \in S : ChannelOf(o) = ch})
  PROVE  SumOf(counts, Channels \cup {Unknown}) = Cardinality(S)
<1> DEFINE I == Channels \cup {Unknown}
           part == [ch \in I |-> {o \in S : ChannelOf(o) = ch}]
<1>1. IsFiniteSet(I) /\ IsFiniteSet(S)
  BY FS_AddElement, FS_Subset DEF ReportsAssumption, Rows
<1>2. \A o \in S : ChannelOf(o) \in I
  BY RowOrNot DEF Rows, ChannelOf
<1>3. Partition(part, I, S)
  BY <1>2 DEF Partition
<1>4. \A ch \in I : counts[ch] = Cardinality(part[ch])
  OBVIOUS
<1> HIDE DEF I, part
<1>5. SumOf(counts, I) = Cardinality(S)
  BY <1>1, <1>3, <1>4, CountOfParts
<1>6. QED
  BY <1>5 DEF I

(***************************************************************************)
(* Lemma: and one of a bucket by its segments and categories.              *)
(***************************************************************************)
LEMMA CountByCell ==
  ASSUME ReportsTypeOK, NEW S \in SUBSET Rows, \A o \in S : SegmentOf(o) \in Deciles,
         NEW counts,
         \A cell \in Deciles \X Mccs :
           counts[cell] = Cardinality({o \in S : SegmentOf(o) = cell[1]
                                                 /\ offer[o].mcc = cell[2]})
  PROVE  SumOf(counts, Deciles \X Mccs) = Cardinality(S)
<1> DEFINE I == Deciles \X Mccs
           part == [cell \in I |-> {o \in S : SegmentOf(o) = cell[1] /\ offer[o].mcc = cell[2]}]
<1>1. IsFiniteSet(I) /\ IsFiniteSet(S)
  BY FS_Product, FS_Subset DEF ReportsAssumption, Rows
<1>2. \A o \in S : <<SegmentOf(o), offer[o].mcc>> \in I
  BY RowOrNot DEF Rows
<1>3. Partition(part, I, S)
  <2>1. \A x \in S : x \in part[<<SegmentOf(x), offer[x].mcc>>]
    BY <1>2
  <2>2. \A i, j \in I : i # j => i[1] # j[1] \/ i[2] # j[2]
    OBVIOUS
  <2>3. \A i, j \in I : i # j => part[i] \cap part[j] = {}
    BY <2>2
  <2>4. \A i \in I : part[i] \subseteq S
    OBVIOUS
  <2> HIDE DEF I, part
  <2>5. QED
    BY <1>2, <2>1, <2>3, <2>4 DEF Partition
<1>4. \A cell \in I : counts[cell] = Cardinality(part[cell])
  OBVIOUS
<1> HIDE DEF I, part
<1>5. SumOf(counts, I) = Cardinality(S)
  BY <1>1, <1>3, <1>4, CountOfParts
<1>6. QED
  BY <1>5 DEF I

(***************************************************************************)
(* Lemma: the KPIs count the rows of a window that are in their scope.     *)
(***************************************************************************)
LEMMA KpiCounts ==
  ASSUME NEW since, NEW until, NEW campaign, NEW bucket
  PROVE  LET S == Counted(since, until, campaign, bucket)
         IN /\ Kpi(since, until, campaign, bucket).delivered = Cardinality(S)
            /\ Kpi(since, until, campaign, bucket).accepted = Cardinality(Accepted(S))
            /\ S \in SUBSET Rows /\ Accepted(S) \in SUBSET S
BY DEF Kpi, CountRows, Counted, Window, Accepted

(***************************************************************************)
(* Lemma: these are the rows of the campaign asked for, or those of the    *)
(* window that are of a campaign underway.                                 *)
(***************************************************************************)
LEMMA CountedAre ==
  ASSUME NEW since, NEW until, NEW bucket
  PROVE  /\ \A c \in Campaigns :
              Counted(since, until, c, bucket) = Window(since, until, c, bucket)
         /\ Counted(since, until, None, bucket)
              = {o \in Window(since, until, None, bucket) : offer[o].campaign \in underway}
<1>1. \A c \in Campaigns : c # None
  BY DEF ReportsAssumption
<1>2. QED
  BY <1>1 DEF Counted, InScope, Window, Passes

(***************************************************************************)
(* Lemma: the channels of a window count its rows, and what became of      *)
(* them.                                                                   *)
(***************************************************************************)
LEMMA ChannelsCount ==
  ASSUME ReportsTypeOK, NEW period, NEW campaign, NEW bucket
  PROVE  LET S == Recent(period, campaign, bucket)
             channels == ChannelStats(period, campaign, bucket)
         IN /\ SumAll(channels.sent) = Cardinality(S)
            /\ SumAll(channels.opened) = Cardinality(Answered(S))
            /\ SumAll(channels.accepted) = Cardinality(Accepted(S))
            /\ SumAll(channels.converted) = Cardinality(Converted(S))
<1> DEFINE S == Recent(period, campaign, bucket)
           channels == ChannelStats(period, campaign, bucket)
           I == Channels \cup {Unknown}
           of(ch) == {o \in S : ChannelOf(o) = ch}
<1>1. /\ S \in SUBSET Rows /\ Answered(S) \in SUBSET Rows
      /\ Accepted(S) \in SUBSET Rows /\ Converted(S) \in SUBSET Rows
  <2>1. S \in SUBSET Rows
    BY DEF Recent, Window
  <2>2. QED
    BY <2>1, StagesNest
<1>2. channels = [sent |-> [ch \in I |-> Cardinality(of(ch))],
                  opened |-> [ch \in I |-> Cardinality(Answered(of(ch)))],
                  accepted |-> [ch \in I |-> Cardinality(Accepted(of(ch)))],
                  converted |-> [ch \in I |-> Cardinality(Converted(of(ch)))]]
  BY DEF ChannelStats, CountRows
<1>3. \A ch \in I : /\ Answered(of(ch)) = {o \in Answered(S) : ChannelOf(o) = ch}
                    /\ Accepted(of(ch)) = {o \in Accepted(S) : ChannelOf(o) = ch}
                    /\ Converted(of(ch)) = {o \in Converted(S) : ChannelOf(o) = ch}
  BY DEF Answered, Accepted, Converted
<1> HIDE DEF S, channels
<1> DEFINE sent == channels.sent
           opened == channels.opened
           accepted == channels.accepted
           converted == channels.converted
<1>4. \A ch \in I : /\ sent[ch] = Cardinality({o \in S : ChannelOf(o) = ch})
                    /\ opened[ch] = Cardinality({o \in Answered(S) : ChannelOf(o) = ch})
                    /\ accepted[ch] = Cardinality({o \in Accepted(S) : ChannelOf(o) = ch})
                    /\ converted[ch] = Cardinality({o \in Converted(S) : ChannelOf(o) = ch})
  BY <1>2, <1>3
<1>5. DOMAIN sent = I /\ DOMAIN opened = I /\ DOMAIN accepted = I /\ DOMAIN converted = I
  BY <1>2
<1> HIDE DEF sent, opened, accepted, converted, of
<1>6. SumAll(sent) = Cardinality(S)
  <2>1. \A ch \in Channels \cup {Unknown} :
          sent[ch] = Cardinality({o \in S : ChannelOf(o) = ch})
    BY <1>4
  <2>2. SumOf(sent, Channels \cup {Unknown}) = Cardinality(S)
    BY <1>1, <2>1, CountByChannel
  <2>3. QED
    BY <1>5, <2>2 DEF SumAll
<1>7. SumAll(opened) = Cardinality(Answered(S))
  <2>1. \A ch \in Channels \cup {Unknown} :
          opened[ch] = Cardinality({o \in Answered(S) : ChannelOf(o) = ch})
    BY <1>4
  <2>2. SumOf(opened, Channels \cup {Unknown}) = Cardinality(Answered(S))
    BY <1>1, <2>1, CountByChannel
  <2>3. QED
    BY <1>5, <2>2 DEF SumAll
<1>8. SumAll(accepted) = Cardinality(Accepted(S))
  <2>1. \A ch \in Channels \cup {Unknown} :
          accepted[ch] = Cardinality({o \in Accepted(S) : ChannelOf(o) = ch})
    BY <1>4
  <2>2. SumOf(accepted, Channels \cup {Unknown}) = Cardinality(Accepted(S))
    BY <1>1, <2>1, CountByChannel
  <2>3. QED
    BY <1>5, <2>2 DEF SumAll
<1>9. SumAll(converted) = Cardinality(Converted(S))
  <2>1. \A ch \in Channels \cup {Unknown} :
          converted[ch] = Cardinality({o \in Converted(S) : ChannelOf(o) = ch})
    BY <1>4
  <2>2. SumOf(converted, Channels \cup {Unknown}) = Cardinality(Converted(S))
    BY <1>1, <2>1, CountByChannel
  <2>3. QED
    BY <1>5, <2>2 DEF SumAll
<1>10. QED
  BY <1>6, <1>7, <1>8, <1>9 DEF sent, opened, accepted, converted, S, channels

(***************************************************************************)
(* Lemma: the matrix of a bucket counts the rows of the window.            *)
(***************************************************************************)
LEMMA MatrixCounts ==
  ASSUME ReportsTypeOK, NEW period, NEW campaign, NEW bucket \in DOMAIN Buckets
  PROVE  LET S == Recent(period, campaign, bucket)
             matrix == Matrix(period, campaign, bucket)
         IN /\ SumAll(matrix.impressions) = Cardinality(S)
            /\ SumAll(matrix.accepted) = Cardinality(Accepted(S))
<1> DEFINE S == Recent(period, campaign, bucket)
           matrix == Matrix(period, campaign, bucket)
           I == Deciles \X Mccs
           of(s, m) == {o \in S : SegmentOf(o) = s /\ offer[o].mcc = m}
<1>1. S \in SUBSET Rows /\ Accepted(S) \in SUBSET Rows
  <2>1. S \in SUBSET Rows
    BY DEF Recent, Window
  <2>2. QED
    BY <2>1, StagesNest
<1>2. \A o \in S : SegmentOf(o) \in Deciles
  <2>1. bucket # None /\ Buckets[bucket] \subseteq Deciles
    BY DEF ReportsAssumption, Deciles
  <2>2. QED
    BY <2>1 DEF Recent, Window, Passes
<1>3. \A o \in Accepted(S) : SegmentOf(o) \in Deciles
  BY <1>2 DEF Accepted
<1>4. matrix = [impressions |-> [cell \in I |-> Cardinality(of(cell[1], cell[2]))],
                accepted |-> [cell \in I |-> Cardinality(Accepted(of(cell[1], cell[2])))]]
  BY DEF Matrix, CountRows
<1>5. \A cell \in I : Accepted(of(cell[1], cell[2]))
                        = {o \in Accepted(S) : SegmentOf(o) = cell[1] /\ offer[o].mcc = cell[2]}
  BY DEF Accepted
<1> HIDE DEF S, matrix
<1> DEFINE impressions == matrix.impressions
           accepted == matrix.accepted
<1>6. \A cell \in I :
        /\ impressions[cell]
             = Cardinality({o \in S : SegmentOf(o) = cell[1] /\ offer[o].mcc = cell[2]})
        /\ accepted[cell]
             = Cardinality({o \in Accepted(S) : SegmentOf(o) = cell[1] /\ offer[o].mcc = cell[2]})
  BY <1>4, <1>5
<1>7. DOMAIN impressions = I /\ DOMAIN accepted = I
  BY <1>4
<1> HIDE DEF impressions, accepted, of
<1>8. SumAll(impressions) = Cardinality(S)
  <2>1. \A cell \in Deciles \X Mccs :
          impressions[cell] = Cardinality({o \in S : SegmentOf(o) = cell[1]
                                     /\ offer[o].mcc = cell[2]})
    BY <1>6
  <2>2. SumOf(impressions, Deciles \X Mccs) = Cardinality(S)
    BY <1>1, <1>2, <2>1, CountByCell
  <2>3. QED
    BY <1>7, <2>2 DEF SumAll
<1>9. SumAll(accepted) = Cardinality(Accepted(S))
  <2>1. \A cell \in Deciles \X Mccs :
          accepted[cell] = Cardinality({o \in Accepted(S) : SegmentOf(o) = cell[1]
                                     /\ offer[o].mcc = cell[2]})
    BY <1>6
  <2>2. SumOf(accepted, Deciles \X Mccs) = Cardinality(Accepted(S))
    BY <1>1, <1>3, <2>1, CountByCell
  <2>3. QED
    BY <1>7, <2>2 DEF SumAll
<1>10. QED
  BY <1>8, <1>9 DEF impressions, accepted, S, matrix

(***************************************************************************)
(* Lemma: rows of the campaigns underway are counted by their campaigns.   *)
(***************************************************************************)
LEMMA CountByCampaign ==
  ASSUME ReportsTypeOK, NEW S \in SUBSET Offers,
         \A o \in S : offer[o].campaign \in underway,
         NEW T \in SUBSET S, NEW counts,
         \A c \in underway : counts[c] = Cardinality({o \in T : offer[o].campaign = c})
  PROVE  SumOf(counts, underway) = Cardinality(T)
<1> DEFINE part == [c \in underway |-> {o \in T : offer[o].campaign = c}]
<1>1. IsFiniteSet(underway) /\ IsFiniteSet(T)
  BY FS_Subset DEF ReportsTypeOK, ReportsAssumption
<1>2. Partition(part, underway, T)
  BY DEF Partition
<1>3. \A c \in underway : counts[c] = Cardinality(part[c])
  OBVIOUS
<1> HIDE DEF part
<1>4. QED
  BY <1>1, <1>2, <1>3, CountOfParts

(***************************************************************************)
(* Lemma: the reports of a dashboard agree, under every filter.            *)
(***************************************************************************)
LEMMA DashboardAlwaysAgrees == ReportsInv => DashboardAgrees
<1> SUFFICES ASSUME ReportsInv, NEW f \in Filters
             PROVE  LET channels == ChannelStats(f[1], f[2], f[3])
                        kpi == Kpi(Now - f[1], Now, f[2], f[3])
                        before == Kpi(Now - 2 * f[1], Now - f[1], f[2], f[3])
                        matrix == Matrix(f[1], f[2], f[3])
                        of(c) == Kpi(Now - f[1], Now, c, f[3])
                    IN /\ f[2] # None \/ AllUnderway(Recent(f[1], None, f[3])) =>
                            /\ SumAll(channels.sent) = kpi.delivered
                            /\ SumAll(channels.accepted) = kpi.accepted
                       /\ f[2] = None =>
                            /\ SumOf([c \in Campaigns |-> of(c).delivered], underway)
                                 = kpi.delivered
                            /\ SumOf([c \in Campaigns |-> of(c).accepted], underway)
                                 = kpi.accepted
                       /\ f[3] # None =>
                            /\ SumAll(matrix.impressions) = SumAll(channels.sent)
                            /\ SumAll(matrix.accepted) = SumAll(channels.accepted)
                       /\ kpi.delivered + before.delivered
                            = Kpi(Now - 2 * f[1], Now, f[2], f[3]).delivered
    BY DEF DashboardAgrees
<1>0. ReportsTypeOK
  BY DEF ReportsInv
<1> DEFINE S == Recent(f[1], f[2], f[3])
           K == Counted(Now - f[1], Now, f[2], f[3])
           Before == Counted(Now - 2 * f[1], Now - f[1], f[2], f[3])
           Both == Counted(Now - 2 * f[1], Now, f[2], f[3])
           Of(c) == Counted(Now - f[1], Now, c, f[3])
           shown == [c \in Campaigns |-> Kpi(Now - f[1], Now, c, f[3]).delivered]
           taken == [c \in Campaigns |-> Kpi(Now - f[1], Now, c, f[3]).accepted]
<1>1. /\ Kpi(Now - f[1], Now, f[2], f[3]).delivered = Cardinality(K)
      /\ Kpi(Now - f[1], Now, f[2], f[3]).accepted = Cardinality(Accepted(K))
      /\ Kpi(Now - 2 * f[1], Now - f[1], f[2], f[3]).delivered = Cardinality(Before)
      /\ Kpi(Now - 2 * f[1], Now, f[2], f[3]).delivered = Cardinality(Both)
      /\ \A c \in Campaigns : /\ shown[c] = Cardinality(Of(c))
                               /\ taken[c] = Cardinality(Accepted(Of(c)))
  BY KpiCounts
<1>2. ASSUME f[2] # None \/ AllUnderway(Recent(f[1], None, f[3]))
      PROVE  K = S
  <2>1. CASE f[2] # None
    <3>1. f[2] \in Campaigns
      BY <2>1 DEF Filters
    <3>2. QED
      BY <3>1, CountedAre DEF Recent
  <2>2. CASE f[2] = None
    <3>1. \A o \in S : offer[o].campaign \in underway
      BY <1>2, <2>2 DEF AllUnderway
    <3>2. K = {o \in S : offer[o].campaign \in underway}
      BY <2>2, CountedAre DEF Recent
    <3> HIDE DEF K, S
    <3>3. QED
      BY <3>1, <3>2
  <2>3. QED
    BY <2>1, <2>2
<1>3. /\ f[1] \in Nat /\ f[1] > 0 /\ Now \in Nat
      /\ f[3] # None => f[3] \in DOMAIN Buckets
  <2>1. f[1] \in Nat /\ f[1] > 0
    <3>1. f[1] \in Periods
      BY DEF Filters
    <3>2. \A p \in Periods : p \in Nat /\ p > 0
      BY DEF ReportsAssumption
    <3>3. QED
      BY <3>1, <3>2
  <2>2. Now \in Nat
    BY <1>0 DEF ReportsTypeOK, Now, Time, ReportsAssumption
  <2>3. f[3] # None => f[3] \in DOMAIN Buckets
    BY DEF Filters
  <2>4. QED
    BY <2>1, <2>2, <2>3
<1>4. Both = K \cup Before /\ K \cap Before = {}
  <2>1. \A o \in Rows : offer[o].generated \in Nat
    BY <1>0, RowOrNot DEF Rows, Time, ReportsAssumption
  <2>2. \A n \in Nat : /\ n >= Now - f[1] /\ n < Now => n >= Now - 2 * f[1]
                       /\ n >= Now - 2 * f[1] /\ n < Now - f[1] => n < Now
                       /\ n >= Now - f[1] <=> ~(n < Now - f[1])
    BY <1>3
  <2>3. QED
    BY <2>1, <2>2 DEF Counted, Window
<1>5. Cardinality(Both) = Cardinality(K) + Cardinality(Before)
  <2>1. K \in SUBSET Offers /\ Before \in SUBSET Offers
    BY DEF Counted, Window, Rows
  <2>2. IsFiniteSet(K) /\ IsFiniteSet(Before)
    BY <2>1, FS_Subset DEF ReportsAssumption
  <2> HIDE DEF K, Before, Both
  <2>3. Cardinality(K \cup Before)
          = Cardinality(K) + Cardinality(Before) - Cardinality(K \cap Before)
    BY <2>2, FS_Union
  <2>4. Cardinality(K \cap Before) = 0
    BY <1>4, FS_EmptySet
  <2>5. Cardinality(K) \in Nat /\ Cardinality(Before) \in Nat
    BY <2>2, FS_CardinalityType
  <2>6. QED
    BY <1>4, <2>3, <2>4, <2>5
<1>6. f[2] = None => SumOf(shown, underway) = Cardinality(K)
                     /\ SumOf(taken, underway) = Cardinality(Accepted(K))
  <2> SUFFICES ASSUME f[2] = None
               PROVE  SumOf(shown, underway) = Cardinality(K)
                      /\ SumOf(taken, underway) = Cardinality(Accepted(K))
      OBVIOUS
  <2>1. /\ \A o \in K : offer[o].campaign \in underway
        /\ \A c \in underway : Of(c) = {o \in K : offer[o].campaign = c}
    <3>1. K = {o \in Window(Now - f[1], Now, None, f[3]) : offer[o].campaign \in underway}
      BY CountedAre
    <3>2. \A c \in underway : c \in Campaigns /\ c # None
      BY <1>0 DEF ReportsTypeOK, ReportsAssumption
    <3>3. \A c \in underway : Of(c) = Window(Now - f[1], Now, c, f[3])
      BY <3>2, CountedAre
    <3>4. \A c \in underway : Window(Now - f[1], Now, c, f[3])
            = {o \in Window(Now - f[1], Now, None, f[3]) : offer[o].campaign = c}
      BY <3>2 DEF Window, Passes
    <3> HIDE DEF K, Of
    <3>5. QED
      BY <3>1, <3>3, <3>4
  <2>2. K \in SUBSET Offers /\ Accepted(K) \in SUBSET K
    BY DEF Counted, Window, Rows, Accepted
  <2>3. \A c \in underway : Accepted(Of(c)) = {o \in Accepted(K) : offer[o].campaign = c}
    BY <2>1 DEF Accepted
  <2>4. underway \in SUBSET Campaigns
    BY <1>0 DEF ReportsTypeOK
  <2> HIDE DEF K, Of, shown, taken
  <2>5. /\ \A c \in underway : shown[c] = Cardinality({o \in K : offer[o].campaign = c})
        /\ \A c \in underway :
             taken[c] = Cardinality({o \in Accepted(K) : offer[o].campaign = c})
    <3> SUFFICES ASSUME NEW c \in underway
                 PROVE  /\ shown[c] = Cardinality({o \in K : offer[o].campaign = c})
                        /\ taken[c] = Cardinality({o \in Accepted(K) : offer[o].campaign = c})
        OBVIOUS
    <3>1. c \in Campaigns
      BY <2>4
    <3>2. shown[c] = Cardinality(Of(c)) /\ taken[c] = Cardinality(Accepted(Of(c)))
      BY <1>1, <3>1
    <3>3. Of(c) = {o \in K : offer[o].campaign = c}
      BY <2>1
    <3>4. Accepted(Of(c)) = {o \in Accepted(K) : offer[o].campaign = c}
      BY <2>3
    <3>5. QED
      BY <3>2, <3>3, <3>4
  <2>6. SumOf(shown, underway) = Cardinality(K)
    <3>1. K \in SUBSET K
      OBVIOUS
    <3>2. QED
      BY <1>0, <2>1, <2>2, <2>5, <3>1, CountByCampaign
  <2>7. SumOf(taken, underway) = Cardinality(Accepted(K))
    BY <1>0, <2>1, <2>2, <2>5, CountByCampaign
  <2>8. QED
    BY <2>6, <2>7
<1> HIDE DEF S, K, Before, Both, Of
<1>7. LET channels == ChannelStats(f[1], f[2], f[3])
      IN /\ SumAll(channels.sent) = Cardinality(S)
         /\ SumAll(channels.accepted) = Cardinality(Accepted(S))
  BY <1>0, ChannelsCount DEF S
<1>8. f[3] # None =>
        LET matrix == Matrix(f[1], f[2], f[3])
        IN /\ SumAll(matrix.impressions) = Cardinality(S)
           /\ SumAll(matrix.accepted) = Cardinality(Accepted(S))
  BY <1>0, <1>3, MatrixCounts DEF S
<1>9. QED
  BY <1>1, <1>2, <1>5, <1>6, <1>7, <1>8 DEF shown, taken

-----------------------------------------------------------------------------
(***************************************************************************)
(* Lemma: seen from now, the window since the beginning holds every row    *)
(* and the accruals booked in it are all there are.                        *)
(***************************************************************************)
LEMMA AllTime ==
  ASSUME ReportsInv
  PROVE  /\ 0 <= Now /\ Now - Now = 0
         /\ \A c \in Campaigns :
              /\ Window(0, Now, c, None) = {o \in Rows : offer[o].campaign = c}
              /\ Recent(Now, c, None) = {o \in Rows : offer[o].campaign = c}
              /\ Spent(0, Now, c, None)
                   = SumOf(Cashback, {o \in Accruals : offer[o].campaign = c})
         /\ Spent(0, Now, None, None)
              = SumOf(Cashback, {o \in Accruals : offer[o].campaign \in underway})
<1>0. ReportsTypeOK /\ Now \in Nat /\ Now = now + 1 /\ now \in Nat
  BY DEF ReportsInv, ReportsTypeOK, Now, Time, ReportsAssumption
<1>1. \A o \in Rows : offer[o].generated >= 0 /\ offer[o].generated < Now
  <2>1. \A o \in Rows : offer[o].generated \in Nat /\ offer[o].generated <= now
    BY <1>0, RowOrNot DEF Rows, Time, ReportsInv, RowsInOrder, ReportsAssumption
  <2>2. QED
    BY <1>0, <2>1
<1>2. \A o \in Accruals : accrual[o].accrued >= 0 /\ accrual[o].accrued < Now
  <2>1. \A o \in Accruals : accrual[o].accrued \in Nat /\ accrual[o].accrued <= now
    BY <1>0, RowOrNot DEF Accruals, Time, ReportsInv, RowsInOrder, ReportsAssumption
  <2>2. QED
    BY <1>0, <2>1
<1>3. ASSUME NEW c \in Campaigns
      PROVE  /\ Window(0, Now, c, None) = {o \in Rows : offer[o].campaign = c}
             /\ Recent(Now, c, None) = {o \in Rows : offer[o].campaign = c}
             /\ Spent(0, Now, c, None)
                  = SumOf(Cashback, {o \in Accruals : offer[o].campaign = c})
  <2>1. c # None
    BY DEF ReportsAssumption
  <2>2. \A o \in Offers : Passes(o, c, None) <=> offer[o].campaign = c
    BY <2>1 DEF Passes
  <2>3. Window(0, Now, c, None) = {o \in Rows : offer[o].campaign = c}
    BY <1>1, <2>2 DEF Window, Rows
  <2>4. Now - Now = 0
    BY <1>0
  <2>5. {o \in Accruals : /\ accrual[o].accrued >= 0 /\ accrual[o].accrued < Now
                          /\ Passes(o, None, None) /\ offer[o].campaign \in InScope(c)}
          = {o \in Accruals : offer[o].campaign = c}
    BY <1>2, <2>1 DEF Passes, InScope
  <2>6. Spent(0, Now, c, None)
          = SumOf(Cashback, {o \in Accruals :
              /\ accrual[o].accrued >= 0 /\ accrual[o].accrued < Now
              /\ Passes(o, None, None) /\ offer[o].campaign \in InScope(c)})
    BY DEF Spent
  <2>7. QED
    BY <2>3, <2>4, <2>5, <2>6 DEF Recent
<1>4. Spent(0, Now, None, None)
        = SumOf(Cashback, {o \in Accruals : offer[o].campaign \in underway})
  <2>1. {o \in Accruals : /\ accrual[o].accrued >= 0 /\ accrual[o].accrued < Now
                          /\ Passes(o, None, None) /\ offer[o].campaign \in InScope(None)}
          = {o \in Accruals : offer[o].campaign \in underway}
    BY <1>2 DEF Passes, InScope
  <2>2. Spent(0, Now, None, None)
          = SumOf(Cashback, {o \in Accruals :
              /\ accrual[o].accrued >= 0 /\ accrual[o].accrued < Now
              /\ Passes(o, None, None) /\ offer[o].campaign \in InScope(None)})
    BY DEF Spent
  <2>3. QED
    BY <2>1, <2>2
<1>5. QED
  BY <1>0, <1>3, <1>4

(***************************************************************************)
(* Lemma: what every client sees of the accruals in a set adds up to it.   *)
(***************************************************************************)
LEMMA SumOverClients ==
  ASSUME ReportsInv, NEW S \in SUBSET Accruals, NEW sums,
         DOMAIN sums = Clients,
         \A u \in Clients : sums[u] = SumOf(Cashback, {o \in S : offer[o].user = u})
  PROVE  SumAll(sums) = SumOf(Cashback, S)
<1> DEFINE part == [u \in Clients |-> {o \in S : offer[o].user = u}]
<1>1. \A o \in S : offer[o].user \in Clients
  <2>1. \A o \in Accruals : offer[o] # NoOffer
    BY DEF Accruals, ReportsInv, RowsInOrder, NoOffer
  <2>2. QED
    BY <2>1, RowOrNot DEF Accruals, ReportsInv
<1>2. Partition(part, Clients, S)
  BY <1>1 DEF Partition
<1>3. IsFiniteSet(S) /\ Amounts(Cashback, S) /\ IsFiniteSet(Clients)
  BY FS_Subset DEF Amounts, Accruals, ReportsAssumption
<1>4. \A u \in Clients : sums[u] = SumOf(Cashback, part[u])
  OBVIOUS
<1> HIDE DEF part
<1>5. SumOf(sums, Clients) = SumOf(Cashback, S)
  BY <1>2, <1>3, <1>4, SumOfParts
<1>6. QED
  BY <1>5 DEF SumAll

(***************************************************************************)
(* Lemma: and so does what the campaigns of a set spent.                   *)
(***************************************************************************)
LEMMA SumOverCampaigns ==
  ASSUME ReportsInv, NEW C \in SUBSET Campaigns, NEW sums,
         \A c \in C : sums[c] = SumOf(Cashback, {o \in Accruals : offer[o].campaign = c})
  PROVE  SumOf(sums, C) = SumOf(Cashback, {o \in Accruals : offer[o].campaign \in C})
<1> DEFINE S == {o \in Accruals : offer[o].campaign \in C}
           part == [c \in C |-> {o \in Accruals : offer[o].campaign = c}]
<1>1. Partition(part, C, S)
  BY DEF Partition
<1>2. IsFiniteSet(S) /\ Amounts(Cashback, S) /\ IsFiniteSet(C)
  BY FS_Subset DEF Amounts, Accruals, ReportsAssumption
<1>3. \A c \in C : sums[c] = SumOf(Cashback, part[c])
  OBVIOUS
<1> HIDE DEF part, S
<1>4. SumOf(sums, C) = SumOf(Cashback, S)
  BY <1>1, <1>2, <1>3, SumOfParts
<1>5. QED
  BY <1>4 DEF S

(***************************************************************************)
(* Lemma: the statistics of a campaign, top-campaigns, the KPIs and what   *)
(* clients see agree.                                                      *)
(***************************************************************************)
LEMMA StatsAlwaysAgree == ReportsInv => StatsAgree
<1> SUFFICES ASSUME ReportsInv PROVE StatsAgree
    OBVIOUS
<1>0. ReportsTypeOK
  BY DEF ReportsInv
<1>1. ASSUME NEW c \in Campaigns
      PROVE  LET stats == CampaignStats(c)
                 top == TopCampaign(c)
                 kpi == Kpi(0, Now, c, None)
                 channels == ChannelStats(Now, c, None)
             IN /\ stats.reach = top.delivered /\ stats.acceptedUsers = top.accepted
                /\ stats.transactedUsers = top.transacted
                /\ stats.revenue = top.revenue /\ stats.paid = top.paid
                /\ stats.impressions = kpi.delivered /\ stats.accepted = kpi.accepted
                /\ Spent(0, Now, c, None) = top.cashback
                /\ SumAll(channels.opened) = stats.clicks
                /\ SumAll(channels.converted) = stats.transactions
  <2> DEFINE shown == {o \in Rows : offer[o].campaign = c}
             booked == {o \in Accruals : offer[o].campaign = c}
             stats == CampaignStats(c)
             top == TopCampaign(c)
             channels == ChannelStats(Now, c, None)
  <2>1. /\ stats.reach = top.delivered /\ stats.acceptedUsers = top.accepted
        /\ stats.transactedUsers = top.transacted
        /\ stats.revenue = top.revenue /\ stats.paid = top.paid
        /\ stats.impressions = Cardinality(shown)
        /\ stats.accepted = Cardinality(Accepted(shown))
        /\ stats.clicks = Cardinality(Answered(shown))
        /\ stats.transactions = Cardinality(booked)
        /\ top.cashback = SumOf(Cashback, booked)
    BY DEF CampaignStats, TopCampaign, CountRows
  <2>2. /\ Window(0, Now, c, None) = shown /\ Recent(Now, c, None) = shown
        /\ Spent(0, Now, c, None) = SumOf(Cashback, booked)
    BY AllTime
  <2>3. Converted(shown) = booked
    <3>1. \A o \in Accruals : offer[o].status = "ACCEPTED" /\ offer[o] # NoOffer
      BY DEF Accruals, ReportsInv, RowsInOrder, NoOffer
    <3>2. QED
      BY <3>1 DEF Converted, Accepted, Accruals, Rows
  <2>4. /\ Kpi(0, Now, c, None).delivered = Cardinality(Window(0, Now, c, None))
        /\ Kpi(0, Now, c, None).accepted = Cardinality(Accepted(Window(0, Now, c, None)))
    <3>1. Counted(0, Now, c, None) = Window(0, Now, c, None)
      BY CountedAre
    <3>2. /\ Kpi(0, Now, c, None).delivered = Cardinality(Counted(0, Now, c, None))
          /\ Kpi(0, Now, c, None).accepted = Cardinality(Accepted(Counted(0, Now, c, None)))
      BY KpiCounts
    <3>3. QED
      BY <3>1, <3>2
  <2>5. /\ SumAll(channels.opened) = Cardinality(Answered(Recent(Now, c, None)))
        /\ SumAll(channels.converted) = Cardinality(Converted(Recent(Now, c, None)))
    BY <1>0, ChannelsCount
  <2> HIDE DEF shown, booked, stats, top, channels
  <2>6. QED
    BY <2>1, <2>2, <2>3, <2>4, <2>5 DEF stats, top, channels
<1>2. ASSUME NEW u \in Clients
      PROVE  LET own == {o \in Accruals : offer[o].user = u}
             IN /\ Balance(u).pending + Balance(u).available = SumOf(Cashback, own)
                /\ Balance(u).paid = SumOf(Cashback, Settled(own))
                /\ History(u, 0, Now) = own
  <2> DEFINE own == {o \in Accruals : offer[o].user = u}
             settled == Settled(own)
             open == own \ settled
  <2>1. /\ Balance(u).pending = SumOf(Cashback, open)
        /\ Balance(u).available = SumOf(Cashback, settled)
        /\ Balance(u).paid = SumOf(Cashback, settled)
    BY DEF Balance
  <2>2. own = open \cup settled /\ open \cap settled = {}
    BY DEF Settled
  <2>3. open \in SUBSET Offers /\ settled \in SUBSET Offers
    BY DEF Settled, Accruals
  <2>4. History(u, 0, Now) = own
    <3>1. \A o \in Accruals : accrual[o].accrued >= 0 /\ accrual[o].accrued <= Now
      <4>1. \A o \in Accruals : accrual[o].accrued \in Nat /\ accrual[o].accrued <= now
        BY <1>0, RowOrNot DEF Accruals, Time, ReportsInv, RowsInOrder, ReportsAssumption
      <4>2. now \in Nat /\ Now = now + 1
        BY <1>0 DEF ReportsTypeOK, Now, Time, ReportsAssumption
      <4>3. QED
        BY <4>1, <4>2
    <3>2. QED
      BY <3>1 DEF History
  <2> HIDE DEF own, settled, open
  <2>5. /\ IsFiniteSet(open) /\ Amounts(Cashback, open)
        /\ IsFiniteSet(settled) /\ Amounts(Cashback, settled)
    BY <2>3, FS_Subset DEF Amounts, ReportsAssumption
  <2>6. SumOf(Cashback, open \cup settled) = SumOf(Cashback, open) + SumOf(Cashback, settled)
    BY <2>2, <2>5, SumOfBoth
  <2>7. QED
    BY <2>1, <2>2, <2>4, <2>6 DEF own, settled
<1>3. SumAll([u \in Clients |-> Balance(u).pending + Balance(u).available])
        = SumOf(Cashback, Accruals)
  <2> DEFINE sums == [u \in Clients |-> Balance(u).pending + Balance(u).available]
  <2>1. /\ DOMAIN sums = Clients
        /\ \A u \in Clients : sums[u] = SumOf(Cashback, {o \in Accruals : offer[o].user = u})
    BY <1>2
  <2> HIDE DEF sums
  <2>2. SumAll(sums) = SumOf(Cashback, Accruals)
    BY <2>1, SumOverClients
  <2>3. QED
    BY <2>2 DEF sums
<1>4. SumAll([u \in Clients |-> Balance(u).paid]) = SumOf(Cashback, Settled(Accruals))
  <2> DEFINE sums == [u \in Clients |-> Balance(u).paid]
             settled == Settled(Accruals)
  <2>1. \A u \in Clients : Settled({o \in Accruals : offer[o].user = u})
                             = {o \in settled : offer[o].user = u}
    BY DEF Settled
  <2>2. /\ DOMAIN sums = Clients
        /\ \A u \in Clients : sums[u] = SumOf(Cashback, {o \in settled : offer[o].user = u})
    BY <1>2, <2>1
  <2>3. settled \in SUBSET Accruals
    BY DEF Settled
  <2> HIDE DEF sums, settled
  <2>4. SumAll(sums) = SumOf(Cashback, settled)
    BY <2>2, <2>3, SumOverClients
  <2>5. QED
    BY <2>4 DEF sums, settled
<1>5. LET spent == [c \in Campaigns |-> Spent(0, Now, c, None)]
      IN /\ SumAll(spent) = SumOf(Cashback, Accruals)
         /\ SumOf(spent, underway) = Spent(0, Now, None, None)
  <2> DEFINE spent == [c \in Campaigns |-> Spent(0, Now, c, None)]
  <2>1. \A c \in Campaigns :
          spent[c] = SumOf(Cashback, {o \in Accruals : offer[o].campaign = c})
    BY AllTime
  <2>2. DOMAIN spent = Campaigns /\ underway \in SUBSET Campaigns
    BY <1>0 DEF ReportsTypeOK
  <2>3. {o \in Accruals : offer[o].campaign \in Campaigns} = Accruals
    <3>1. \A o \in Accruals : offer[o] # NoOffer
      BY DEF Accruals, ReportsInv, RowsInOrder, NoOffer
    <3>2. QED
      BY <1>0, <3>1, RowOrNot DEF Accruals
  <2> HIDE DEF spent
  <2>4. SumOf(spent, Campaigns) = SumOf(Cashback, Accruals)
    <3>1. Campaigns \in SUBSET Campaigns
      OBVIOUS
    <3>2. SumOf(spent, Campaigns)
            = SumOf(Cashback, {o \in Accruals : offer[o].campaign \in Campaigns})
      BY <2>1, <3>1, SumOverCampaigns
    <3>3. QED
      BY <2>3, <3>2
  <2>5. SumOf(spent, underway)
          = SumOf(Cashback, {o \in Accruals : offer[o].campaign \in underway})
    BY <2>1, <2>2, SumOverCampaigns
  <2>6. QED
    BY <2>2, <2>4, <2>5, AllTime DEF SumAll, spent
<1>6. QED
  BY <1>1, <1>2, <1>3, <1>4, <1>5 DEF StatsAgree

(***************************************************************************)
(* Lemma: the years and months of an age are the age.                      *)
(***************************************************************************)
LEMMA PeriodIsAge ==
  ASSUME NEW age \in Nat
  PROVE  Period(age) = age
BY DEF Period, ReportsAssumption

(***************************************************************************)
(* Lemma: a client is in the cell of the month of his accrual.             *)
(***************************************************************************)
LEMMA CohortsAlwaysAge == ReportsInv => CohortsAge
<1> SUFFICES ASSUME ReportsInv, NEW month \in Time, NEW p \in 0 .. MaxTime
             PROVE  CohortActive(month, MaxTime + 1)[p] =
                      {u \in Cohort(month) : \E o \in Offers :
                         accrual[o] # NoAccrual /\ offer[o].user = u
                         /\ accrual[o].accrued = month + p}
    BY DEF CohortsAge
<1> DEFINE active == {o \in Offers : /\ accrual[o] # NoAccrual /\ offer[o].user \in Cohort(month)
                                     /\ accrual[o].accrued >= month
                                     /\ accrual[o].accrued < month + (MaxTime + 1)}
<1>1. p \in 0 .. (MaxTime + 1) - 1 /\ month \in Nat /\ p \in Nat /\ p <= MaxTime
  BY DEF Time, ReportsAssumption
<1>2. CohortActive(month, MaxTime + 1)[p]
        = {offer[o].user : o \in {x \in active : Period(accrual[x].accrued - month) = p}}
  BY <1>1 DEF CohortActive
<1>3. ASSUME NEW o \in Offers, accrual[o] # NoAccrual
      PROVE  (/\ accrual[o].accrued >= month /\ accrual[o].accrued < month + (MaxTime + 1)
              /\ Period(accrual[o].accrued - month) = p)
             <=> accrual[o].accrued = month + p
  <2>1. accrual[o].accrued \in Nat
    BY <1>3, RowOrNot DEF ReportsInv, Time, ReportsAssumption
  <2>2. ASSUME accrual[o].accrued >= month
        PROVE  Period(accrual[o].accrued - month) = accrual[o].accrued - month
    BY <1>1, <2>1, <2>2, PeriodIsAge
  <2>3. QED
    BY <1>1, <2>1, <2>2 DEF ReportsAssumption
<1>4. {x \in active : Period(accrual[x].accrued - month) = p}
        = {o \in Offers : /\ accrual[o] # NoAccrual /\ offer[o].user \in Cohort(month)
                          /\ accrual[o].accrued = month + p}
  BY <1>3
<1>5. QED
  BY <1>2, <1>4

(***************************************************************************)
(* The reports agree with each other: a stage of the funnel is a part of   *)
(* the one before, channels and segments sum up to the KPIs, money booked  *)
(* once is once in every sum, and clients are in the cell of their         *)
(* accrual's month; whatever clients, campaigns and offers there are.      *)
(***************************************************************************)
THEOREM ReportsAlwaysAgree == ReportsSpec => []ReportsAgree
<1>1. ReportsInv => ReportsAgree
  BY FunnelAlwaysNarrows, DashboardAlwaysAgrees, StatsAlwaysAgree, CohortsAlwaysAge
     DEF ReportsAgree
<1>2. QED
  BY <1>1, ReportsHold, PTL
=============================================================================
