------------------------- MODULE ContextDesign_proofs -------------------------
(***************************************************************************)
(* Theorems about ContextDesign: the order of combinations and of arms is  *)
(* total, so sorting and taking the first are well defined, and the        *)
(* resolution of a combination is the best arm a task has, for every task  *)
(* and every combination.                                                  *)
(***************************************************************************)
EXTENDS ContextDesign, TLAPS, FiniteSetTheorems, SequenceTheorems

(* A set of numbers that is not empty has a least one.                     *)
LEMMA LeastNumber ==
  ASSUME NEW S, S \subseteq Nat, S # {}
  PROVE  \E n \in S : \A m \in S : n <= m
<1> DEFINE R == {p \in Nat \X Nat : p[1] < p[2]}
<1>1. IsWellFoundedOn(R, Nat)
  BY NatLessThanWellFounded DEF OpToRel
<1> HIDE DEF R
<1>2. PICK n \in S : \A m \in S : <<m, n>> \notin R
  BY <1>1, WFMin
<1>3. \A m \in S : ~(m < n)
  BY <1>2 DEF R
<1> QED  BY <1>3

(* The order of ids as an order of numbers: by size, and then by which     *)
(* elements are absent, the earlier one weighing more.                     *)
Absent(A, x) == IF x \in A THEN 0 ELSE 1

CombinationWeight(A) ==
    64 * Absent(A, "C1") + 32 * Absent(A, "C2") + 16 * Absent(A, "C3") + 8 * Absent(A, "C4")
      + 4 * Absent(A, "C5") + 2 * Absent(A, "C6") + Absent(A, "C7")

ArmWeight(A) ==
    32 * Absent(A, "historian") + 16 * Absent(A, "i3x") + 8 * Absent(A, "knowledge_graph")
      + 4 * Absent(A, "mqtt") + 2 * Absent(A, "opcua") + Absent(A, "uns")

CombinationRank(A) == 128 * Cardinality(A) + CombinationWeight(A)
ArmRank(A) == 128 * Cardinality(A) + ArmWeight(A)

(* The dimensions, one by one.                                             *)
LEMMA DimensionsAre ==
  Dimensions = {"C1", "C2", "C3", "C4", "C5", "C6", "C7"}
BY DEF Dimensions, CanonicalDimensionOrder, ToSet

(* The architectures, one by one.                                          *)
LEMMA ArchitecturesAre ==
  Architectures = {"historian", "i3x", "knowledge_graph", "mqtt", "opcua", "uns"}
BY DEF Architectures, ArchitectureOrder, ToSet

(* The places of the dimensions in the canonical order.                    *)
LEMMA CombinationPositions ==
  /\ Position(CanonicalDimensionOrder, "C1") = 1
  /\ Position(CanonicalDimensionOrder, "C2") = 2
  /\ Position(CanonicalDimensionOrder, "C3") = 3
  /\ Position(CanonicalDimensionOrder, "C4") = 4
  /\ Position(CanonicalDimensionOrder, "C5") = 5
  /\ Position(CanonicalDimensionOrder, "C6") = 6
  /\ Position(CanonicalDimensionOrder, "C7") = 7
BY DEF Position, CanonicalDimensionOrder

(* The places of the architectures in the alphabet.                        *)
LEMMA ArmPositions ==
  /\ Position(ArchitectureOrder, "historian") = 1
  /\ Position(ArchitectureOrder, "i3x") = 2
  /\ Position(ArchitectureOrder, "knowledge_graph") = 3
  /\ Position(ArchitectureOrder, "mqtt") = 4
  /\ Position(ArchitectureOrder, "opcua") = 5
  /\ Position(ArchitectureOrder, "uns") = 6
BY DEF Position, ArchitectureOrder

(* Sets of dimensions are finite.                                          *)
LEMMA DimensionsFinite ==
  ASSUME NEW A, A \subseteq Dimensions
  PROVE  IsFiniteSet(A) /\ Cardinality(A) \in Nat
<1> DEFINE f == CanonicalDimensionOrder
<1>1. f \in Surjection(1..7, Dimensions)
  BY DimensionsAre DEF CanonicalDimensionOrder, Surjection
<1>2. IsFiniteSet(Dimensions)
  BY <1>1, FS_NatSurjection DEF ExistsSurjection
<1> QED  BY <1>2, FS_Subset, FS_CardinalityType

(* Sets of architectures are finite.                                       *)
LEMMA ArchitecturesFinite ==
  ASSUME NEW A, A \subseteq Architectures
  PROVE  IsFiniteSet(A) /\ Cardinality(A) \in Nat
<1> DEFINE f == ArchitectureOrder
<1>1. f \in Surjection(1..6, Architectures)
  BY ArchitecturesAre DEF ArchitectureOrder, Surjection
<1>2. IsFiniteSet(Architectures)
  BY <1>1, FS_NatSurjection DEF ExistsSurjection
<1> QED  BY <1>2, FS_Subset, FS_CardinalityType

(* A size and a weight below 128 are compared as one number.               *)
LEMMA Lexicographic ==
  ASSUME NEW c \in Nat, NEW d \in Nat, NEW v \in 0..127, NEW w \in 0..127
  PROVE  /\ (128 * c + v < 128 * d + w) <=> (c < d \/ (c = d /\ v < w))
         /\ 128 * c + v = 128 * d + w => v = w
         /\ 128 * c + v \in Nat
OBVIOUS

(* The weight of a combination is below 128.                               *)
LEMMA CombinationWeightIs ==
  ASSUME NEW A
  PROVE  CombinationWeight(A) \in 0..127
BY DEF CombinationWeight, Absent

(* Different combinations differ in weight: a weight is the list of what   *)
(* is absent, in binary.                                                   *)
LEMMA CombinationWeightTells ==
  ASSUME NEW A, A \subseteq Dimensions, NEW B, B \subseteq Dimensions, A # B
  PROVE  CombinationWeight(A) # CombinationWeight(B)
<1>1. PICK x \in Dimensions : ~(x \in A <=> x \in B)
  OBVIOUS
<1> QED  BY <1>1, DimensionsAre DEF CombinationWeight, Absent

(* The order of all_context_combinations is the order of the ranks, so it  *)
(* is total: different combinations differ in rank.                        *)
LEMMA CombinationLessIsRank ==
  ASSUME NEW A, A \subseteq Dimensions, NEW B, B \subseteq Dimensions
  PROVE  /\ CombinationLess(A, B) <=> CombinationRank(A) < CombinationRank(B)
         /\ A # B => CombinationRank(A) # CombinationRank(B)
         /\ CombinationRank(A) \in Nat
<1> DEFINE earlier == \E x \in A \ B : \A y \in B \ A :
                         Position(CanonicalDimensionOrder, x) < Position(CanonicalDimensionOrder, y)
<1>1. /\ CombinationWeight(A) \in 0..127 /\ CombinationWeight(B) \in 0..127
      /\ A # B => CombinationWeight(A) # CombinationWeight(B)
  BY CombinationWeightIs, CombinationWeightTells
<1>2. earlier <=> CombinationWeight(A) < CombinationWeight(B)
  BY DimensionsAre, CombinationPositions DEF CombinationWeight, Absent
<1>3. Cardinality(A) \in Nat /\ Cardinality(B) \in Nat
  BY DimensionsFinite
<1>4. CombinationLess(A, B) <=> (Cardinality(A) < Cardinality(B)
                          \/ (Cardinality(A) = Cardinality(B) /\ earlier))
  BY DEF CombinationLess, Precedes
<1> HIDE DEF earlier
<1>5. /\ CombinationRank(A) < CombinationRank(B)
             <=> (Cardinality(A) < Cardinality(B)
                    \/ (Cardinality(A) = Cardinality(B) /\ CombinationWeight(A) < CombinationWeight(B)))
      /\ CombinationRank(A) = CombinationRank(B) => CombinationWeight(A) = CombinationWeight(B)
      /\ CombinationRank(A) \in Nat
  BY <1>1, <1>3, Lexicographic DEF CombinationRank
<1> QED  BY <1>1, <1>2, <1>4, <1>5

(* The weight of an arm is below 64.                                       *)
LEMMA ArmWeightIs ==
  ASSUME NEW A
  PROVE  ArmWeight(A) \in 0..127
BY DEF ArmWeight, Absent

(* Different arms differ in weight.                                        *)
LEMMA ArmWeightTells ==
  ASSUME NEW A, A \subseteq Architectures, NEW B, B \subseteq Architectures, A # B
  PROVE  ArmWeight(A) # ArmWeight(B)
<1>1. PICK x \in Architectures : ~(x \in A <=> x \in B)
  OBVIOUS
<1> QED  BY <1>1, ArchitecturesAre DEF ArmWeight, Absent

(* The tie-break of resolve_condition_architectures, size and then         *)
(* alphabet, is the order of the ranks.                                    *)
LEMMA ArmLessIsRank ==
  ASSUME NEW A, A \subseteq Architectures, NEW B, B \subseteq Architectures
  PROVE  /\ ArmLess(A, B) <=> ArmRank(A) < ArmRank(B)
         /\ A # B => ArmRank(A) # ArmRank(B)
         /\ ArmRank(A) \in Nat
<1> DEFINE earlier == \E x \in A \ B : \A y \in B \ A :
                         Position(ArchitectureOrder, x) < Position(ArchitectureOrder, y)
<1>1. /\ ArmWeight(A) \in 0..127 /\ ArmWeight(B) \in 0..127
      /\ A # B => ArmWeight(A) # ArmWeight(B)
  BY ArmWeightIs, ArmWeightTells
<1>2. earlier <=> ArmWeight(A) < ArmWeight(B)
  BY ArchitecturesAre, ArmPositions DEF ArmWeight, Absent
<1>3. Cardinality(A) \in Nat /\ Cardinality(B) \in Nat
  BY ArchitecturesFinite
<1>4. ArmLess(A, B) <=> (Cardinality(A) < Cardinality(B)
                          \/ (Cardinality(A) = Cardinality(B) /\ earlier))
  BY DEF ArmLess, Precedes
<1> HIDE DEF earlier
<1>5. /\ ArmRank(A) < ArmRank(B)
             <=> (Cardinality(A) < Cardinality(B)
                    \/ (Cardinality(A) = Cardinality(B) /\ ArmWeight(A) < ArmWeight(B)))
      /\ ArmRank(A) = ArmRank(B) => ArmWeight(A) = ArmWeight(B)
      /\ ArmRank(A) \in Nat
  BY <1>1, <1>3, Lexicographic DEF ArmRank
<1> QED  BY <1>1, <1>2, <1>4, <1>5

(* Of arms there is always a first, and no other is smaller                *)
(* (context_conditions.py 112-150, the min over the tie-break key).        *)
LEMMA FirstIsLeast ==
  ASSUME NEW arms, arms # {}, arms \subseteq SUBSET Architectures
  PROVE  /\ First(arms) \in arms
         /\ \A b \in arms : Cardinality(First(arms)) <= Cardinality(b)
<1> DEFINE ranks == {ArmRank(a) : a \in arms}
<1>1. ranks \subseteq Nat /\ ranks # {}
  BY ArmLessIsRank
<1>2. PICK n \in ranks : \A m \in ranks : n <= m
  BY <1>1, LeastNumber
<1>3. PICK a \in arms : n = ArmRank(a)
  BY <1>2
<1>4. \A b \in arms \ {a} : ArmLess(a, b)
  <2> SUFFICES ASSUME NEW b \in arms \ {a}
               PROVE  ArmLess(a, b)
    OBVIOUS
  <2>1. ArmRank(a) <= ArmRank(b)
    BY <1>2, <1>3
  <2>2. a \subseteq Architectures /\ b \subseteq Architectures
    OBVIOUS
  <2>3. ArmRank(a) # ArmRank(b) /\ ArmRank(a) \in Nat /\ ArmRank(b) \in Nat
    BY <2>2, ArmLessIsRank
  <2>4. ArmLess(a, b) <=> ArmRank(a) < ArmRank(b)
    BY <2>2, ArmLessIsRank
  <2> QED  BY <2>1, <2>3, <2>4
<1>5. First(arms) \in arms /\ \A b \in arms \ {First(arms)} : ArmLess(First(arms), b)
  BY <1>4 DEF First
<1>6. \A b \in arms : Cardinality(b) \in Nat
  BY ArchitecturesFinite
<1>7. \A b \in arms : ArmLess(First(arms), b) => Cardinality(First(arms)) <= Cardinality(b)
  BY <1>5, <1>6 DEF ArmLess, Precedes
<1> QED  BY <1>5, <1>6, <1>7

(* Sorting combinations is well defined: the sequence has every one of     *)
(* them exactly once, and an earlier one comes before a later one in the   *)
(* order of ids (context_combinations.py 54-111). It is what makes a       *)
(* replay of the archive cover it.                                         *)
THEOREM InOrderSorts ==
  ASSUME NEW combos, combos \subseteq SUBSET Dimensions
  PROVE  /\ Cardinality(combos) \in Nat
         /\ InOrder(combos) \in [1..Cardinality(combos) -> combos]
         /\ \A c \in combos : \E i \in 1..Cardinality(combos) : InOrder(combos)[i] = c
         /\ \A i, j \in 1..Cardinality(combos) :
               i < j => CombinationLess(InOrder(combos)[i], InOrder(combos)[j])
<1> DEFINE n == Cardinality(combos)
           before(c) == {d \in combos : CombinationLess(d, c)}
           f == [c \in combos |-> Cardinality(before(c))]
<1>1. IsFiniteSet(Dimensions) /\ IsFiniteSet(SUBSET Dimensions)
  BY DimensionsFinite, FS_SUBSET
<1>2. IsFiniteSet(combos) /\ n \in Nat
  BY <1>1, FS_Subset, FS_CardinalityType
<1>3. \A c \in combos : IsFiniteSet(before(c)) /\ Cardinality(before(c)) \in Nat
  BY <1>2, FS_Subset, FS_CardinalityType
<1>4. ASSUME NEW c \in combos
      PROVE  Cardinality(before(c)) \in 0..(n - 1)
  <2>1. c \subseteq Dimensions
    OBVIOUS
  <2>2. c \notin before(c)
    BY <2>1, CombinationLessIsRank
  <2>3. before(c) \subseteq combos \ {c}
    BY <2>2
  <2>4. IsFiniteSet(combos \ {c}) /\ Cardinality(combos \ {c}) = n - 1
    BY <1>2, FS_RemoveElement
  <2>5. Cardinality(before(c)) <= n - 1
    BY <2>3, <2>4, FS_Subset
  <2> QED  BY <1>2, <1>3, <2>5
<1>5. ASSUME NEW c \in combos, NEW d \in combos, CombinationRank(c) < CombinationRank(d)
      PROVE  Cardinality(before(c)) < Cardinality(before(d))
  <2>1. c \subseteq Dimensions /\ d \subseteq Dimensions
    OBVIOUS
  <2>2. c \in before(d) /\ c \notin before(c)
    BY <1>5, <2>1, CombinationLessIsRank
  <2>3. before(c) \subseteq before(d)
    <3> SUFFICES ASSUME NEW b \in combos, CombinationLess(b, c)
                 PROVE  CombinationLess(b, d)
      OBVIOUS
    <3>1. b \subseteq Dimensions
      OBVIOUS
    <3>2. /\ CombinationRank(b) < CombinationRank(c)
          /\ CombinationRank(b) \in Nat /\ CombinationRank(c) \in Nat
          /\ CombinationRank(d) \in Nat
      BY <2>1, <3>1, CombinationLessIsRank
    <3>3. CombinationRank(b) < CombinationRank(d)
      BY <1>5, <3>2
    <3> QED  BY <2>1, <3>1, <3>3, CombinationLessIsRank
  <2> HIDE DEF before
  <2>4. before(c) # before(d)
    BY <2>2
  <2>5. Cardinality(before(c)) <= Cardinality(before(d))
        /\ Cardinality(before(c)) # Cardinality(before(d))
    BY <1>3, <2>3, <2>4, FS_Subset
  <2> QED  BY <1>3, <2>5
<1> HIDE DEF before
<1>6. f \in Injection(combos, 0..(n - 1))
  <2>1. f \in [combos -> 0..(n - 1)]
    BY <1>4
  <2>2. ASSUME NEW c \in combos, NEW d \in combos, c # d
        PROVE  f[c] # f[d]
    <3>1. c \subseteq Dimensions /\ d \subseteq Dimensions
      OBVIOUS
    <3>2. /\ CombinationRank(c) # CombinationRank(d)
          /\ CombinationRank(c) \in Nat /\ CombinationRank(d) \in Nat
      BY <2>2, <3>1, CombinationLessIsRank
    <3>3. CombinationRank(c) < CombinationRank(d) \/ CombinationRank(d) < CombinationRank(c)
      BY <3>2
    <3>4. Cardinality(before(c)) # Cardinality(before(d))
      BY <1>3, <1>5, <3>3
    <3> QED  BY <3>4
  <2> HIDE DEF f
  <2> QED  BY <2>1, <2>2 DEF Injection, IsInjective
<1>7. IsFiniteSet(0..(n - 1)) /\ Cardinality(0..(n - 1)) = n
  BY <1>2, FS_Interval
<1>8. f \in Surjection(combos, 0..(n - 1))
  <2> HIDE DEF f
  <2> QED  BY <1>6, <1>7, FS_Injection
<1>9. \A i \in 1..n : \E c \in combos : Cardinality(before(c)) = i - 1
  <2> SUFFICES ASSUME NEW i \in 1..n
               PROVE  \E c \in combos : Cardinality(before(c)) = i - 1
    OBVIOUS
  <2>1. i - 1 \in 0..(n - 1)
    BY <1>2
  <2> HIDE DEF f
  <2>2. PICK c \in combos : f[c] = i - 1
    BY <1>8, <2>1 DEF Surjection
  <2> USE DEF f
  <2> QED  BY <2>2
<1>10. \A i \in 1..n : /\ InOrder(combos)[i] \in combos
                      /\ Cardinality(before(InOrder(combos)[i])) = i - 1
  BY <1>9 DEF InOrder, before
<1>11. ASSUME NEW c \in combos
       PROVE  \E i \in 1..n : InOrder(combos)[i] = c
  <2> DEFINE i == Cardinality(before(c)) + 1
  <2>1. i \in 1..n
    BY <1>2, <1>4
  <2>2. /\ InOrder(combos)[i] \in combos
        /\ Cardinality(before(InOrder(combos)[i])) = Cardinality(before(c))
    BY <1>3, <1>10, <2>1
  <2>3. \A d \in combos : Cardinality(before(d)) = Cardinality(before(c)) => d = c
    BY <1>6 DEF Injection, IsInjective
  <2>4. InOrder(combos)[i] = c
    BY <2>2, <2>3
  <2> HIDE DEF i
  <2> QED  BY <2>1, <2>4
<1>12. InOrder(combos) = [i \in 1..n |-> InOrder(combos)[i]]
  <2> DEFINE ith(i) == CHOOSE c \in combos :
                         Cardinality({d \in combos : CombinationLess(d, c)}) = i - 1
  <2>1. InOrder(combos) = [i \in 1..n |-> ith(i)]
    BY DEF InOrder
  <2> HIDE DEF ith
  <2> QED  BY <2>1
<1>13. ASSUME NEW i \in 1..n, NEW j \in 1..n, i < j
       PROVE  CombinationLess(InOrder(combos)[i], InOrder(combos)[j])
  <2> DEFINE c == InOrder(combos)[i]
             d == InOrder(combos)[j]
  <2>1. /\ c \in combos /\ Cardinality(before(c)) = i - 1
        /\ d \in combos /\ Cardinality(before(d)) = j - 1
    BY <1>10
  <2> HIDE DEF c, d
  <2>2. c \subseteq Dimensions /\ d \subseteq Dimensions /\ c # d
    BY <1>13, <2>1
  <2>3. ~(CombinationRank(d) < CombinationRank(c))
    BY <1>5, <1>13, <2>1
  <2>4. /\ CombinationRank(c) \in Nat /\ CombinationRank(d) \in Nat
        /\ CombinationRank(c) # CombinationRank(d)
    BY <2>2, CombinationLessIsRank
  <2>5. CombinationRank(c) < CombinationRank(d)
    BY <2>3, <2>4
  <2>6. CombinationLess(c, d)
    BY <2>2, <2>5, CombinationLessIsRank
  <2> QED  BY <2>6 DEF c, d
<1> QED  BY <1>2, <1>10, <1>11, <1>12, <1>13
-----------------------------------------------------------------------------
(* A larger arm provides at least as much.                                 *)
LEMMA MoreProvidesMore ==
  ASSUME NEW a, NEW b, a \subseteq b
  PROVE  ProvidedDimensions(a) \subseteq ProvidedDimensions(b)
BY DEF ProvidedDimensions

(* Every arm provides some dimension, so what it provides is a             *)
(* combination.                                                            *)
LEMMA EveryArmProvides ==
  ASSUME NEW a, a \subseteq Architectures, a # {}
  PROVE  ProvidedDimensions(a) \in AllCombinations
<1>1. ProvidedDimensions(a) \subseteq Dimensions
  BY DEF ProvidedDimensions
<1>2. PICK x \in Architectures : x \in a
  OBVIOUS
<1>3. x \in ArchitecturesSupporting["C2"] \/ x \in ArchitecturesSupporting["C5"]
  BY ArchitecturesAre DEF ArchitecturesSupporting
<1>4. "C2" \in Dimensions /\ "C5" \in Dimensions
  BY DimensionsAre
<1>5. ProvidedDimensions(a) # {}
  BY <1>2, <1>3, <1>4 DEF ProvidedDimensions
<1> QED  BY <1>1, <1>5 DEF AllCombinations

Covering(target, available) ==
    {a \in Arms(available) : target \subseteq ProvidedDimensions(a)}
Exact(target, available) ==
    {a \in Covering(target, available) : ProvidedDimensions(a) = target}
Excess(target, a) == Cardinality(ProvidedDimensions(a) \ target)
Closest(target, available) ==
    {a \in Covering(target, available) :
        \A b \in Covering(target, available) : Excess(target, a) <= Excess(target, b)}

(* Resolve, in terms of the sets it chooses from.                          *)
LEMMA ResolveIs ==
  ASSUME NEW target, NEW available
  PROVE  Resolve(target, available) =
           IF Exact(target, available) # {}
           THEN Resolution("exact", First(Exact(target, available)), target)
           ELSE IF Covering(target, available) # {}
           THEN Resolution("overshoot", First(Closest(target, available)), target)
           ELSE [status |-> "unrealizable", arm |-> {}, provided |-> {}, extra |-> {}]
BY DEF Resolve, Exact, Closest, Excess, Covering

(* What an arm provides beyond the target is counted.                      *)
LEMMA ExcessIsNumber ==
  ASSUME NEW target, NEW a
  PROVE  /\ Excess(target, a) \in Nat
         /\ IsFiniteSet(ProvidedDimensions(a) \ target)
<1>1. ProvidedDimensions(a) \ target \subseteq Dimensions
  BY DEF ProvidedDimensions
<1> QED  BY <1>1, DimensionsFinite DEF Excess

(* Of the arms that cover a target some has the least excess.              *)
LEMMA SomethingIsClosest ==
  ASSUME NEW target, NEW available, Covering(target, available) # {}
  PROVE  Closest(target, available) # {}
<1> DEFINE all == Covering(target, available)
           excesses == {Excess(target, a) : a \in all}
<1>1. excesses \subseteq Nat /\ excesses # {}
  BY ExcessIsNumber
<1>2. PICK n \in excesses : \A m \in excesses : n <= m
  BY <1>1, LeastNumber
<1>3. PICK a \in all : n = Excess(target, a)
  BY <1>2
<1>4. a \in Closest(target, available)
  BY <1>2, <1>3 DEF Closest
<1> QED  BY <1>4

(* The resolution of any combination by any task (context_conditions.py    *)
(* 93-170): unrealizable exactly when all the architectures together do    *)
(* not cover it, exact exactly when some arm provides it alone, and the    *)
(* arm it names covers it, provides no more than need be and has no part   *)
(* that provides the same.                                                 *)
THEOREM ResolveGivesBest ==
  ASSUME NEW available, available \subseteq Architectures, available # {},
         NEW target \in AllCombinations,
         NEW res, res = Resolve(target, available)
  PROVE  /\ res.status \in {"exact", "overshoot", "unrealizable"}
         /\ res.status = "unrealizable" <=> ~(target \subseteq ProvidedDimensions(available))
         /\ res.status = "exact" <=> target \in RealizableCombinations(available)
         /\ res.status = "exact" => ProvidedDimensions(res.arm) = target
         /\ res.status # "unrealizable" => res.arm \in Covering(target, available)
         /\ \A a \in Covering(target, available) :
               /\ ~(ProvidedDimensions(a) \subseteq ProvidedDimensions(res.arm)
                    /\ ProvidedDimensions(a) # ProvidedDimensions(res.arm))
               /\ ~(a \subseteq res.arm /\ a # res.arm
                    /\ ProvidedDimensions(a) = ProvidedDimensions(res.arm))
<1> DEFINE all == Covering(target, available)
           exact == Exact(target, available)
           closest == Closest(target, available)
<1>1. all # {} <=> target \subseteq ProvidedDimensions(available)
  <2>1. ASSUME NEW a \in all
        PROVE  target \subseteq ProvidedDimensions(available)
    <3>1. a \subseteq available /\ target \subseteq ProvidedDimensions(a)
      BY DEF Covering, Arms
    <3> QED  BY <3>1, MoreProvidesMore
  <2>2. target \subseteq ProvidedDimensions(available) => available \in all
    BY DEF Covering, Arms
  <2> QED  BY <2>1, <2>2
<1>2. exact # {} <=> target \in RealizableCombinations(available)
  BY DEF Exact, Covering, RealizableCombinations, AllCombinations
<1>3. /\ exact \subseteq all /\ closest \subseteq all /\ all \subseteq Arms(available)
      /\ all \subseteq SUBSET Architectures
  BY DEF Exact, Closest, Covering, Arms
<1>4. \A a \in all : IsFiniteSet(a) /\ Cardinality(a) \in Nat
  BY <1>3, ArchitecturesFinite
(* a proper part of an arm is smaller                                      *)
<1>5. ASSUME NEW a \in all, NEW b \in all, a \subseteq b, a # b
      PROVE  ~(Cardinality(b) <= Cardinality(a))
  BY <1>4, <1>5, FS_Subset
<1>6. ASSUME exact # {}
      PROVE  /\ res.status = "exact" /\ res.arm = First(exact)
             /\ res.arm \in exact /\ \A a \in exact : Cardinality(res.arm) <= Cardinality(a)
  <2>1. First(exact) \in exact /\ \A a \in exact : Cardinality(First(exact)) <= Cardinality(a)
    BY <1>3, <1>6, FirstIsLeast
  <2> QED  BY <1>6, <2>1, ResolveIs DEF Resolution
<1>7. ASSUME exact = {}, all # {}
      PROVE  /\ res.status = "overshoot" /\ res.arm = First(closest)
             /\ res.arm \in closest /\ \A a \in closest : Cardinality(res.arm) <= Cardinality(a)
  <2>1. closest # {}
    BY <1>7, SomethingIsClosest
  <2>2. First(closest) \in closest
        /\ \A a \in closest : Cardinality(First(closest)) <= Cardinality(a)
    BY <1>3, <2>1, FirstIsLeast
  <2> QED  BY <1>7, <2>2, ResolveIs DEF Resolution
<1>8. ASSUME all = {}
      PROVE  res.status = "unrealizable"
  <2>1. exact = {}
    BY <1>3, <1>8
  <2> QED  BY <1>8, <2>1, ResolveIs
<1>9. CASE exact # {}
  <2>1. /\ res.status = "exact" /\ res.arm \in exact
        /\ \A a \in exact : Cardinality(res.arm) <= Cardinality(a)
    BY <1>6, <1>9
  <2>2. ProvidedDimensions(res.arm) = target /\ all # {} /\ res.arm \in all
    BY <1>3, <2>1 DEF Exact
  <2>3. ASSUME NEW a \in all
        PROVE  /\ ~(ProvidedDimensions(a) \subseteq ProvidedDimensions(res.arm)
                    /\ ProvidedDimensions(a) # ProvidedDimensions(res.arm))
               /\ ~(a \subseteq res.arm /\ a # res.arm
                    /\ ProvidedDimensions(a) = ProvidedDimensions(res.arm))
    <3>1. target \subseteq ProvidedDimensions(a)
      BY DEF Covering
    <3>2. ProvidedDimensions(a) = target => a \in exact
      BY DEF Exact
    <3>3. a \in exact => Cardinality(res.arm) <= Cardinality(a)
      BY <2>1
    <3>4. a \subseteq res.arm /\ a # res.arm => ~(Cardinality(res.arm) <= Cardinality(a))
      BY <1>5, <2>2
    <3> QED  BY <2>2, <3>1, <3>2, <3>3, <3>4
  <2> HIDE DEF all, exact
  <2> QED  BY <1>1, <1>2, <1>9, <2>1, <2>2, <2>3 DEF all
<1>10. CASE exact = {} /\ all # {}
  <2>1. /\ res.status = "overshoot" /\ res.arm \in closest
        /\ \A a \in closest : Cardinality(res.arm) <= Cardinality(a)
    BY <1>7, <1>10
  <2>2. res.arm \in all /\ \A b \in all : Excess(target, res.arm) <= Excess(target, b)
    BY <2>1 DEF Closest
  <2>3. ASSUME NEW a \in all
        PROVE  /\ ~(ProvidedDimensions(a) \subseteq ProvidedDimensions(res.arm)
                    /\ ProvidedDimensions(a) # ProvidedDimensions(res.arm))
               /\ ~(a \subseteq res.arm /\ a # res.arm
                    /\ ProvidedDimensions(a) = ProvidedDimensions(res.arm))
    <3>1. target \subseteq ProvidedDimensions(a) /\ target \subseteq ProvidedDimensions(res.arm)
      BY <2>2 DEF Covering
    <3>2. ASSUME ProvidedDimensions(a) \subseteq ProvidedDimensions(res.arm),
                 ProvidedDimensions(a) # ProvidedDimensions(res.arm)
          PROVE  FALSE
      <4> DEFINE A == ProvidedDimensions(a) \ target
                 B == ProvidedDimensions(res.arm) \ target
      <4>1. A \subseteq B /\ A # B
        BY <3>1, <3>2
      <4>2. /\ Cardinality(A) \in Nat /\ Cardinality(B) \in Nat
            /\ IsFiniteSet(B) /\ Cardinality(B) <= Cardinality(A)
        BY <2>2, ExcessIsNumber DEF Excess
      <4> HIDE DEF A, B
      <4> QED  BY <4>1, <4>2, FS_Subset
    <3>3. ProvidedDimensions(a) = ProvidedDimensions(res.arm) => a \in closest
      BY <2>2 DEF Closest, Excess
    <3>4. a \in closest => Cardinality(res.arm) <= Cardinality(a)
      BY <2>1
    <3>5. a \subseteq res.arm /\ a # res.arm => ~(Cardinality(res.arm) <= Cardinality(a))
      BY <1>5, <2>2
    <3> QED  BY <3>2, <3>3, <3>4, <3>5
  <2> HIDE DEF all, exact
  <2> QED  BY <1>1, <1>2, <1>10, <2>1, <2>2, <2>3 DEF all
<1>11. CASE all = {}
  <2>1. exact = {} /\ res.status = "unrealizable"
    BY <1>3, <1>8, <1>11
  <2> QED  BY <1>1, <1>2, <1>11, <2>1
<1> QED  BY <1>9, <1>10, <1>11
-----------------------------------------------------------------------------
(* A function on 1..n is a sequence.                                       *)
LEMMA FunctionIsSequence ==
  ASSUME NEW n \in Nat, NEW S, NEW f \in [1..n -> S]
  PROVE  f \in Seq(S)
BY SeqDef

(* The sorted combinations, as a sequence.                                 *)
LEMMA InOrderIsSequence ==
  ASSUME NEW combos, combos \subseteq AllCombinations
  PROVE  InOrder(combos) \in Seq(combos)
<1>1. combos \subseteq SUBSET Dimensions
  BY DEF AllCombinations
<1> QED  BY <1>1, InOrderSorts, FunctionIsSequence

(* A sequence of members of a set is one of any larger set.                *)
LEMMA SequenceOfSubset ==
  ASSUME NEW S, NEW T, S \subseteq T, NEW s \in Seq(S)
  PROVE  s \in Seq(T)
OBVIOUS

(* An ablation takes no combination down to nothing (experiment_design.py  *)
(* 83-104).                                                                *)
LEMMA AblationIsSequence ==
  ASSUME NEW baseline \in AllCombinations
  PROVE  AblationConditions(baseline) \in Seq(AllCombinations)
<1> DEFINE single == {{d} : d \in baseline}
           removed == InOrder(single)
           rest == [i \in DOMAIN removed |-> baseline \ removed[i]]
<1>1. single \subseteq AllCombinations
  BY DEF AllCombinations
<1>2. removed \in Seq(single)
  BY <1>1, InOrderIsSequence
<1> HIDE DEF removed
<1>3. ASSUME Cardinality(baseline) # 1
      PROVE  rest \in Seq(AllCombinations)
  <2>1. ASSUME NEW i \in DOMAIN removed
        PROVE  baseline \ removed[i] \in AllCombinations
    <3>1. PICK d \in baseline : removed[i] = {d}
      BY <1>2
    <3>2. baseline # {d}
      BY <1>3, FS_Singleton
    <3> QED  BY <3>1, <3>2 DEF AllCombinations
  <2>2. DOMAIN removed = 1..Len(removed) /\ Len(removed) \in Nat
    BY <1>2
  <2>3. rest \in [1..Len(removed) -> AllCombinations]
    BY <2>1, <2>2
  <2> HIDE DEF rest
  <2> QED  BY <2>2, <2>3, FunctionIsSequence
<1>4. AblationConditions(baseline)
        = <<baseline>> \o (IF Cardinality(baseline) = 1 THEN <<>> ELSE rest)
  BY DEF AblationConditions, removed
<1> HIDE DEF rest
<1>5. (IF Cardinality(baseline) = 1 THEN <<>> ELSE rest) \in Seq(AllCombinations)
  BY <1>3
<1>6. <<baseline>> \in Seq(AllCombinations)
  OBVIOUS
<1> QED  BY <1>4, <1>5, <1>6

(* The progressive conditions are combinations: the first has one          *)
(* dimension already.                                                      *)
LEMMA ProgressiveIsSequence ==
  ProgressiveConditions(CanonicalDimensionOrder) \in Seq(AllCombinations)
<1> DEFINE order == CanonicalDimensionOrder
<1>1. /\ order \in Seq(Dimensions) /\ Len(order) = 7 /\ DOMAIN order = 1..7
      /\ \A i \in 1..7 : order[i] \in Dimensions
  BY DimensionsAre DEF CanonicalDimensionOrder
<1> HIDE DEF order
<1>2. ASSUME NEW n \in 1..7
      PROVE  ToSet(SubSeq(order, 1, n)) \in AllCombinations
  <2>1. SubSeq(order, 1, n) \in Seq(Dimensions) /\ Len(SubSeq(order, 1, n)) = n
    <3>1. \A i \in 1..n : order[i] \in Dimensions
      BY <1>1
    <3>2. 1 \in Int /\ n \in Int /\ 1 <= n /\ n - 1 + 1 = n
      OBVIOUS
    <3>3. /\ SubSeq(order, 1, n) \in Seq(Dimensions)
          /\ Len(SubSeq(order, 1, n)) = IF 1 <= n THEN n - 1 + 1 ELSE 0
      BY <3>1, <3>2, SubSeqProperties
    <3> QED  BY <3>2, <3>3
  <2> DEFINE part == SubSeq(order, 1, n)
  <2> HIDE DEF part
  <2>2. part \in Seq(Dimensions) /\ 1 \in DOMAIN part
    BY <2>1 DEF part
  <2>3. ToSet(part) \subseteq Dimensions /\ part[1] \in ToSet(part)
    BY <2>2 DEF ToSet
  <2>4. ToSet(part) \in AllCombinations
    BY <2>3 DEF AllCombinations
  <2> QED  BY <2>4 DEF part
<1>3. [n \in 1..7 |-> ToSet(SubSeq(order, 1, n))] \in [1..7 -> AllCombinations]
  BY <1>2
<1>4. ProgressiveConditions(order) = [n \in 1..7 |-> ToSet(SubSeq(order, 1, n))]
  BY <1>1 DEF ProgressiveConditions
<1>5. ProgressiveConditions(order) \in Seq(AllCombinations)
  BY <1>3, <1>4, FunctionIsSequence
<1> QED  BY <1>5 DEF order

(* Whatever the strategy, what is generated are combinations               *)
(* (experiment_design.py 107-140).                                         *)
LEMMA ConditionsAreCombinations ==
  ASSUME NEW design \in {"single", "pairwise", "progressive", "targeted", "ablation"},
         NEW targets \in Seq(AllCombinations),
         NEW available, available \subseteq Architectures, available # {}
  PROVE  GenerateConditions(design, targets, available) \in Seq(AllCombinations)
<1>1. \A n : CombinationsOfSize(n) \in Seq(AllCombinations)
  <2> TAKE n
  <2> DEFINE sized == {c \in AllCombinations : Cardinality(c) = n}
  <2>1. sized \subseteq AllCombinations
    OBVIOUS
  <2>2. CombinationsOfSize(n) = InOrder(sized)
    BY DEF CombinationsOfSize
  <2> HIDE DEF sized
  <2> QED  BY <2>1, <2>2, InOrderIsSequence, SequenceOfSubset
<1>2. CASE design = "single"
  BY <1>1, <1>2 DEF GenerateConditions, SingleDimensionConditions
<1>3. CASE design = "pairwise"
  BY <1>1, <1>3 DEF GenerateConditions, PairwiseConditions
<1>4. CASE design = "progressive"
  BY <1>4, ProgressiveIsSequence DEF GenerateConditions
<1>5. CASE design = "targeted"
  BY <1>5 DEF GenerateConditions
<1>6. CASE design = "ablation"
  <2>1. DefaultBaseline(available) \in AllCombinations
    BY EveryArmProvides DEF DefaultBaseline
  <2> QED  BY <1>6, <2>1, AblationIsSequence DEF GenerateConditions
<1> QED  BY <1>2, <1>3, <1>4, <1>5, <1>6
=============================================================================
