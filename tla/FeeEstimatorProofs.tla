------------------------- MODULE FeeEstimatorProofs -------------------------
(***************************************************************************)
(* Proofs about the fee estimator: a rollback restores the bins, however   *)
(* many blocks it takes back, and the bins stay sound and can be saved.    *)
(***************************************************************************)
EXTENDS FeeEstimator, FunctionTheorems, FiniteSetTheorems, SequenceTheorems, TLAPS

(***************************************************************************)
(* --------------------- positions and their ranks ----------------------- *)
(***************************************************************************)

\* A set of positions can be counted.
LEMMA PositionsFinite ==
  ASSUME NEW m \in Nat, NEW P \in SUBSET (1..m)
  PROVE  IsFiniteSet(P) /\ Cardinality(P) \in Nat /\ Cardinality(P) <= m
<1>1. IsFiniteSet(1..m) /\ Cardinality(1..m) = m
  BY FS_Interval
<1> QED
  BY <1>1, FS_Subset, FS_CardinalityType

\* Ranks count from 1 and tell positions apart.
LEMMA RankFacts ==
  ASSUME NEW m \in Nat, NEW P \in SUBSET (1..m)
  PROVE  /\ \A i \in P : Rank(P, i) \in 1..Cardinality(P)
         /\ \A i, j \in P : Rank(P, i) = Rank(P, j) => i = j
<1> DEFINE Below(i) == {j \in P : j <= i}
<1>1. IsFiniteSet(P)
  BY PositionsFinite
<1>2. ASSUME NEW i \in P
      PROVE  /\ IsFiniteSet(Below(i)) /\ Cardinality(Below(i)) \in Nat
             /\ Cardinality(Below(i)) <= Cardinality(P) /\ Cardinality(Below(i)) # 0
  <2>1. Below(i) \in SUBSET P
    OBVIOUS
  <2>2. i \in Below(i)
    OBVIOUS
  <2>3. IsFiniteSet(Below(i)) /\ Cardinality(Below(i)) <= Cardinality(P)
    BY <1>1, <2>1, FS_Subset
  <2> QED
    BY <2>2, <2>3, FS_CardinalityType, FS_EmptySet
<1>3. ASSUME NEW i \in P, NEW j \in P, i < j
      PROVE  Cardinality(Below(i)) # Cardinality(Below(j))
  <2>1. Below(i) \in SUBSET Below(j)
    <3> SUFFICES ASSUME NEW x \in P, x <= i PROVE x <= j
      OBVIOUS
    <3>1. x \in Nat /\ i \in Nat /\ j \in Nat
      OBVIOUS
    <3> QED
      BY <1>3, <3>1
  <2>2. Below(i) # Below(j)
    BY <1>3
  <2>3. IsFiniteSet(Below(j))
    BY <1>2
  <2> HIDE DEF Below
  <2> QED
    BY <2>1, <2>2, <2>3, FS_Subset
<1>4. Cardinality(P) \in Nat
  BY <1>1, FS_CardinalityType
<1>5. \A i \in P : Rank(P, i) = Cardinality(Below(i))
  BY DEF Rank
<1> HIDE DEF Below
<1>6. \A i \in P : Rank(P, i) \in 1..Cardinality(P)
  BY <1>2, <1>4, <1>5
<1>7. \A i, j \in P : i < j \/ j < i \/ i = j
  OBVIOUS
<1> QED
  BY <1>3, <1>5, <1>6, <1>7

\* Every rank up to the number of positions is taken.
LEMMA RankOnto ==
  ASSUME NEW m \in Nat, NEW P \in SUBSET (1..m), NEW k \in 1..Cardinality(P)
  PROVE  \E i \in P : Rank(P, i) = k
<1> DEFINE r == [i \in P |-> Rank(P, i)]
           R == {Rank(P, i) : i \in P}
<1>1. IsFiniteSet(P) /\ Cardinality(P) \in Nat
  BY PositionsFinite
<1>2. r \in Bijection(P, R)
  <2>1. r \in [P -> R]
    OBVIOUS
  <2>2. \A i, j \in P : r[i] = r[j] => i = j
    BY RankFacts
  <2>3. \A x \in R : \E i \in P : r[i] = x
    OBVIOUS
  <2> HIDE DEF r, R
  <2> QED
    BY <2>1, <2>2, <2>3, Fun_IsBij
<1>3. IsFiniteSet(R) /\ Cardinality(R) = Cardinality(P)
  <2> HIDE DEF r, R
  <2>1. ExistsBijection(P, R)
    BY <1>2 DEF ExistsBijection
  <2> QED
    BY <1>1, <2>1, FS_Bijection
<1>4. R \in SUBSET (1..Cardinality(P))
  <2>1. \A i \in P : Rank(P, i) \in 1..Cardinality(P)
    BY RankFacts
  <2> QED
    BY <2>1
<1>5. IsFiniteSet(1..Cardinality(P)) /\ Cardinality(1..Cardinality(P)) = Cardinality(P)
  BY <1>1, FS_Interval
<1>6. R = 1..Cardinality(P)
  BY <1>3, <1>4, <1>5, FS_Subset
<1> QED
  BY <1>6

\* Selecting positions takes their elements, each once, at their ranks.
Selects(s, P) ==
  /\ DOMAIN At(s, P) = 1..Cardinality(P)
  /\ \A i \in P : Rank(P, i) \in 1..Cardinality(P) /\ At(s, P)[Rank(P, i)] = s[i]
  /\ \A k \in 1..Cardinality(P) : \E i \in P : Rank(P, i) = k /\ At(s, P)[k] = s[i]

LEMMA AtElements ==
  ASSUME NEW m \in Nat, NEW P \in SUBSET (1..m), NEW s
  PROVE  Selects(s, P)
<1> DEFINE c(k) == CHOOSE i \in P : Rank(P, i) = k
<1>1. \A k \in 1..Cardinality(P) : c(k) \in P /\ Rank(P, c(k)) = k
  BY RankOnto
<1>2. \A i \in P : Rank(P, i) \in 1..Cardinality(P) /\ c(Rank(P, i)) = i
  BY <1>1, RankFacts
<1>3. /\ DOMAIN At(s, P) = 1..Cardinality(P)
      /\ \A k \in 1..Cardinality(P) : At(s, P)[k] = s[c(k)]
  BY DEF At
<1> HIDE DEF c
<1> QED
  BY <1>1, <1>2, <1>3 DEF Selects

LEMMA AtFacts ==
  ASSUME NEW m \in Nat, NEW P \in SUBSET (1..m), NEW T, NEW s, \A i \in P : s[i] \in T
  PROVE  /\ At(s, P) \in Seq(T) /\ Len(At(s, P)) = Cardinality(P)
         /\ (\A i, j \in P : s[i] = s[j] => i = j) => IsInjective(At(s, P))
<1>1. Cardinality(P) \in Nat
  BY PositionsFinite
<1>2. Selects(s, P)
  BY AtElements
<1>3. At(s, P) \in [1..Cardinality(P) -> T]
  <2>1. At(s, P) = [k \in 1..Cardinality(P) |-> At(s, P)[k]]
    BY DEF At
  <2> QED
    BY <1>2, <2>1 DEF Selects
<1>4. At(s, P) \in Seq(T) /\ Len(At(s, P)) = Cardinality(P)
  BY <1>1, <1>3, IsASeq, LenProperties
<1>5. (\A i, j \in P : s[i] = s[j] => i = j) => IsInjective(At(s, P))
  BY <1>2 DEF IsInjective, Selects
<1> QED
  BY <1>4, <1>5

(***************************************************************************)
(* Unfilled, for one bin s: the elements of D go to the first of the       *)
(* positions F, and the elements at the others of F are removed.           *)
(***************************************************************************)
Put(s, F, D) ==
  [k \in DOMAIN s |->
     IF k \in F /\ Rank(F, k) <= Len(D) THEN D[Rank(F, k)] ELSE s[k]]
Kept(s, F, D) == {k \in DOMAIN s : k \in F => Rank(F, k) <= Len(D)}

\* What results is the bin without the elements at F and with those of D.
Fills(r, s, F, D, T) ==
  /\ r \in Seq(T) /\ Len(r) <= Len(s) /\ IsInjective(r)
  /\ ToSet(r) = {s[k] : k \in DOMAIN s \ F} \cup ToSet(D)

LEMMA FillFacts ==
  ASSUME NEW T, NEW s \in Seq(T), IsInjective(s), NEW F \in SUBSET DOMAIN s,
         NEW D \in Seq(T), IsInjective(D), ToSet(D) \cap ToSet(s) = {},
         Len(D) <= Cardinality(F)
  PROVE  Fills(At(Put(s, F, D), Kept(s, F, D)), s, F, D, T)
<1> DEFINE p == Put(s, F, D)
           K == Kept(s, F, D)
<1>1. Len(s) \in Nat /\ DOMAIN s = 1..Len(s) /\ Len(D) \in Nat /\ DOMAIN D = 1..Len(D)
  OBVIOUS
<1>2. F \in SUBSET (1..Len(s)) /\ K \in SUBSET (1..Len(s))
  BY <1>1 DEF Kept
<1>3. /\ \A i \in F : Rank(F, i) \in 1..Cardinality(F)
      /\ \A i, j \in F : Rank(F, i) = Rank(F, j) => i = j
  BY <1>1, <1>2, RankFacts
<1>4. \A k \in 1..Cardinality(F) : \E i \in F : Rank(F, i) = k
  BY <1>1, <1>2, RankOnto
<1>5. Cardinality(F) \in Nat
  BY <1>1, <1>2, PositionsFinite
<1>6. \A k \in K : IF k \in F THEN Rank(F, k) \in DOMAIN D /\ p[k] = D[Rank(F, k)]
                   ELSE p[k] = s[k]
  BY <1>1, <1>3, <1>5 DEF Put, Kept
<1>7. \A x \in DOMAIN D : \E k \in K \cap F : Rank(F, k) = x
  BY <1>1, <1>4, <1>5 DEF Kept
<1>8. \A k \in DOMAIN s \ F : k \in K
  BY DEF Kept
<1>9. K \subseteq DOMAIN s
  BY DEF Kept
<1> HIDE DEF p, K
<1>10. \A k \in K : p[k] \in T
  BY <1>6, <1>9, <1>1
<1>11. \A i, j \in K : p[i] = p[j] => i = j
  <2> SUFFICES ASSUME NEW i \in K, NEW j \in K, p[i] = p[j] PROVE i = j
    OBVIOUS
  <2>1. CASE i \in F /\ j \in F
    BY <1>3, <1>6, <2>1 DEF IsInjective
  <2>2. CASE i \notin F /\ j \notin F
    BY <1>6, <1>9, <2>2 DEF IsInjective
  <2>3. CASE (i \in F /\ j \notin F) \/ (i \notin F /\ j \in F)
    BY <1>6, <1>9, <2>3 DEF ToSet
  <2> QED
    BY <2>1, <2>2, <2>3
<1>12. {p[k] : k \in K} = {s[k] : k \in DOMAIN s \ F} \cup ToSet(D)
  <2>1. ASSUME NEW k \in K PROVE p[k] \in {s[i] : i \in DOMAIN s \ F} \cup ToSet(D)
    BY <1>6, <1>9 DEF ToSet
  <2>2. ASSUME NEW k \in DOMAIN s \ F PROVE s[k] \in {p[i] : i \in K}
    BY <1>6, <1>8
  <2>3. ASSUME NEW x \in DOMAIN D PROVE D[x] \in {p[i] : i \in K}
    BY <1>6, <1>7
  <2> QED
    BY <2>1, <2>2, <2>3 DEF ToSet
<1>13. /\ At(p, K) \in Seq(T) /\ Len(At(p, K)) = Cardinality(K)
       /\ ToSet(At(p, K)) = {p[i] : i \in K} /\ IsInjective(At(p, K))
  <2>1. At(p, K) \in Seq(T) /\ Len(At(p, K)) = Cardinality(K)
    BY <1>1, <1>2, <1>10, AtFacts
  <2>2. ToSet(At(p, K)) = {p[i] : i \in K}
    <3>1. Selects(p, K)
      BY <1>1, <1>2, AtElements
    <3> QED
      BY <3>1 DEF Selects, ToSet
  <2>3. IsInjective(At(p, K))
    BY <1>1, <1>2, <1>10, <1>11, AtFacts
  <2> QED
    BY <2>1, <2>2, <2>3
<1>14. Cardinality(K) <= Len(s)
  BY <1>1, <1>2, PositionsFinite
<1>15. /\ At(p, K) \in Seq(T) /\ Len(At(p, K)) <= Len(s) /\ IsInjective(At(p, K))
       /\ ToSet(At(p, K)) = {s[k] : k \in DOMAIN s \ F} \cup ToSet(D)
  BY <1>12, <1>13, <1>14
<1> QED
  BY <1>15 DEF p, K, Fills

\* A sequence without repetitions is as long as its set of elements is large.
LEMMA InjectiveLen ==
  ASSUME NEW T, NEW s \in Seq(T), IsInjective(s)
  PROVE  IsFiniteSet(ToSet(s)) /\ Cardinality(ToSet(s)) = Len(s)
<1>1. Len(s) \in Nat /\ DOMAIN s = 1..Len(s)
  OBVIOUS
<1>2. s \in [1..Len(s) -> ToSet(s)]
  BY DEF ToSet
<1>3. s \in Bijection(1..Len(s), ToSet(s))
  <2>1. \A i, j \in 1..Len(s) : s[i] = s[j] => i = j
    BY <1>1 DEF IsInjective
  <2>2. \A x \in ToSet(s) : \E i \in 1..Len(s) : s[i] = x
    BY <1>1 DEF ToSet
  <2> QED
    BY <1>2, <2>1, <2>2, Fun_IsBij
<1>4. ExistsBijection(1..Len(s), ToSet(s))
  BY <1>3 DEF ExistsBijection
<1>5. IsFiniteSet(1..Len(s)) /\ Cardinality(1..Len(s)) = Len(s)
  BY <1>1, FS_Interval
<1> QED
  BY <1>4, <1>5, FS_Bijection

\* An element is added at the end ...
LEMMA AppendFacts ==
  ASSUME NEW T, NEW s \in Seq(T), IsInjective(s), NEW x \in T, x \notin ToSet(s)
  PROVE  LET r == Append(s, x)
         IN  /\ r \in Seq(T) /\ Len(r) = Len(s) + 1 /\ IsInjective(r)
             /\ \A k \in 1..Len(s) : r[k] = s[k]
             /\ r[Len(s) + 1] = x
             /\ ToSet(r) = ToSet(s) \cup {x}
<1> DEFINE r == Append(s, x)
<1>1. Len(s) \in Nat /\ DOMAIN s = 1..Len(s)
  OBVIOUS
<1>2. /\ r \in Seq(T) /\ Len(r) = Len(s) + 1 /\ DOMAIN r = 1..(Len(s) + 1)
      /\ \A k \in 1..Len(s) : r[k] = s[k]
      /\ r[Len(s) + 1] = x
  OBVIOUS
<1> HIDE DEF r
<1>3. ToSet(r) = ToSet(s) \cup {x}
  <2>1. \A k \in DOMAIN r : k \in 1..Len(s) \/ k = Len(s) + 1
    BY <1>1, <1>2
  <2>2. \A k \in 1..Len(s) : k \in DOMAIN r
    BY <1>1, <1>2
  <2>3. Len(s) + 1 \in DOMAIN r
    BY <1>1, <1>2
  <2> QED
    BY <1>1, <1>2, <2>1, <2>2, <2>3 DEF ToSet
<1>4. IsInjective(r)
  <2> SUFFICES ASSUME NEW i \in DOMAIN r, NEW j \in DOMAIN r, r[i] = r[j] PROVE i = j
    BY DEF IsInjective
  <2>1. \A k \in 1..Len(s) : s[k] # x
    BY <1>1 DEF ToSet
  <2>2. \A k \in DOMAIN r : k \in 1..Len(s) \/ k = Len(s) + 1
    BY <1>1, <1>2
  <2> QED
    BY <1>1, <1>2, <2>1, <2>2 DEF IsInjective
<1> QED
  BY <1>2, <1>3, <1>4 DEF r

\* ... or put at position l, whose element goes to that of the dropped one.
Replaces(r, s, l, d, x) ==
  /\ Len(r) = Len(s) /\ r[l] = x
  /\ \A k \in DOMAIN s : k # l => r[k] = s[IF k = d THEN l ELSE k]
Replaced(r, s, d, x) == IsInjective(r) /\ ToSet(r) = (ToSet(s) \ {s[d]}) \cup {x}

LEMMA ReplaceFacts ==
  ASSUME NEW T, NEW s \in Seq(T), IsInjective(s), NEW x \in T, x \notin ToSet(s),
         NEW l \in DOMAIN s, NEW d \in DOMAIN s, NEW r \in Seq(T), Replaces(r, s, l, d, x)
  PROVE  Replaced(r, s, d, x)
<1>1. Len(s) \in Nat /\ DOMAIN s = 1..Len(s) /\ l \in Nat /\ d \in Nat /\ d \in 1..Len(s)
  OBVIOUS
<1>2. DOMAIN r = 1..Len(s)
  BY <1>1, LenProperties DEF Replaces
<1>3. \A k \in 1..Len(s) : r[k] = IF k = l THEN x ELSE IF k = d THEN s[l] ELSE s[k]
  BY <1>1 DEF Replaces
<1>4. \A k \in 1..Len(s) : s[k] # x
  BY <1>1 DEF ToSet
<1>5. \A i, j \in 1..Len(s) : s[i] = s[j] => i = j
  BY <1>1 DEF IsInjective
<1>6. IsInjective(r)
  BY <1>1, <1>2, <1>3, <1>4, <1>5 DEF IsInjective
<1>7. ToSet(r) = (ToSet(s) \ {s[d]}) \cup {x}
  <2>1. ASSUME NEW k \in 1..Len(s) PROVE r[k] \in (ToSet(s) \ {s[d]}) \cup {x}
    BY <1>1, <1>3, <1>5 DEF ToSet
  <2>2. ASSUME NEW k \in 1..Len(s), k # d PROVE s[k] \in ToSet(r)
    <3>1. CASE k = l
      BY <1>1, <1>2, <1>3, <2>2, <3>1 DEF ToSet
    <3>2. CASE k # l
      BY <1>1, <1>2, <1>3, <2>2, <3>2 DEF ToSet
    <3> QED
      BY <3>1, <3>2
  <2>3. x \in ToSet(r)
    BY <1>2, <1>3 DEF ToSet
  <2>4. \A y \in ToSet(r) : \E k \in 1..Len(s) : y = r[k]
    BY <1>2 DEF ToSet
  <2>5. \A y \in ToSet(s) \ {s[d]} : \E k \in 1..Len(s) : y = s[k] /\ k # d
    BY <1>1 DEF ToSet
  <2>6. ToSet(r) \subseteq (ToSet(s) \ {s[d]}) \cup {x}
    BY <2>1, <2>4
  <2>7. (ToSet(s) \ {s[d]}) \cup {x} \subseteq ToSet(r)
    BY <2>2, <2>3, <2>5
  <2> QED
    BY <2>6, <2>7
<1> QED
  BY <1>6, <1>7 DEF Replaced

(***************************************************************************)
(* ------------------------------- layers -------------------------------- *)
(***************************************************************************)

LEMMA Constants ==
  /\ IsFiniteSet(Tx) /\ Tx \subseteq Nat \ {0}
  /\ Depth \in Nat /\ Depth > 1 /\ MaxReplacements \in Nat \ {0}
  /\ BinSize \in Nat /\ BinSize > MaxReplacements
  /\ MaxRollback \in Nat /\ MaxHeight \in Nat /\ MaxHeight > 1 /\ MaxRollbacks \in Nat
  /\ Stored \in Nat /\ Stored <= MaxHeight /\ Stored > 0
BY FeeEstimatorAssumption DEF FeeEstimatorAssumption

\* The heights of the layers end with the last block.
LEMMA LayerHeights ==
  ASSUME TypeOK, BranchInv
  PROVE  /\ Len(before) \in Nat /\ Len(dropped) \in Nat /\ Len(branch) \in Nat
         /\ lastKnown \in Nat
         /\ Len(before) = IF step = "register" THEN Len(dropped) + 1 ELSE Len(dropped)
         /\ \A k \in Layers : /\ HeightOf(k) \in 2..lastKnown
                              /\ k \in 1..Len(before)
                              /\ k < Len(before) => HeightOf(k + 1) = HeightOf(k) + 1
                              /\ k = Len(before) => HeightOf(k) = lastKnown
         /\ Layers # {} => lastKnown = Len(branch) + 1
<1>1. /\ Len(before) \in Nat /\ Len(dropped) \in Nat /\ Len(branch) \in Nat
      /\ lastKnown \in Nat
  BY Constants DEF TypeOK
<1>2. Len(before) = IF step = "register" THEN Len(dropped) + 1 ELSE Len(dropped)
  BY <1>1 DEF TypeOK
<1>3. ASSUME NEW k \in Layers
      PROVE  /\ HeightOf(k) \in 2..lastKnown /\ lastKnown = Len(branch) + 1
             /\ k \in 1..Len(before)
             /\ k < Len(before) => HeightOf(k + 1) = HeightOf(k) + 1
             /\ k = Len(before) => HeightOf(k) = lastKnown
  <2>1. k \in Nat /\ k >= 1 /\ k <= Len(before) /\ Len(before) <= Len(branch)
    BY <1>1 DEF Layers, BranchInv
  <2>2. branch # <<>>
    BY <1>1, <2>1
  <2>3. lastKnown = Len(branch) + 1
    BY <2>2 DEF BranchInv
  <2> QED
    BY <1>1, <2>1, <2>3 DEF HeightOf
<1> QED
  BY <1>1, <1>2, <1>3

LEMMA HeldTypes ==
  ASSUME TypeOK, BranchInv, NEW n \in Bins
  PROVE  /\ \A j : Held(j, n) \in SUBSET Tx /\ IsFiniteSet(Held(j, n))
         /\ \A k \in Layers : Drop(k) \in Seq(Tx) /\ ToSet(Drop(k)) \in SUBSET Tx
<1>1. \A j : Held(j, n) \in SUBSET Tx
  <2>1. ToSet(bin[n]) \in SUBSET Tx
    BY DEF TypeOK, ToSet
  <2>2. \A j \in Layers : before[j][n] \in SUBSET Tx
    <3>1. before \in Seq([Bins -> SUBSET Tx]) /\ Layers = 1..Len(before)
      BY DEF TypeOK, Layers
    <3>2. \A j \in Layers : before[j] \in [Bins -> SUBSET Tx]
      BY <3>1, ElementOfSeq
    <3> QED
      BY <3>2
  <2> QED
    BY <2>1, <2>2 DEF Held
<1>2. ASSUME NEW k \in Layers PROVE Drop(k) \in Seq(Tx)
  <2>1. dropped \in Seq(Seq(Tx)) /\ cur \in Seq(Tx) /\ k \in Nat /\ k >= 1
    BY LayerHeights DEF TypeOK, Layers
  <2>2. CASE k <= Len(dropped)
    <3>1. k \in 1..Len(dropped)
      BY <2>1, <2>2
    <3> QED
      BY <2>1, <2>2, <3>1, ElementOfSeq DEF Drop
  <2>3. CASE ~ (k <= Len(dropped))
    BY <2>1, <2>3 DEF Drop
  <2> QED
    BY <2>2, <2>3
<1>3. \A k \in Layers : ToSet(Drop(k)) \in SUBSET Tx
  BY <1>2 DEF ToSet
<1>4. \A j : IsFiniteSet(Held(j, n))
  BY <1>1, Constants, FS_Subset
<1> QED
  BY <1>1, <1>2, <1>3, <1>4

\* What is held after a block was mined by it or before, what it dropped before.
LEMMA LayerFacts ==
  ASSUME TypeOK, EstimatorInv, NEW k \in Layers
  PROVE  /\ \A n \in Bins : \A tx \in Held(k + 1, n) :
              mined[tx] # Unmined /\ mined[tx] <= HeightOf(k) /\ BinOf(tx) = n
         /\ \A tx \in ToSet(Drop(k)) :
              /\ tx \in Tx /\ mined[tx] # Unmined /\ mined[tx] < HeightOf(k)
              /\ BinOf(tx) \in Bins
<1> USE DEF EstimatorInv
<1>1. LayerInv(k)
  BY DEF StackInv
<1>2. ASSUME NEW n \in Bins, NEW tx \in Held(k + 1, n)
      PROVE  mined[tx] # Unmined /\ mined[tx] <= HeightOf(k) /\ BinOf(tx) = n
  <2>1. tx \in Tx /\ mined[tx] \in Nat
    BY HeldTypes DEF TypeOK
  <2>2. CASE k < Len(before)
    <3>1. k + 1 \in Layers
      BY <2>2, LayerHeights DEF Layers
    <3>2. mined[tx] # Unmined /\ mined[tx] < HeightOf(k + 1) /\ BinOf(tx) = n
      BY <3>1 DEF StackInv, LayerInv, BinLayerInv
    <3> QED
      BY <2>1, <2>2, <3>2, LayerHeights
  <2>3. CASE k = Len(before)
    <3>1. k + 1 \notin Layers
      BY <2>3, LayerHeights DEF Layers
    <3>2. tx \in ToSet(bin[n])
      BY <3>1 DEF Held
    <3>3. mined[tx] # Unmined /\ BinOf(tx) = n
      BY <3>2 DEF BinInv, ToSet
    <3>4. mined[tx] <= lastKnown
      BY <2>1, <3>3, LayerHeights DEF RecordInv
    <3> QED
      BY <2>3, <3>3, <3>4, LayerHeights
  <2> QED
    BY <2>2, <2>3, LayerHeights
<1>3. ASSUME NEW tx \in ToSet(Drop(k))
      PROVE  /\ tx \in Tx /\ mined[tx] # Unmined /\ mined[tx] < HeightOf(k)
             /\ BinOf(tx) \in Bins
  <2>1. BinOf(tx) \in Bins
    BY <1>1 DEF LayerInv
  <2>2. BinLayerInv(k, BinOf(tx))
    BY <1>1, <2>1 DEF LayerInv
  <2>3. tx \in Held(k, BinOf(tx))
    BY <2>2 DEF BinLayerInv
  <2>4. tx \in Tx
    BY <2>1, <2>3, HeldTypes
  <2> QED
    BY <2>1, <2>2, <2>3, <2>4 DEF BinLayerInv
<1> QED
  BY <1>2, <1>3

\* A layer stays as it is, perhaps at another place of the stack, if what is on
\* top of it takes in nothing but what was not mined.
LEMMA LayerKept ==
  ASSUME TypeOK, EstimatorInv, NEW k \in Layers', NEW i \in Layers,
         HeightOf(k)' = HeightOf(i),
         \A n \in Bins : Held(k, n)' = Held(i, n) /\ Held(k + 1, n)' = Held(i + 1, n),
         Drop(k)' = Drop(i),
         \A j \in (k + 1)..(Len(before') + 1) : \E m \in (i + 1)..(Len(before) + 1) :
           \A n \in Bins : \A tx \in Held(j, n)' : tx \in Held(m, n) \/ mined[tx] = Unmined,
         \A tx \in Tx : mined[tx] # Unmined /\ mined[tx] <= HeightOf(i) =>
           mined'[tx] = mined[tx] /\ observed'[tx] = observed[tx],
         \A tx \in Tx : mined'[tx] = HeightOf(i) => mined[tx] = HeightOf(i)
  PROVE  LayerInv(k)'
<1>1. LayerInv(i) /\ HeightOf(i) \in 2..lastKnown /\ lastKnown \in Nat
  BY LayerHeights DEF EstimatorInv, StackInv
<1>2. /\ \A n \in Bins : \A tx \in Held(i + 1, n) :
           mined[tx] # Unmined /\ mined[tx] <= HeightOf(i) /\ BinOf(tx) = n
      /\ \A tx \in ToSet(Drop(i)) :
           /\ tx \in Tx /\ mined[tx] # Unmined /\ mined[tx] < HeightOf(i)
           /\ BinOf(tx) \in Bins
  BY LayerFacts
<1>3. \A n \in Bins : \A tx \in Held(i, n) \cup Held(i + 1, n) : tx \in Tx /\ mined[tx] \in Nat
  BY HeldTypes DEF EstimatorInv, TypeOK
<1>4. \A n \in Bins : \A tx \in Held(i, n) : mined[tx] # Unmined /\ mined[tx] < HeightOf(i)
  BY <1>1 DEF LayerInv, BinLayerInv
<1>5. \A n \in Bins : \A tx \in Held(i, n) \cup Held(i + 1, n) :
        mined'[tx] = mined[tx] /\ BinOf(tx)' = BinOf(tx)
  BY <1>1, <1>2, <1>3, <1>4 DEF BinOf
<1>6. \A tx \in ToSet(Drop(i)) : mined'[tx] = mined[tx] /\ BinOf(tx)' = BinOf(tx)
  <2>1. \A tx \in Tx : mined[tx] \in Nat
    BY DEF TypeOK
  <2> QED
    BY <1>1, <1>2, <2>1 DEF BinOf
<1>7. \A n \in Bins : BinLayerInv(k, n)'
  <2> SUFFICES ASSUME NEW n \in Bins PROVE BinLayerInv(k, n)'
    BY DEF Bins
  <2>1. BinLayerInv(i, n)
    BY <1>1 DEF LayerInv
  <2>2. {tx \in Held(k + 1, n)' : mined'[tx] # HeightOf(k)'}
          = {tx \in Held(i + 1, n) : mined[tx] # HeightOf(i)}
    BY <1>5
  <2>3. {tx \in ToSet(Drop(k))' : BinOf(tx)' = n} = {tx \in ToSet(Drop(i)) : BinOf(tx) = n}
    BY <1>6
  <2>4. \A tx \in Held(k, n)' : /\ mined'[tx] # Unmined /\ mined'[tx] < HeightOf(k)'
                                /\ BinOf(tx)' = n
    BY <1>5, <2>1 DEF BinLayerInv
  <2>5. (\E tx \in ToSet(Drop(k))' : BinOf(tx)' = n) => Cardinality(Held(k + 1, n)') = BinSize
    BY <1>6, <2>1 DEF BinLayerInv
  <2>6. Held(k, n)' = {tx \in Held(k + 1, n)' : mined'[tx] # HeightOf(k)'}
                        \cup {tx \in ToSet(Drop(k))' : BinOf(tx)' = n}
    BY <2>1, <2>2, <2>3 DEF BinLayerInv
  <2> QED
    BY <2>1, <2>4, <2>5, <2>6 DEF BinLayerInv
<1>8. ASSUME NEW tx \in Tx, mined'[tx] = HeightOf(i)
      PROVE  tx \in Held(k + 1, BinOf(tx))'
  <2>1. mined[tx] = HeightOf(i) /\ mined[tx] # Unmined /\ mined[tx] <= HeightOf(i)
    BY <1>1, <1>8 DEF Unmined
  <2>2. tx \in Held(i + 1, BinOf(tx)) /\ BinOf(tx) \in Bins
    BY <1>1, <2>1 DEF LayerInv, EstimatorInv, RecordInv
  <2>3. BinOf(tx)' = BinOf(tx)
    BY <2>1 DEF BinOf
  <2> QED
    BY <2>2, <2>3
<1>9. ASSUME NEW tx \in ToSet(Drop(i))
      PROVE  /\ BinOf(tx)' \in Bins
             /\ \A j \in (k + 1)..(Len(before') + 1), n \in Bins : tx \notin Held(j, n)'
  <2>1. \A j \in (i + 1)..(Len(before) + 1), n \in Bins : tx \notin Held(j, n)
    BY <1>1 DEF LayerInv
  <2> QED
    BY <1>2, <1>6, <2>1
<1>10. IsInjective(Drop(k))'
  BY <1>1 DEF LayerInv
<1> QED
  BY <1>7, <1>8, <1>9, <1>10 DEF LayerInv, Bins

(***************************************************************************)
(* ------------------------------- steps --------------------------------- *)
(***************************************************************************)

\* Steps that touch neither what is mined nor bins nor stack.
LEMMA Quiet ==
  ASSUME TypeOK, EstimatorInv,
         UNCHANGED <<lastKnown, mined, bin, dropped, cur, count, branch, before>>,
         step' = "register" => step = "register",
         \A tx \in Tx : mined[tx] # Unmined => observed'[tx] = observed[tx]
  PROVE  RecordInv' /\ BinInv' /\ StackInv'
<1>1. \A tx \in Tx : mined[tx] # Unmined => BinOf(tx)' = BinOf(tx)
  BY DEF BinOf
<1>2. RecordInv'
  BY <1>1 DEF EstimatorInv, RecordInv
<1>3. BinInv'
  <2>1. \A n \in Bins : \A k \in DOMAIN bin[n] : bin[n][k] \in Tx
    BY DEF TypeOK
  <2> QED
    BY <1>1, <2>1 DEF EstimatorInv, BinInv, Bins
<1>4. /\ Layers' = Layers /\ \A k : HeightOf(k)' = HeightOf(k) /\ Drop(k)' = Drop(k)
      /\ \A k, n : Held(k, n)' = Held(k, n)
  BY DEF Layers, HeightOf, Drop, Held
<1>5. StackInv'
  <2> SUFFICES ASSUME NEW k \in Layers' PROVE LayerInv(k)'
    BY DEF StackInv
  <2>1. k \in Layers
    BY <1>4
  <2>2. \A j \in (k + 1)..(Len(before') + 1) : \E m \in (k + 1)..(Len(before) + 1) :
          \A n \in Bins : \A tx \in Held(j, n)' : tx \in Held(m, n) \/ mined[tx] = Unmined
    BY <1>4
  <2> QED
    BY <1>4, <2>1, <2>2, LayerKept
<1> QED
  BY <1>2, <1>3, <1>5

\* Transactions in the bins and on the stack are observed ones.
LEMMA AllSeen ==
  ASSUME TypeOK, EstimatorInv
  PROVE  /\ \A n \in Bins : \A k \in DOMAIN bin[n] : bin[n][k] \in Seen
         /\ \A k \in DOMAIN dropped : \A i \in DOMAIN dropped[k] : dropped[k][i] \in Seen
<1>1. \A tx \in Tx : mined[tx] # Unmined => tx \in Seen
  BY DEF EstimatorInv, RecordInv, Seen
<1>2. ASSUME NEW n \in Bins, NEW k \in DOMAIN bin[n] PROVE bin[n][k] \in Seen
  <2>1. bin[n][k] \in Tx
    BY DEF TypeOK
  <2> QED
    BY <1>1, <2>1 DEF EstimatorInv, BinInv
<1>3. ASSUME NEW k \in DOMAIN dropped, NEW i \in DOMAIN dropped[k]
      PROVE  dropped[k][i] \in Seen
  <2>1. k \in 1..Len(dropped)
    <3>1. dropped \in Seq(Seq(Tx))
      BY DEF TypeOK
    <3> QED
      BY <3>1, LenProperties
  <2>2. k \in Layers /\ Drop(k) = dropped[k]
    BY <2>1, LayerHeights DEF Layers, Drop, EstimatorInv
  <2>3. dropped[k][i] \in ToSet(Drop(k))
    BY <2>2 DEF ToSet
  <2> QED
    BY <1>1, <2>2, <2>3, LayerFacts
<1> QED
  BY <1>2, <1>3

\* Hashes have different indexes in the saved order, so what is saved as an
\* observed transaction is read as the same one.
LEMMA RestoredSame ==
  ASSUME TypeOK, NEW tx \in Seen
  PROVE  Restored(tx) = tx
<1> DEFINE Less(u) == {v \in Seen : v < u}
<1>1. IsFiniteSet(Seen) /\ Seen \subseteq Nat
  <2>1. Seen \in SUBSET Tx
    BY DEF Seen
  <2> QED
    BY <2>1, Constants, FS_Subset
<1>2. ASSUME NEW u \in Seen, NEW v \in Seen, u < v
      PROVE  Cardinality(Less(u)) # Cardinality(Less(v))
  <2>1. Less(u) \in SUBSET Less(v)
    <3> SUFFICES ASSUME NEW w \in Seen, w < u PROVE w < v
      OBVIOUS
    <3>1. w \in Nat /\ u \in Nat /\ v \in Nat
      BY <1>1
    <3> QED
      BY <1>2, <3>1
  <2>2. u \in Less(v) /\ u \notin Less(u)
    BY <1>1, <1>2
  <2>3. Less(v) \in SUBSET Seen
    OBVIOUS
  <2> HIDE DEF Less
  <2>4. IsFiniteSet(Less(v))
    BY <1>1, <2>3, FS_Subset
  <2> QED
    BY <2>1, <2>2, <2>4, FS_Subset
<1>3. \A u \in Seen : SavedIndex(u) = Cardinality(Less(u))
  BY DEF SavedIndex
<1> HIDE DEF Less
<1>4. ASSUME NEW u \in Seen, SavedIndex(u) = SavedIndex(tx) PROVE u = tx
  <2>1. u < tx \/ tx < u \/ u = tx
    BY <1>1
  <2> QED
    BY <1>2, <1>3, <1>4, <2>1
<1> QED
  BY <1>4 DEF Restored

\* A fast start leaves the estimator as it was saved.
LEMMA RestartSame ==
  ASSUME TypeOK, EstimatorInv, Restart
  PROVE  UNCHANGED <<lastKnown, num, mined, bin, dropped>>
<1>1. \A n \in Bins : bin[n] \in Seq(Tx) /\ RestoredSeq(bin[n]) = bin[n]
  <2> SUFFICES ASSUME NEW n \in Bins PROVE bin[n] \in Seq(Tx) /\ RestoredSeq(bin[n]) = bin[n]
    OBVIOUS
  <2>1. bin[n] \in Seq(Tx)
    BY DEF TypeOK
  <2>2. \A k \in DOMAIN bin[n] : Restored(bin[n][k]) = bin[n][k]
    BY AllSeen, RestoredSame
  <2>3. bin[n] = [k \in DOMAIN bin[n] |-> bin[n][k]]
    BY <2>1
  <2> QED
    BY <2>1, <2>2, <2>3 DEF RestoredSeq
<1>2. Readable
  <2>1. CASE Seen = {}
    <3>1. \A n \in Bins : DOMAIN bin[n] = {}
      BY <2>1, AllSeen
    <3>2. \A n \in Bins : bin[n] = <<>>
      <4> SUFFICES ASSUME NEW n \in Bins PROVE bin[n] = <<>>
        OBVIOUS
      <4>1. bin[n] \in Seq(Tx) /\ DOMAIN bin[n] = 1..Len(bin[n]) /\ Len(bin[n]) \in Nat
        BY <1>1, LenProperties
      <4>2. ~ (1 \in DOMAIN bin[n])
        BY <3>1
      <4>3. Len(bin[n]) = 0
        BY <4>1, <4>2
      <4> QED
        BY <4>1, <4>3, EmptySeq
    <3>3. bin = [n \in Bins |-> bin[n]]
      BY DEF TypeOK
    <3> QED
      BY <3>2, <3>3 DEF Readable, Empty
  <2>2. CASE Seen # {}
    BY <2>2 DEF Readable
  <2> QED
    BY <2>1, <2>2
<1>3. bin' = bin
  <2>1. bin' = [n \in Bins |-> RestoredSeq(bin[n])]
    BY <1>2 DEF Restart
  <2>2. bin = [n \in Bins |-> bin[n]]
    BY DEF TypeOK
  <2> QED
    BY <1>1, <2>1, <2>2
<1>4. dropped' = dropped
  <2>1. dropped' = [k \in DOMAIN dropped |-> RestoredSeq(dropped[k])]
    BY <1>2 DEF Restart
  <2>2. dropped = [k \in DOMAIN dropped |-> dropped[k]]
    BY DEF TypeOK
  <2>3. ASSUME NEW k \in DOMAIN dropped PROVE RestoredSeq(dropped[k]) = dropped[k]
    <3>1. dropped[k] \in Seq(Tx)
      BY DEF TypeOK
    <3>2. dropped[k] = [i \in DOMAIN dropped[k] |-> dropped[k][i]]
      BY <3>1
    <3>3. \A i \in DOMAIN dropped[k] : Restored(dropped[k][i]) = dropped[k][i]
      BY AllSeen, RestoredSame
    <3> QED
      BY <3>2, <3>3 DEF RestoredSeq
  <2> QED
    BY <2>1, <2>2, <2>3
<1>5. mined' = mined
  <2>1. \A tx \in Tx : tx \notin Seen => mined[tx] = Unmined
    BY DEF EstimatorInv, RecordInv, Seen
  <2>2. mined' = [tx \in Tx |-> IF tx \in Seen THEN mined[tx] ELSE Unmined]
    BY DEF Restart
  <2>3. mined = [tx \in Tx |-> mined[tx]]
    BY DEF TypeOK
  <2> QED
    BY <2>1, <2>2, <2>3
<1> QED
  BY <1>2, <1>3, <1>4, <1>5 DEF Restart

\* Nothing is mined above the last block.
LEMMA MinedHeights ==
  ASSUME TypeOK, EstimatorInv, NEW tx \in Tx
  PROVE  /\ mined[tx] \in Nat /\ lastKnown \in Nat /\ observed[tx] \in Nat
         /\ mined[tx] <= lastKnown
<1>1. mined[tx] \in Nat /\ lastKnown \in Nat /\ observed[tx] \in Nat
  BY Constants DEF TypeOK
<1>2. mined[tx] # Unmined => mined[tx] \in 2..lastKnown
  BY DEF EstimatorInv, RecordInv
<1> QED
  BY <1>1, <1>2 DEF Unmined

LEMMA RegisterBlockKeeps ==
  ASSUME TypeOK, EstimatorInv, NEW block \in SUBSET (Tx \ Chain), RegisterBlock(block)
  PROVE  TypeOK' /\ EstimatorInv'
<1>1. /\ lastKnown' = Len(branch) + 2 /\ lastKnown' \in 0..MaxHeight
      /\ lastKnown = Len(branch) + 1 \/ (lastKnown = 0 /\ branch = <<>>)
      /\ lastKnown' > lastKnown /\ step = "idle" /\ step' = "register"
      /\ Len(branch) \in Nat /\ Len(before) \in Nat /\ Len(dropped) \in Nat
      /\ Len(before) = Len(dropped)
  BY LayerHeights, Constants DEF RegisterBlock, Free, Height, EstimatorInv, BranchInv, Unmined
<1>2. /\ branch' \in Seq(SUBSET Tx) /\ Len(branch') = Len(branch) + 1
      /\ \A k \in 1..Len(branch) : branch'[k] = branch[k]
      /\ branch'[Len(branch) + 1] = block
  <2>1. branch \in Seq(SUBSET Tx) /\ block \in SUBSET Tx /\ branch' = Append(branch, block)
    BY DEF TypeOK, RegisterBlock
  <2> QED
    BY <2>1, AppendProperties
<1>3. /\ before' \in Seq([Bins -> SUBSET Tx]) /\ Len(before') = Len(before) + 1
      /\ \A k \in 1..Len(before) : before'[k] = before[k]
      /\ before'[Len(before) + 1] = [n \in Bins |-> ToSet(bin[n])]
  <2>1. [n \in Bins |-> ToSet(bin[n])] \in [Bins -> SUBSET Tx]
    BY DEF TypeOK, ToSet
  <2>2. before \in Seq([Bins -> SUBSET Tx])
    BY DEF TypeOK
  <2>3. before' = Append(before, [n \in Bins |-> ToSet(bin[n])])
    BY DEF RegisterBlock
  <2> QED
    BY <2>1, <2>2, <2>3, AppendProperties
<1>4. UNCHANGED <<observed, mined, bin, dropped, undo, rollbacks, failed>>
  BY DEF RegisterBlock
<1>5. TypeOK'
  <2>1. num' \in 0..MaxHeight
    BY <1>1, Constants DEF RegisterBlock, EstimatorInv, BranchInv
  <2>2. count' \in [Bins -> 0..MaxReplacements]
    BY Constants DEF RegisterBlock
  <2>3. todo' \subseteq Seen'
    BY <1>4 DEF RegisterBlock, Seen
  <2>4. cur' \in Seq(Tx) /\ cached' = Nil
    BY DEF RegisterBlock
  <2>5. Len(before') = Len(dropped') + (IF step' = "register" THEN 1 ELSE 0)
    BY <1>1, <1>3, <1>4
  <2>6. /\ observed' \in [Tx -> 0..MaxHeight] /\ mined' \in [Tx -> 0..MaxHeight]
        /\ bin' \in [Bins -> Seq(Tx)] /\ \A n \in Bins : Len(bin'[n]) <= BinSize
        /\ dropped' \in Seq(Seq(Tx)) /\ Len(dropped') <= MaxRollback
        /\ undo' \in 0..MaxRollback /\ rollbacks' \in 0..MaxRollbacks
        /\ failed' \in {"none", "mined", "index", "illegal"}
    BY <1>4 DEF TypeOK
  <2> QED
    BY <1>1, <1>2, <1>3, <2>1, <2>2, <2>3, <2>4, <2>5, <2>6 DEF TypeOK, Bins
<1>6. BranchInv'
  <2>1. Len(before) <= Len(branch) /\ num' = Len(branch')
    BY <1>2 DEF EstimatorInv, BranchInv, RegisterBlock
  <2> QED
    BY <1>1, <1>2, <1>3, <2>1, Constants DEF BranchInv
<1>7. RecordInv'
  <2> SUFFICES ASSUME NEW tx \in Tx, mined[tx] # Unmined
               PROVE  /\ observed[tx] # Unmined /\ BinOf(tx) \in Bins
                      /\ mined[tx] \in 2..lastKnown' /\ tx \in branch'[mined[tx] - 1]
    BY <1>4 DEF RecordInv, BinOf, Bins, Unmined
  <2>1. /\ observed[tx] # Unmined /\ BinOf(tx) \in Bins
        /\ mined[tx] \in 2..lastKnown /\ tx \in branch[mined[tx] - 1]
    BY DEF EstimatorInv, RecordInv
  <2>2. mined[tx] \in Nat /\ lastKnown \in Nat
    BY MinedHeights
  <2>3. mined[tx] - 1 \in 1..Len(branch)
    BY <1>1, <2>1, <2>2
  <2> QED
    BY <1>1, <1>2, <2>1, <2>2, <2>3
<1>8. \A tx \in Tx : mined'[tx] # lastKnown' /\ mined[tx] # lastKnown'
  BY <1>1, <1>4, MinedHeights
<1>9. ObserveInv'
  <2>1. ASSUME NEW tx \in todo'
        PROVE  mined'[tx] = Unmined /\ tx \in branch'[lastKnown' - 1]
    <3>1. tx \in Tx /\ tx \notin Chain /\ tx \in block
      BY DEF RegisterBlock
    <3>2. ASSUME mined[tx] # Unmined PROVE FALSE
      <4>1. mined[tx] \in 2..lastKnown /\ tx \in branch[mined[tx] - 1]
        BY <3>1, <3>2 DEF EstimatorInv, RecordInv
      <4>2. mined[tx] - 1 \in 1..Len(branch)
        BY <1>1, <3>1, <4>1, MinedHeights
      <4>3. branch[mined[tx] - 1] \in ToSet(branch)
        <5>1. branch \in Seq(SUBSET Tx)
          BY DEF TypeOK
        <5> QED
          BY <4>2, <5>1 DEF ToSet
      <4> QED
        BY <3>1, <4>1, <4>3 DEF Chain
    <3>3. branch'[lastKnown' - 1] = block
      BY <1>1, <1>2
    <3> QED
      BY <1>4, <3>1, <3>2, <3>3
  <2>2. ASSUME rollbacks' = 0, NEW tx \in Tx
        PROVE  observed'[tx] <= Stored \/ observed'[tx] <= lastKnown' - 1
    <3>1. observed[tx] <= Stored \/ observed[tx] <= lastKnown
      BY <1>1, <1>4, <2>2 DEF EstimatorInv, ObserveInv
    <3> QED
      BY <1>1, <1>4, <3>1, MinedHeights
  <2> QED
    BY <1>1, <2>1, <2>2 DEF ObserveInv
<1>10. BinInv'
  <2> SUFFICES ASSUME NEW n \in Bins
               PROVE  /\ \A k \in DOMAIN bin[n] : mined[bin[n][k]] # Unmined
                                                    /\ BinOf(bin[n][k])' = n
                      /\ IsInjective(bin[n])
                      /\ \A k \in DOMAIN bin[n] : mined[bin[n][k]] # lastKnown'
    BY <1>4 DEF BinInv, Bins, Unmined
  <2>1. \A k \in DOMAIN bin[n] : bin[n][k] \in Tx
    BY DEF TypeOK
  <2>2. /\ \A k \in DOMAIN bin[n] : mined[bin[n][k]] # Unmined /\ BinOf(bin[n][k]) = n
        /\ IsInjective(bin[n])
    BY DEF EstimatorInv, BinInv
  <2>3. \A k \in DOMAIN bin[n] : mined[bin[n][k]] # lastKnown'
    BY <1>8, <2>1
  <2>4. \A k \in DOMAIN bin[n] : mined[bin[n][k]] # Unmined /\ BinOf(bin[n][k])' = n
    <3> SUFFICES ASSUME NEW k \in DOMAIN bin[n] PROVE BinOf(bin[n][k])' = n
      BY <2>2
    <3>1. BinOf(bin[n][k]) = n
      BY <2>2
    <3> QED
      BY <1>4, <3>1 DEF BinOf
  <2> QED
    BY <2>2, <2>3, <2>4
<1>11. StackInv'
  <2> SUFFICES ASSUME NEW k \in Layers' PROVE LayerInv(k)'
    BY DEF StackInv
  <2>1. k \in 1..(Len(before) + 1) /\ Layers = 1..Len(before) /\ Layers' = 1..(Len(before) + 1)
    BY <1>3 DEF Layers
  <2>2. \A j, n : n \in Bins =>
          Held(j, n)' = IF j \in Layers THEN Held(j, n) ELSE ToSet(bin[n])
    BY <1>1, <1>3, <1>4, <2>1 DEF Held
  <2>3. \A n \in Bins : ToSet(bin[n]) = Held(Len(before) + 1, n)
    BY <1>1, <2>1 DEF Held
  <2>4. CASE k \in Layers
    <3>1. HeightOf(k)' = HeightOf(k)
      BY <1>1, <1>3, <2>1, <2>4, LayerHeights DEF HeightOf, EstimatorInv
    <3>2. Drop(k)' = Drop(k)
      BY <1>1, <1>4, <2>1, <2>4 DEF Drop
    <3>3. \A n \in Bins : Held(k, n)' = Held(k, n) /\ Held(k + 1, n)' = Held(k + 1, n)
      BY <1>1, <2>1, <2>2, <2>3, <2>4 DEF Held
    <3>4. ASSUME NEW j \in (k + 1)..(Len(before') + 1)
          PROVE  \E m \in (k + 1)..(Len(before) + 1) : \A n \in Bins :
                   \A tx \in Held(j, n)' : tx \in Held(m, n) \/ mined[tx] = Unmined
      <4>1. CASE j \in Layers
        <5>1. j \in (k + 1)..(Len(before) + 1)
          BY <1>1, <2>1, <4>1
        <5> QED
          BY <2>2, <4>1, <5>1
      <4>2. CASE j \notin Layers
        <5>1. Len(before) + 1 \in (k + 1)..(Len(before) + 1)
          BY <1>1, <2>1, <2>4
        <5> QED
          BY <2>2, <2>3, <4>2, <5>1
      <4> QED
        BY <4>1, <4>2
    <3> QED
      BY <1>4, <2>4, <3>1, <3>2, <3>3, <3>4, LayerKept
  <2>5. CASE k \notin Layers
    <3>1. k = Len(before) + 1 /\ k + 1 \notin Layers /\ HeightOf(k)' = lastKnown'
      BY <1>1, <1>3, <2>1, <2>5 DEF HeightOf
    <3>2. Drop(k)' = <<>> /\ ToSet(Drop(k)') = {}
      BY <1>1, <1>4, <3>1 DEF Drop, RegisterBlock, ToSet
    <3>3. \A n \in Bins : Held(k, n)' = ToSet(bin[n]) /\ Held(k + 1, n)' = ToSet(bin[n])
      BY <2>2, <2>5, <3>1
    <3>4. \A tx : BinOf(tx)' = BinOf(tx)
      BY <1>4 DEF BinOf
    <3>5. ASSUME NEW n \in Bins PROVE BinLayerInv(k, n)'
      <4>1. ToSet(bin[n]) \in SUBSET Tx
        BY DEF TypeOK, ToSet
      <4>2. Cardinality(Held(k, n)') <= BinSize
        BY <3>3, InjectiveLen DEF TypeOK, EstimatorInv, BinInv
      <4>3. \A tx \in Held(k, n)' : mined'[tx] # Unmined /\ BinOf(tx)' = n
        BY <1>4, <3>3, <3>4 DEF EstimatorInv, BinInv, ToSet
      <4>4. \A tx \in Held(k, n)' : mined'[tx] < HeightOf(k)'
        BY <1>1, <1>4, <3>1, <3>3, <4>1, MinedHeights
      <4>5. Held(k, n)' = {tx \in Held(k + 1, n)' : mined'[tx] # HeightOf(k)'}
        BY <1>8, <3>1, <3>3, <4>1
      <4> QED
        BY <3>2, <4>2, <4>3, <4>4, <4>5 DEF BinLayerInv
    <3>6. \A tx \in Tx : mined'[tx] # HeightOf(k)'
      BY <1>8, <3>1
    <3>7. IsInjective(Drop(k))'
      BY <3>2 DEF IsInjective
    <3> QED
      BY <3>2, <3>5, <3>6, <3>7 DEF LayerInv, Bins
  <2> QED
    BY <2>4, <2>5
<1>12. NoFailure'
  BY <1>4 DEF RegisterBlock, Free, NoFailure
<1> QED
  BY <1>5, <1>6, <1>7, <1>9, <1>10, <1>11, <1>12 DEF EstimatorInv

\* What MineTx does to the bin of the transaction: it takes the place of the
\* transactions D, one or none, which the block did not mine.
Took(tx, n, D) ==
  /\ bin'[n] \in Seq(Tx) /\ Len(bin'[n]) <= BinSize /\ IsInjective(bin'[n])
  /\ ToSet(bin'[n]) = (ToSet(bin[n]) \ D) \cup {tx}
  /\ \A k \in DOMAIN bin'[n] :
       mined'[bin'[n][k]] = lastKnown => k >= Len(bin'[n]) - count'[n]
  /\ cur' \in Seq(Tx) /\ IsInjective(cur') /\ ToSet(cur') = ToSet(cur) \cup D
  /\ D \subseteq ToSet(bin[n]) /\ \A u \in D : mined[u] # lastKnown
  /\ IF D = {} THEN Len(bin[n]) < BinSize ELSE Len(bin'[n]) = BinSize

LEMMA MineTxTakes ==
  ASSUME TypeOK, EstimatorInv, NEW tx \in Tx, MineTx(tx)
  PROVE  \E D : Took(tx, ToConfirm(tx), D)
<1> DEFINE n == ToConfirm(tx)
           s == bin[n]
           b == bin'[n]
           c == count[n]
<1>1. /\ n \in Bins /\ mined[tx] = Unmined /\ step = "register" /\ c # MaxReplacements
      /\ mined' = [mined EXCEPT ![tx] = lastKnown]
      /\ count' = [count EXCEPT ![n] = @ + 1]
  BY DEF MineTx, Registering
<1>2. /\ s \in Seq(Tx) /\ Len(s) \in Nat /\ Len(s) <= BinSize /\ DOMAIN s = 1..Len(s)
      /\ c \in Nat /\ c < MaxReplacements /\ cur \in Seq(Tx) /\ count'[n] = c + 1
      /\ \A u \in Tx \ {tx} : mined'[u] = mined[u]
  <2>1. s \in Seq(Tx) /\ Len(s) <= BinSize /\ cur \in Seq(Tx)
    BY <1>1 DEF TypeOK
  <2>2. c \in 0..MaxReplacements /\ count'[n] = c + 1
    BY <1>1 DEF TypeOK
  <2>3. \A u \in Tx \ {tx} : mined'[u] = mined[u]
    BY <1>1 DEF TypeOK
  <2> HIDE DEF s, c, n
  <2> QED
    BY <1>1, <2>1, <2>2, <2>3, LenProperties, Constants
<1>3. /\ IsInjective(s) /\ tx \notin ToSet(s)
      /\ \A k \in 1..Len(s) : mined[s[k]] = lastKnown => k >= Len(s) - c
  <2>1. /\ IsInjective(s) /\ \A k \in DOMAIN s : mined[s[k]] # Unmined
        /\ \A k \in DOMAIN s : mined[s[k]] = lastKnown => k >= Len(s) - c
    BY <1>1 DEF EstimatorInv, BinInv
  <2> HIDE DEF s, c, n
  <2> QED
    BY <1>1, <1>2, <2>1 DEF ToSet
<1>4. \A k \in 1..Len(s) : s[k] \in Tx /\ s[k] # tx /\ mined'[s[k]] = mined[s[k]]
  <2> HIDE DEF s, n
  <2> QED
    BY <1>2, <1>3 DEF ToSet
<1>5. \A u \in ToSet(cur) : u \notin ToSet(s)
  <2>1. Len(before) \in Layers /\ Len(before) + 1 \notin Layers /\ Drop(Len(before)) = cur
        /\ Len(before) \in Nat
    BY <1>1, LayerHeights DEF EstimatorInv, Layers, Drop
  <2>2. \A u \in ToSet(cur) : u \notin Held(Len(before) + 1, n)
    BY <1>1, <2>1 DEF EstimatorInv, StackInv, LayerInv
  <2> QED
    BY <2>1, <2>2 DEF Held
<1>6. IsInjective(cur)
  <2>1. Len(before) \in Layers /\ Drop(Len(before)) = cur
    BY <1>1, LayerHeights DEF EstimatorInv, Layers, Drop
  <2> QED
    BY <2>1 DEF EstimatorInv, StackInv, LayerInv
<1>7. CASE /\ Len(s) < BinSize
           /\ bin' = [bin EXCEPT ![n] = Append(@, tx)]
           /\ cur' = cur
  <2>1. b = Append(s, tx)
    BY <1>1, <1>7 DEF TypeOK
  <2> HIDE DEF s, b, c, n
  <2>2. /\ b \in Seq(Tx) /\ Len(b) = Len(s) + 1 /\ IsInjective(b)
        /\ \A k \in 1..Len(s) : b[k] = s[k]
        /\ ToSet(b) = ToSet(s) \cup {tx}
    BY <1>2, <1>3, <2>1, AppendFacts
  <2>3. DOMAIN b = 1..(Len(s) + 1)
    BY <2>2, LenProperties
  <2>4. ASSUME NEW k \in DOMAIN b, mined'[b[k]] = lastKnown PROVE k >= Len(b) - count'[n]
    BY <1>2, <1>3, <1>4, <2>2, <2>3, <2>4
  <2>5. Len(b) <= BinSize
    BY <1>2, <1>7, <2>2, Constants
  <2>6. Took(tx, n, {})
    BY <1>2, <1>6, <1>7, <2>2, <2>4, <2>5 DEF Took, s, b
  <2> QED
    BY <2>6 DEF n
<1>8. ASSUME Len(s) = BinSize, NEW d \in 1..Replaceable(n),
             cur' = Append(cur, s[d]),
             bin' = [bin EXCEPT ![n][d] = s[Replaceable(n)], ![n][Replaceable(n)] = tx]
      PROVE  \E D : Took(tx, n, D)
  <2> DEFINE l == Replaceable(n)
  <2>1. b = [k \in DOMAIN s |-> IF k = l THEN tx ELSE IF k = d THEN s[l] ELSE s[k]]
    <3>1. b = [s EXCEPT ![d] = s[l], ![l] = tx]
      BY <1>1, <1>8 DEF TypeOK
    <3>2. s \in Seq(Tx)
      BY <1>2
    <3> HIDE DEF s, b, n, l
    <3> QED
      BY <3>1, <3>2
  <2>2. l = Len(s) - (c + 1)
    BY <1>8 DEF Replaceable
  <2> HIDE DEF s, b, c, n, l
  <2>3. l \in 1..Len(s) /\ d \in 1..l
    <3>1. d \in 1..l
      BY DEF l
    <3>2. Len(s) = BinSize /\ c < MaxReplacements /\ c \in Nat /\ l = Len(s) - (c + 1)
      BY <1>2, <1>8, <2>2
    <3> QED
      BY <3>1, <3>2, Constants
  <2>4. /\ b \in Seq(Tx) /\ Len(b) = Len(s) /\ IsInjective(b)
        /\ \A k \in 1..Len(s) : b[k] = IF k = l THEN tx ELSE IF k = d THEN s[l] ELSE s[k]
        /\ ToSet(b) = (ToSet(s) \ {s[d]}) \cup {tx}
    <3>1. s \in Seq(Tx) /\ IsInjective(s) /\ tx \notin ToSet(s) /\ s[l] \in Tx
      BY <1>2, <1>3, <1>4, <2>3
    <3>2. b \in [1..Len(s) -> Tx]
      BY <1>2, <2>1, <3>1
    <3>3. b \in Seq(Tx) /\ Len(b) = Len(s)
      BY <1>2, <3>2, IsASeq, LenProperties
    <3>4. \A k \in 1..Len(s) : b[k] = IF k = l THEN tx ELSE IF k = d THEN s[l] ELSE s[k]
      BY <1>2, <2>1
    <3>5. l \in DOMAIN s /\ d \in DOMAIN s /\ Replaces(b, s, l, d, tx)
      BY <1>2, <2>3, <3>3, <3>4 DEF Replaces
    <3>6. Replaced(b, s, d, tx)
      BY <3>1, <3>3, <3>5, ReplaceFacts
    <3> QED
      BY <3>3, <3>4, <3>6 DEF Replaced
  <2>5. DOMAIN b = 1..Len(s)
    BY <2>4, LenProperties
  <2>6. mined[s[l]] # lastKnown /\ mined[s[d]] # lastKnown
    BY <1>2, <1>3, <2>2, <2>3
  <2>7. ASSUME NEW k \in DOMAIN b, mined'[b[k]] = lastKnown PROVE k >= Len(b) - count'[n]
    <3>1. /\ k \in 1..Len(s) /\ Len(b) = Len(s) /\ count'[n] = c + 1 /\ c \in Nat
          /\ l = Len(s) - (c + 1) /\ Len(s) \in Nat
      BY <1>2, <2>2, <2>4, <2>5
    <3>2. CASE k = l
      BY <3>1, <3>2
    <3>3. CASE k # l /\ k = d
      <4>1. b[k] = s[l]
        BY <2>4, <3>1, <3>3
      <4> QED
        BY <1>4, <2>3, <2>6, <2>7, <4>1
    <3>4. CASE k # l /\ k # d
      <4>1. b[k] = s[k]
        BY <2>4, <3>1, <3>4
      <4>2. k >= Len(s) - c
        BY <1>3, <1>4, <2>7, <3>1, <4>1
      <4> QED
        BY <3>1, <4>2
    <3> QED
      BY <3>2, <3>3, <3>4
  <2>8. s[d] \in Tx /\ s[d] \in ToSet(s) /\ s[d] \notin ToSet(cur)
    <3>1. d \in 1..Len(s) /\ DOMAIN s = 1..Len(s)
      BY <1>2, <2>3
    <3>2. s[d] \in Tx
      BY <1>4, <3>1
    <3>3. s[d] \in ToSet(s)
      BY <3>1 DEF ToSet
    <3> QED
      BY <1>5, <3>2, <3>3
  <2>9. cur' \in Seq(Tx) /\ IsInjective(cur') /\ ToSet(cur') = ToSet(cur) \cup {s[d]}
    BY <1>2, <1>6, <1>8, <2>8, AppendFacts
  <2>10. Took(tx, n, {s[d]})
    BY <1>2, <1>8, <2>4, <2>6, <2>7, <2>8, <2>9 DEF Took, s, b
  <2> QED
    BY <2>10
<1>9. \/ /\ Len(s) < BinSize
         /\ bin' = [bin EXCEPT ![n] = Append(@, tx)]
         /\ cur' = cur
      \/ /\ Len(s) = BinSize
         /\ \E d \in 1..Replaceable(n) :
              /\ cur' = Append(cur, s[d])
              /\ bin' = [bin EXCEPT ![n][d] = s[Replaceable(n)], ![n][Replaceable(n)] = tx]
  BY DEF MineTx
<1> QED
  <2> HIDE DEF s
  <2> QED
    BY <1>7, <1>8, <1>9

LEMMA MineTxKeeps ==
  ASSUME TypeOK, EstimatorInv, NEW tx \in Tx, MineTx(tx)
  PROVE  TypeOK' /\ EstimatorInv'
<1>a. PICK n \in Bins : n = ToConfirm(tx)
  BY DEF MineTx
<1>b. PICK L \in Nat : L = Len(before)
  BY DEF TypeOK
<1>1. /\ n \in Bins /\ mined[tx] = Unmined /\ step = "register" /\ tx \in todo
      /\ count[n] # MaxReplacements
      /\ mined' = [mined EXCEPT ![tx] = lastKnown]
      /\ count' = [count EXCEPT ![n] = @ + 1]
      /\ todo' = todo \ {tx}
      /\ UNCHANGED <<lastKnown, num, observed, dropped, cached, step, undo, branch,
                     before, rollbacks, failed>>
  BY <1>a DEF MineTx, Registering, env
<1>2. PICK D : Took(tx, n, D)
  BY <1>a, MineTxTakes
<1>3. \A m \in Bins \ {n} : bin'[m] = bin[m]
  BY <1>a, <1>1 DEF MineTx, TypeOK
<1>4. DOMAIN bin' = Bins /\ bin' = [m \in Bins |-> bin'[m]]
  BY <1>a, <1>1 DEF MineTx, TypeOK
<1>5. mined'[tx] = lastKnown /\ \A u \in Tx \ {tx} : mined'[u] = mined[u]
  BY <1>1 DEF TypeOK
<1>6. BinOf(tx)' = n /\ \A u \in Tx \ {tx} : BinOf(u)' = BinOf(u)
  BY <1>a, <1>1, <1>5 DEF BinOf, ToConfirm
<1>7. /\ L \in Layers /\ L + 1 \notin Layers /\ L = Len(dropped) + 1 /\ Drop(L) = cur
      /\ L \in Nat /\ Len(dropped) \in Nat /\ HeightOf(L) = lastKnown
      /\ lastKnown = Len(branch) + 1 /\ Len(branch) \in Nat /\ Len(branch) >= 1
      /\ lastKnown \in 2..MaxHeight
  <2>1. BranchInv
    BY DEF EstimatorInv
  <2>2. L \in Nat /\ Len(dropped) \in Nat /\ L = Len(dropped) + 1
    BY <1>b, <1>1, <2>1, LayerHeights
  <2>3. L \in Layers /\ L + 1 \notin Layers
    BY <1>b, <2>2 DEF Layers
  <2>4. HeightOf(L) = lastKnown /\ lastKnown = Len(branch) + 1 /\ Len(branch) \in Nat
        /\ HeightOf(L) \in 2..lastKnown
    BY <1>b, <2>1, <2>3, LayerHeights
  <2>5. Drop(L) = cur
    BY <2>2 DEF Drop
  <2>6. lastKnown \in 0..MaxHeight
    BY DEF TypeOK
  <2> QED
    BY <2>2, <2>3, <2>4, <2>5, <2>6, Constants
<1>8. \A m \in Bins : \A u \in ToSet(bin[m]) :
        u \in Tx /\ u # tx /\ mined[u] # Unmined /\ BinOf(u) = m
  <2>1. \A m \in Bins : \A k \in DOMAIN bin[m] :
          bin[m][k] \in Tx /\ mined[bin[m][k]] # Unmined /\ BinOf(bin[m][k]) = m
    BY DEF TypeOK, EstimatorInv, BinInv
  <2> QED
    BY <1>1, <2>1 DEF ToSet
<1>9. D \subseteq ToSet(bin[n]) /\ ToSet(bin'[n]) = (ToSet(bin[n]) \ D) \cup {tx}
  BY <1>2 DEF Took
<1>10. /\ Layers' = Layers /\ \A k : HeightOf(k)' = HeightOf(k)
       /\ \A k \in Layers : \A m \in Bins : Held(k, m)' = Held(k, m)
  BY <1>1 DEF Layers, HeightOf, Held
<1>11. TypeOK'
  <2>1. mined' \in [Tx -> 0..MaxHeight]
    BY <1>1, <1>7, Constants DEF TypeOK
  <2>2. count' \in [Bins -> 0..MaxReplacements]
    <3>1. count \in [Bins -> 0..MaxReplacements]
      BY DEF TypeOK
    <3>2. count[n] \in 0..MaxReplacements /\ count[n] # MaxReplacements
      BY <1>1, <3>1
    <3>3. count[n] + 1 \in 0..MaxReplacements
      BY <3>2, Constants
    <3> QED
      BY <1>1, <3>1, <3>3
  <2>3. \A m \in Bins : bin'[m] \in Seq(Tx) /\ Len(bin'[m]) <= BinSize
    BY <1>2, <1>3 DEF Took, TypeOK
  <2>4. bin' \in [Bins -> Seq(Tx)]
    BY <1>4, <2>3
  <2>5. cur' \in Seq(Tx)
    BY <1>2 DEF Took
  <2>6. todo' \subseteq Seen'
    BY <1>1 DEF TypeOK, Seen
  <2> QED
    BY <1>1, <2>1, <2>2, <2>3, <2>4, <2>5, <2>6 DEF TypeOK, Bins
<1>12. BranchInv'
  BY <1>1 DEF EstimatorInv, BranchInv
<1>13. RecordInv'
  <2> SUFFICES ASSUME NEW u \in Tx, mined'[u] # Unmined
               PROVE  /\ observed[u] # Unmined /\ BinOf(u)' \in Bins
                      /\ mined'[u] \in 2..lastKnown /\ u \in branch[mined'[u] - 1]
    BY <1>1 DEF RecordInv, Bins, Unmined
  <2>1. CASE u = tx
    <3>1. observed[u] # Unmined
      BY <1>1, <2>1 DEF TypeOK, Seen
    <3>2. u \in branch[lastKnown - 1]
      BY <1>1, <2>1 DEF EstimatorInv, ObserveInv
    <3> QED
      BY <1>1, <1>5, <1>6, <1>7, <2>1, <3>1, <3>2
  <2>2. CASE u # tx
    BY <1>5, <1>6, <2>2 DEF EstimatorInv, RecordInv
  <2> QED
    BY <2>1, <2>2
<1>14. ObserveInv'
  <2>1. \A u \in todo' : u \in Tx /\ u # tx
    BY <1>1 DEF TypeOK, Seen
  <2>2. \A u \in todo' : mined'[u] = Unmined /\ u \in branch'[lastKnown' - 1]
    BY <1>1, <1>5, <2>1 DEF EstimatorInv, ObserveInv
  <2>3. rollbacks' = 0 => \A u \in Tx :
          \/ observed'[u] <= Stored
          \/ observed'[u] <= IF step' = "register" THEN lastKnown' - 1 ELSE lastKnown'
    BY <1>1 DEF EstimatorInv, ObserveInv
  <2> QED
    BY <2>2, <2>3 DEF ObserveInv
<1>15. BinInv'
  <2> SUFFICES ASSUME NEW m \in Bins
               PROVE  /\ \A k \in DOMAIN bin'[m] : mined'[bin'[m][k]] # Unmined
                                                     /\ BinOf(bin[m][k])' = m
                      /\ IsInjective(bin'[m])
                      /\ \A k \in DOMAIN bin'[m] :
                           mined'[bin'[m][k]] = lastKnown => k >= Len(bin'[m]) - count'[m]
    BY <1>1 DEF BinInv, Bins
  <2>1. CASE m = n
    <3>1. ASSUME NEW k \in DOMAIN bin'[n]
          PROVE  mined'[bin'[n][k]] # Unmined /\ BinOf(bin[n][k])' = n
      <4>1. bin'[n][k] = tx \/ bin'[n][k] \in ToSet(bin[n])
        BY <1>9 DEF ToSet
      <4>2. lastKnown # Unmined
        BY <1>7 DEF Unmined
      <4>3. ASSUME NEW u \in ToSet(bin[n])
            PROVE  mined'[u] # Unmined /\ mined'[u] - observed'[u] = n
        <5>1. u \in Tx \ {tx} /\ mined[u] # Unmined /\ BinOf(u) = n
          BY <1>1, <1>8
        <5> QED
          BY <1>1, <1>5, <5>1 DEF BinOf
      <4>4. mined'[tx] # Unmined /\ mined'[tx] - observed'[tx] = n
        BY <1>a, <1>1, <1>5, <4>2 DEF ToConfirm
      <4> QED
        BY <4>1, <4>3, <4>4 DEF BinOf
    <3> QED
      BY <1>2, <2>1, <3>1 DEF Took
  <2>2. CASE m # n
    <3>1. bin'[m] = bin[m] /\ count'[m] = count[m]
      BY <1>1, <1>3, <2>2 DEF TypeOK
    <3>2. /\ \A k \in DOMAIN bin[m] : mined[bin[m][k]] # Unmined /\ BinOf(bin[m][k]) = m
          /\ IsInjective(bin[m])
          /\ \A k \in DOMAIN bin[m] : mined[bin[m][k]] = lastKnown => k >= Len(bin[m]) - count[m]
      BY <1>1 DEF EstimatorInv, BinInv
    <3>3. \A k \in DOMAIN bin[m] : bin[m][k] \in Tx \ {tx}
      BY <1>8 DEF ToSet
    <3>4. \A k \in DOMAIN bin[m] : mined'[bin[m][k]] = mined[bin[m][k]]
      BY <1>5, <3>3
    <3>5. ASSUME NEW k \in DOMAIN bin[m] PROVE BinOf(bin[m][k])' = m
      BY <1>1, <3>1, <3>2, <3>4 DEF BinOf
    <3> QED
      BY <3>1, <3>2, <3>4, <3>5
  <2> QED
    BY <2>1, <2>2
<1>16. ASSUME NEW k \in Layers, k # L PROVE LayerInv(k)'
  <2>1. k \in Nat /\ k < L /\ k + 1 \in Layers /\ L = Len(before)
    BY <1>b, <1>7, <1>16 DEF Layers
  <2>2. HeightOf(k) \in Nat /\ HeightOf(k) < lastKnown
    <3>1. k + 1 \in Layers /\ k \in Layers /\ k < Len(before)
      BY <2>1
    <3>2. HeightOf(k) \in 2..lastKnown /\ HeightOf(k + 1) \in 2..lastKnown
          /\ HeightOf(k + 1) = HeightOf(k) + 1
      BY <3>1, LayerHeights DEF EstimatorInv
    <3> QED
      BY <1>7, <3>2
  <2>3. Drop(k)' = Drop(k)
    BY <1>1, <1>7, <2>1 DEF Drop
  <2>4. \A m \in Bins : Held(k, m)' = Held(k, m) /\ Held(k + 1, m)' = Held(k + 1, m)
    BY <1>10, <2>1
  <2>5. \A j : \A m \in Bins : \A u \in Held(j, m)' : u \in Held(j, m) \/ mined[u] = Unmined
    <3> SUFFICES ASSUME NEW j, NEW m \in Bins, NEW u \in Held(j, m)'
                 PROVE  u \in Held(j, m) \/ mined[u] = Unmined
      OBVIOUS
    <3>1. CASE j \in Layers
      BY <1>10, <3>1
    <3>2. CASE j \notin Layers
      <4>1. Held(j, m) = ToSet(bin[m]) /\ Held(j, m)' = ToSet(bin'[m])
        BY <1>10, <3>2 DEF Held
      <4> QED
        BY <1>1, <1>3, <1>9, <4>1
    <3> QED
      BY <3>1, <3>2
  <2>6. \A j \in (k + 1)..(Len(before') + 1) : \E i \in (k + 1)..(Len(before) + 1) :
          \A m \in Bins : \A u \in Held(j, m)' : u \in Held(i, m) \/ mined[u] = Unmined
    BY <1>1, <2>5
  <2>7. \A u \in Tx : mined[u] # Unmined /\ mined[u] <= HeightOf(k) =>
          mined'[u] = mined[u] /\ observed'[u] = observed[u]
    BY <1>1, <1>5
  <2>8. \A u \in Tx : mined'[u] = HeightOf(k) => mined[u] = HeightOf(k)
    BY <1>5, <1>7, <2>2
  <2>9. k \in Layers' /\ HeightOf(k)' = HeightOf(k)
    BY <1>10
  <2> QED
    BY <2>3, <2>4, <2>6, <2>7, <2>8, <2>9, LayerKept
<1>17. LayerInv(L)'
  <2>1. LayerInv(L)
    BY <1>7 DEF EstimatorInv, StackInv
  <2>2. /\ \A m \in Bins : Held(L, m)' = Held(L, m)
        /\ \A m \in Bins : Held(L + 1, m) = ToSet(bin[m]) /\ Held(L + 1, m)' = ToSet(bin'[m])
    BY <1>7, <1>10 DEF Held
  <2>3. Drop(L)' = cur' /\ HeightOf(L)' = lastKnown
    BY <1>1, <1>7, <1>10 DEF Drop
  <2>4. /\ \A u \in ToSet(cur) : u \in Tx \ {tx} /\ BinOf(u) \in Bins
        /\ \A u \in D : u \in Tx \ {tx} /\ BinOf(u) = n
        /\ ToSet(cur') = ToSet(cur) \cup D
    BY <1>1, <1>2, <1>7, <1>8, LayerFacts DEF Took
  <2>5. \A u \in ToSet(cur) : BinOf(u)' = BinOf(u)
    BY <1>6, <2>4
  <2>6. \A u \in D : BinOf(u)' = n
    BY <1>6, <2>4
  <2>7. ASSUME NEW m \in Bins PROVE BinLayerInv(L, m)'
    <3>1. BinLayerInv(L, m)
      BY <2>1 DEF LayerInv
    <3>2. \A u \in Held(L, m) : u \in Tx \ {tx}
      BY <1>1, <3>1, HeldTypes DEF BinLayerInv, EstimatorInv
    <3>3. \A u \in Held(L, m)' : mined'[u] # Unmined /\ mined'[u] < lastKnown
                                  /\ BinOf(u)' = m
      BY <1>5, <1>6, <1>7, <2>2, <3>1, <3>2 DEF BinLayerInv
    <3>4. Held(L, m) = {u \in ToSet(bin[m]) : mined[u] # lastKnown}
                         \cup {u \in ToSet(cur) : BinOf(u) = m}
      BY <1>7, <2>2, <3>1 DEF BinLayerInv
    <3>5. Held(L, m) = {u \in ToSet(bin'[m]) : mined'[u] # lastKnown}
                         \cup {u \in ToSet(cur') : BinOf(u)' = m}
      <4>1. CASE m = n
        <5>1. {u \in ToSet(bin'[n]) : mined'[u] # lastKnown}
                = {u \in ToSet(bin[n]) : mined[u] # lastKnown} \ D
          BY <1>1, <1>5, <1>8, <1>9
        <5>2. {u \in ToSet(cur') : BinOf(u)' = n} = {u \in ToSet(cur) : BinOf(u) = n} \cup D
          BY <2>4, <2>5, <2>6
        <5>3. D \subseteq {u \in ToSet(bin[n]) : mined[u] # lastKnown}
          BY <1>2 DEF Took
        <5> QED
          BY <3>4, <4>1, <5>1, <5>2, <5>3
      <4>2. CASE m # n
        <5>1. {u \in ToSet(bin'[m]) : mined'[u] # lastKnown}
                = {u \in ToSet(bin[m]) : mined[u] # lastKnown}
          BY <1>3, <1>5, <1>8, <4>2
        <5>2. {u \in ToSet(cur') : BinOf(u)' = m} = {u \in ToSet(cur) : BinOf(u) = m}
          BY <2>4, <2>5, <2>6, <4>2
        <5> QED
          BY <3>4, <5>1, <5>2
      <4> QED
        BY <4>1, <4>2
    <3>6. ASSUME NEW u \in ToSet(cur'), BinOf(u)' = m
          PROVE  Cardinality(ToSet(bin'[m])) = BinSize
      <4>1. (\E v \in ToSet(cur) : BinOf(v) = m) => Cardinality(ToSet(bin[m])) = BinSize
        BY <1>7, <2>2, <3>1 DEF BinLayerInv
      <4>2. CASE m # n
        <5>1. u \in ToSet(cur) /\ BinOf(u) = m
          BY <2>4, <2>5, <2>6, <3>6, <4>2
        <5> QED
          BY <1>3, <4>1, <4>2, <5>1
      <4>3. CASE m = n /\ D # {}
        <5>1. bin'[n] \in Seq(Tx) /\ IsInjective(bin'[n]) /\ Len(bin'[n]) = BinSize
          BY <1>2, <4>3 DEF Took
        <5> QED
          BY <4>3, <5>1, InjectiveLen
      <4>4. CASE m = n /\ D = {}
        <5>1. u \in ToSet(cur) /\ BinOf(u) = m
          BY <2>4, <2>5, <3>6, <4>4
        <5>2. Cardinality(ToSet(bin[n])) = BinSize
          BY <4>1, <4>4, <5>1
        <5>3. bin[n] \in Seq(Tx) /\ IsInjective(bin[n])
          BY <1>1 DEF TypeOK, EstimatorInv, BinInv
        <5>4. Len(bin[n]) = BinSize
          BY <5>2, <5>3, InjectiveLen
        <5>5. Len(bin[n]) < BinSize
          BY <1>2, <4>4 DEF Took
        <5> QED
          BY <5>4, <5>5, Constants
      <4> QED
        BY <4>2, <4>3, <4>4
    <3> QED
      BY <2>2, <2>3, <3>1, <3>3, <3>5, <3>6 DEF BinLayerInv
  <2>8. ASSUME NEW u \in Tx, mined'[u] = lastKnown
        PROVE  u \in ToSet(bin'[BinOf(u)'])
    <3>1. CASE u = tx
      BY <1>6, <1>9, <3>1
    <3>2. CASE u # tx
      <4>1. mined[u] = lastKnown /\ BinOf(u)' = BinOf(u)
        BY <1>5, <1>6, <2>8, <3>2
      <4>2. BinOf(u) \in Bins
        BY <1>7, <4>1 DEF EstimatorInv, RecordInv, Unmined
      <4>3. u \in ToSet(bin[BinOf(u)])
        BY <1>7, <2>1, <2>2, <4>1, <4>2 DEF LayerInv
      <4>4. u \notin D
        BY <1>2, <4>1 DEF Took
      <4> QED
        BY <1>3, <1>9, <4>1, <4>2, <4>3, <4>4
    <3> QED
      BY <3>1, <3>2
  <2>9. ASSUME NEW u \in ToSet(cur')
        PROVE  BinOf(u)' \in Bins /\ \A m \in Bins : u \notin ToSet(bin'[m])
    <3>1. CASE u \in ToSet(cur)
      <4>1. L + 1 \in (L + 1)..(Len(before) + 1)
        BY <1>b
      <4>2. \A m \in Bins : u \notin ToSet(bin[m])
        BY <1>7, <2>1, <2>2, <3>1, <4>1 DEF LayerInv
      <4> QED
        BY <1>3, <1>9, <2>4, <2>5, <3>1, <4>2
    <3>2. CASE u \in D
      BY <1>1, <1>3, <1>8, <1>9, <2>4, <2>6, <3>2
    <3> QED
      BY <2>4, <3>1, <3>2
  <2>10. \A j \in (L + 1)..(Len(before') + 1) : j = L + 1
    BY <1>b, <1>1
  <2>11. IsInjective(cur')
    BY <1>2 DEF Took
  <2>12. \A u \in Tx : mined'[u] = HeightOf(L)' => u \in Held(L + 1, BinOf(u))'
    <3> SUFFICES ASSUME NEW u \in Tx, mined'[u] = lastKnown
                 PROVE  u \in Held(L + 1, BinOf(u))'
      BY <2>3
    <3>1. BinOf(u)' \in Bins /\ lastKnown # Unmined
      BY <1>1, <1>7, <1>13 DEF RecordInv, Bins, Unmined
    <3> QED
      BY <1>7, <1>10, <2>8 DEF Held
  <2> QED
    BY <2>2, <2>3, <2>7, <2>9, <2>10, <2>11, <2>12 DEF LayerInv, Bins
<1>18. StackInv'
  BY <1>10, <1>16, <1>17 DEF StackInv
<1>19. NoFailure'
  BY <1>1 DEF EstimatorInv, NoFailure
<1> QED
  BY <1>11, <1>12, <1>13, <1>14, <1>15, <1>18, <1>19 DEF EstimatorInv

\* Trim removes d elements, one or none.
LEMMA TrimFacts ==
  ASSUME NEW T, NEW s \in Seq(T), Len(s) > 0, NEW d \in {0, 1},
         d = 1 <=> Len(s) > MaxRollback
  PROVE  /\ Trim(s) \in Seq(T) /\ Len(Trim(s)) = Len(s) - d
         /\ \A k \in 1..(Len(s) - d) : Trim(s)[k] = s[k + d]
<1>1. Len(s) \in Nat /\ s # <<>>
  OBVIOUS
<1>2. CASE d = 0
  <2>1. Trim(s) = s
    BY <1>2 DEF Trim
  <2> QED
    BY <1>1, <1>2, <2>1
<1>3. CASE d = 1
  <2>1. Trim(s) = Tail(s)
    BY <1>3 DEF Trim
  <2>2. /\ Tail(s) \in Seq(T) /\ Len(Tail(s)) = Len(s) - 1
        /\ \A k \in 1..(Len(s) - 1) : Tail(s)[k] = s[k + 1]
    BY <1>1, HeadTailProperties
  <2> QED
    BY <1>3, <2>1, <2>2
<1> QED
  BY <1>2, <1>3

LEMMA EndRegisterKeeps ==
  ASSUME TypeOK, EstimatorInv, EndRegister
  PROVE  TypeOK' /\ EstimatorInv'
<1>1. /\ step = "register" /\ step' = "idle" /\ todo = {}
      /\ UNCHANGED <<lastKnown, num, mined, bin, cached, todo, count, cur, undo, branch,
                     rollbacks, failed>>
      /\ observed' = [tx \in Tx |-> IF TooOld(tx) THEN Unmined ELSE observed[tx]]
  BY DEF EndRegister
<1>2. PICK L \in Nat : L = Len(before)
  BY DEF TypeOK
<1>3. /\ Len(dropped) \in Nat /\ L = Len(dropped) + 1 /\ Len(dropped) <= MaxRollback
      /\ Layers = 1..L /\ Len(branch) \in Nat /\ lastKnown \in Nat
      /\ lastKnown = Len(branch) + 1 /\ L <= Len(branch)
  <2>1. BranchInv
    BY DEF EstimatorInv
  <2>2. Len(dropped) \in Nat /\ L = Len(dropped) + 1
    BY <1>1, <1>2, <2>1, LayerHeights
  <2>3. Layers = 1..L /\ Layers # {}
    BY <1>2, <2>2 DEF Layers
  <2> QED
    BY <1>2, <2>1, <2>2, <2>3, LayerHeights DEF TypeOK, BranchInv
<1>4. PICK d \in {0, 1} : d = 1 <=> L > MaxRollback
  OBVIOUS
<1>5. /\ before' \in Seq([Bins -> SUBSET Tx]) /\ Len(before') = L - d
      /\ \A k \in 1..(L - d) : before'[k] = before[k + d]
  <2>1. before \in Seq([Bins -> SUBSET Tx]) /\ before' = Trim(before) /\ Len(before) > 0
    BY <1>2, <1>3 DEF TypeOK, EndRegister
  <2> QED
    BY <1>2, <1>4, <2>1, TrimFacts
<1>6. /\ dropped' \in Seq(Seq(Tx)) /\ Len(dropped') = L - d
      /\ \A k \in 1..(L - d) : dropped'[k] = Drop(k + d)
  <2> DEFINE a == Append(dropped, cur)
  <2>1. dropped \in Seq(Seq(Tx)) /\ cur \in Seq(Tx) /\ dropped' = Trim(a)
    BY DEF TypeOK, EndRegister
  <2>2. /\ a \in Seq(Seq(Tx)) /\ Len(a) = L
        /\ \A k \in 1..Len(dropped) : a[k] = dropped[k]
        /\ a[Len(dropped) + 1] = cur
    BY <1>3, <2>1, AppendProperties
  <2> HIDE DEF a
  <2>3. \A k \in 1..L : a[k] = Drop(k)
    BY <1>3, <2>2 DEF Drop
  <2>4. /\ Trim(a) \in Seq(Seq(Tx)) /\ Len(Trim(a)) = L - d
        /\ \A k \in 1..(L - d) : Trim(a)[k] = a[k + d]
    <3>1. a \in Seq(Seq(Tx)) /\ Len(a) > 0 /\ Len(a) = L /\ (d = 1 <=> Len(a) > MaxRollback)
      BY <1>3, <1>4, <2>2
    <3>2. /\ Trim(a) \in Seq(Seq(Tx)) /\ Len(Trim(a)) = Len(a) - d
          /\ \A k \in 1..(Len(a) - d) : Trim(a)[k] = a[k + d]
      BY <3>1, TrimFacts
    <3> QED
      BY <3>1, <3>2
  <2>5. \A k \in 1..(L - d) : k + d \in 1..L
    BY <1>3, <1>4
  <2> QED
    BY <2>1, <2>3, <2>4, <2>5
<1>7. L - d \in Nat /\ L - d <= MaxRollback /\ Layers' = 1..(L - d)
  BY <1>3, <1>4, <1>5, Constants DEF Layers
<1>8. \A tx \in Tx : /\ observed'[tx] = observed[tx] \/ observed'[tx] = Unmined
                     /\ mined[tx] # Unmined => observed'[tx] = observed[tx]
  BY <1>1 DEF TooOld
<1>9. \A tx \in Tx : mined[tx] # Unmined => BinOf(tx)' = BinOf(tx)
  BY <1>1, <1>8 DEF BinOf
<1>10. TypeOK'
  <2>1. observed' \in [Tx -> 0..MaxHeight]
    BY <1>1, Constants DEF TypeOK, Unmined
  <2>2. Len(dropped') <= MaxRollback
    BY <1>6, <1>7
  <2>3. Len(before') = Len(dropped') + (IF step' = "register" THEN 1 ELSE 0)
    BY <1>1, <1>5, <1>6, <1>7
  <2>4. todo' \subseteq Seen'
    BY <1>1
  <2> QED
    BY <1>1, <1>5, <1>6, <2>1, <2>2, <2>3, <2>4 DEF TypeOK, Bins
<1>11. BranchInv'
  <2>1. Len(before') <= Len(branch)
    BY <1>3, <1>4, <1>5
  <2> QED
    BY <1>1, <2>1 DEF EstimatorInv, BranchInv
<1>12. RecordInv'
  BY <1>1, <1>8, <1>9 DEF EstimatorInv, RecordInv, Bins
<1>13. ObserveInv'
  <2> SUFFICES ASSUME rollbacks = 0, NEW tx \in Tx
               PROVE  observed'[tx] <= Stored \/ observed'[tx] <= lastKnown
    BY <1>1 DEF ObserveInv
  <2>1. observed[tx] <= Stored \/ observed[tx] <= lastKnown - 1
    BY <1>1 DEF EstimatorInv, ObserveInv
  <2>2. observed[tx] \in Nat
    BY Constants DEF TypeOK
  <2> QED
    BY <1>3, <1>8, <2>1, <2>2, Constants DEF Unmined
<1>14. BinInv'
  <2> SUFFICES ASSUME NEW n \in Bins
               PROVE  /\ \A k \in DOMAIN bin[n] : mined[bin[n][k]] # Unmined
                                                    /\ BinOf(bin[n][k])' = n
                      /\ IsInjective(bin[n])
    BY <1>1 DEF BinInv, Bins
  <2>1. /\ \A k \in DOMAIN bin[n] : bin[n][k] \in Tx /\ mined[bin[n][k]] # Unmined
                                    /\ BinOf(bin[n][k]) = n
        /\ IsInjective(bin[n])
    BY DEF EstimatorInv, BinInv, TypeOK
  <2>2. ASSUME NEW k \in DOMAIN bin[n] PROVE BinOf(bin[n][k])' = n
    BY <1>1, <1>8, <2>1 DEF BinOf
  <2> QED
    BY <2>1, <2>2
<1>15. StackInv'
  <2> SUFFICES ASSUME NEW k \in Layers' PROVE LayerInv(k)'
    BY DEF StackInv
  <2>1. k \in 1..(L - d) /\ k + d \in Layers /\ k \in Nat
    BY <1>3, <1>4, <1>7
  <2>2. HeightOf(k)' = HeightOf(k + d)
    BY <1>1, <1>2, <1>3, <1>4, <1>5, <2>1 DEF HeightOf
  <2>3. Drop(k)' = Drop(k + d)
    BY <1>6, <1>7, <2>1 DEF Drop
  <2>4. ASSUME NEW j \in 1..(L - d + 1), NEW n \in Bins PROVE Held(j, n)' = Held(j + d, n)
    <3>1. CASE j \in 1..(L - d)
      <4>1. j + d \in Layers
        BY <1>3, <1>4, <3>1
      <4> QED
        BY <1>5, <1>7, <3>1, <4>1 DEF Held
    <3>2. CASE j = L - d + 1
      <4>1. j + d \notin Layers /\ j \notin Layers'
        BY <1>3, <1>4, <1>7, <3>2
      <4> QED
        BY <1>1, <4>1 DEF Held
    <3> QED
      BY <1>3, <1>4, <3>1, <3>2
  <2>5. \A n \in Bins : Held(k, n)' = Held(k + d, n) /\ Held(k + 1, n)' = Held(k + d + 1, n)
    <3>1. k \in 1..(L - d + 1) /\ k + 1 \in 1..(L - d + 1) /\ k + 1 + d = k + d + 1
      BY <1>3, <1>4, <2>1
    <3> QED
      BY <2>4, <3>1
  <2>6. ASSUME NEW j \in (k + 1)..(Len(before') + 1)
        PROVE  \E m \in (k + d + 1)..(Len(before) + 1) : \A n \in Bins :
                 \A tx \in Held(j, n)' : tx \in Held(m, n) \/ mined[tx] = Unmined
    <3>1. j \in 1..(L - d + 1) /\ j + d \in (k + d + 1)..(Len(before) + 1)
      BY <1>2, <1>3, <1>4, <1>5, <2>1
    <3> QED
      BY <2>4, <3>1
  <2>7. \A tx \in Tx : mined[tx] # Unmined /\ mined[tx] <= HeightOf(k + d) =>
          mined'[tx] = mined[tx] /\ observed'[tx] = observed[tx]
    BY <1>1, <1>8
  <2>8. \A tx \in Tx : mined'[tx] = HeightOf(k + d) => mined[tx] = HeightOf(k + d)
    BY <1>1
  <2> QED
    BY <2>1, <2>2, <2>3, <2>5, <2>6, <2>7, <2>8, LayerKept
<1>16. NoFailure'
  BY <1>1 DEF EstimatorInv, NoFailure
<1> QED
  BY <1>10, <1>11, <1>12, <1>13, <1>14, <1>15, <1>16 DEF EstimatorInv

\* Taking the last block back leaves a bin with what it held before the block,
\* and what the block dropped from it fits in.
LEMMA UnfilledFacts ==
  ASSUME TypeOK, EstimatorInv, step # "register", dropped # <<>>, NEW n \in Bins
  PROVE  /\ Len(DroppedFrom(n)) \in Nat /\ Cardinality(Filled(n)) \in Nat
         /\ Len(DroppedFrom(n)) <= Cardinality(Filled(n))
         /\ Unfilled(n) \in Seq(Tx) /\ Len(Unfilled(n)) <= BinSize
         /\ IsInjective(Unfilled(n))
         /\ ToSet(Unfilled(n)) = Held(Len(before), n)
<1> DEFINE s == bin[n]
           d == Last(dropped)
           P == {k \in DOMAIN d : BinOf(d[k]) = n}
           D == DroppedFrom(n)
           F == Filled(n)
           H == Held(Len(before), n)
           X == {tx \in ToSet(s) : mined[tx] # lastKnown}
           Y == {s[k] : k \in F}
<1>1. PICK L \in Nat : L = Len(before)
  BY DEF TypeOK
<1>2. /\ L = Len(dropped) /\ L \in Layers /\ L + 1 \notin Layers
      /\ HeightOf(L) = lastKnown /\ Drop(L) = d /\ d \in Seq(Tx)
  <2>1. dropped \in Seq(Seq(Tx)) /\ BranchInv
    BY DEF TypeOK, EstimatorInv
  <2>2. L = Len(dropped)
    BY <1>1, <2>1, LayerHeights
  <2>3. L # 0
    BY <2>1, <2>2, EmptySeq
  <2>4. L \in Layers /\ L + 1 \notin Layers
    BY <1>1, <2>3 DEF Layers
  <2>5. HeightOf(L) = lastKnown
    BY <1>1, <2>1, <2>4, LayerHeights
  <2>6. Drop(L) = d
    BY <2>2 DEF Drop, Last
  <2>7. d \in Seq(Tx)
    BY <2>1, <2>4, <2>6, HeldTypes
  <2> QED
    BY <2>2, <2>4, <2>5, <2>6, <2>7
<1>3. LayerInv(L) /\ BinLayerInv(L, n)
  BY <1>2 DEF EstimatorInv, StackInv, LayerInv
<1>4. /\ s \in Seq(Tx) /\ Len(s) <= BinSize /\ IsInjective(s)
      /\ Len(s) \in Nat /\ DOMAIN s = 1..Len(s)
  <2>1. s \in Seq(Tx) /\ Len(s) <= BinSize /\ IsInjective(s)
    BY DEF TypeOK, EstimatorInv, BinInv
  <2> QED
    BY <2>1, LenProperties
<1>5. Held(L + 1, n) = ToSet(s)
  BY <1>2 DEF Held
<1>6. /\ D \in Seq(Tx) /\ IsInjective(D)
      /\ ToSet(D) = {tx \in ToSet(d) : BinOf(tx) = n}
  <2>1. Len(d) \in Nat /\ DOMAIN d = 1..Len(d) /\ P \in SUBSET (1..Len(d))
    BY <1>2, LenProperties
  <2>2. \A i \in P : d[i] \in Tx
    BY <1>2
  <2>3. \A i, j \in P : d[i] = d[j] => i = j
    BY <1>2, <1>3 DEF LayerInv, IsInjective
  <2>4. {d[i] : i \in P} = {tx \in ToSet(d) : BinOf(tx) = n}
    BY DEF ToSet
  <2>5. D = At(d, P)
    BY DEF DroppedFrom
  <2> HIDE DEF d, P, D
  <2>6. At(d, P) \in Seq(Tx)
    BY <2>1, <2>2, AtFacts
  <2>7. ToSet(At(d, P)) = {d[i] : i \in P}
    <3>1. Len(d) \in Nat /\ P \in SUBSET (1..Len(d))
      BY <2>1
    <3>2. Selects(d, P)
      BY <3>1, AtElements
    <3> QED
      BY <3>2 DEF Selects, ToSet
  <2>8. IsInjective(At(d, P))
    BY <2>1, <2>2, <2>3, AtFacts
  <2> QED
    BY <2>4, <2>5, <2>6, <2>7, <2>8
<1>7. ToSet(D) \cap ToSet(s) = {}
  <2>1. L + 1 \in (L + 1)..(Len(before) + 1)
    BY <1>1
  <2>2. \A tx \in ToSet(d) : tx \notin Held(L + 1, n)
    BY <1>2, <1>3, <2>1 DEF LayerInv
  <2> QED
    BY <1>5, <1>6, <2>2
<1>8. F \in SUBSET (1..Len(s)) /\ F \in SUBSET DOMAIN s
  BY <1>4 DEF Filled
<1>9. H = X \cup ToSet(D) /\ Cardinality(H) <= BinSize
      /\ (ToSet(D) # {} => Cardinality(ToSet(s)) = BinSize)
  <2>1. /\ H = Held(L, n) /\ HeightOf(L) = lastKnown /\ Held(L + 1, n) = ToSet(s)
        /\ Drop(L) = d /\ ToSet(D) = {tx \in ToSet(d) : BinOf(tx) = n}
    BY <1>1, <1>2, <1>5, <1>6
  <2>2. H = X \cup ToSet(D)
    <3> HIDE DEF d, D, s, H
    <3> QED
      BY <1>3, <2>1 DEF BinLayerInv
  <2>3. Cardinality(H) <= BinSize
    BY <1>3, <2>1 DEF BinLayerInv
  <2>4. ToSet(D) # {} => Cardinality(ToSet(s)) = BinSize
    <3> HIDE DEF d, D, s, H
    <3> QED
      BY <1>3, <2>1 DEF BinLayerInv
  <2> QED
    BY <2>2, <2>3, <2>4
<1>10. ToSet(s) = X \cup Y /\ X \cap Y = {} /\ X = {s[k] : k \in DOMAIN s \ F}
  BY DEF Filled, ToSet
<1>11. IsFiniteSet(Y) /\ Cardinality(Y) = Cardinality(F) /\ Cardinality(F) \in Nat
  <2> HIDE DEF s, F
  <2>1. \A i \in F : s[i] \in Tx
    BY <1>4, <1>8
  <2>2. \A i, j \in F : s[i] = s[j] => i = j
    BY <1>4, <1>8 DEF IsInjective
  <2>3. Len(s) \in Nat /\ F \in SUBSET (1..Len(s))
    BY <1>4, <1>8
  <2>4. At(s, F) \in Seq(Tx) /\ Len(At(s, F)) = Cardinality(F)
    BY <2>1, <2>3, AtFacts
  <2>5. ToSet(At(s, F)) = {s[i] : i \in F}
    <3>1. Selects(s, F)
      BY <2>3, AtElements
    <3> QED
      BY <3>1 DEF Selects, ToSet
  <2>6. IsInjective(At(s, F))
    BY <2>1, <2>2, <2>3, AtFacts
  <2>7. Cardinality(F) \in Nat
    BY <2>3, PositionsFinite
  <2> QED
    BY <2>4, <2>5, <2>6, <2>7, InjectiveLen
<1>12. /\ IsFiniteSet(ToSet(s)) /\ Cardinality(ToSet(s)) = Len(s)
       /\ IsFiniteSet(ToSet(D)) /\ Cardinality(ToSet(D)) = Len(D)
  <2> HIDE DEF s, D
  <2> QED
    BY <1>4, <1>6, InjectiveLen
<1> HIDE DEF s, d, P, D, F, H, X, Y
<1>13. Len(D) <= Cardinality(F)
  <2>1. CASE ToSet(D) = {}
    <3>1. Len(D) = 0
      BY <1>12, <2>1, FS_EmptySet
    <3> QED
      BY <1>11, <3>1
  <2>2. CASE ToSet(D) # {}
    <3>1. X \in SUBSET ToSet(s)
      BY <1>10
    <3>2. IsFiniteSet(X) /\ Cardinality(X) \in Nat
      BY <1>12, <3>1, FS_Subset, FS_CardinalityType
    <3>3. Cardinality(ToSet(s)) = Cardinality(X) + Cardinality(Y)
      <4>1. Cardinality(X \cup Y) = Cardinality(X) + Cardinality(Y) - Cardinality(X \cap Y)
        BY <1>11, <3>2, FS_Union
      <4>2. Cardinality(X \cap Y) = 0
        BY <1>10, FS_EmptySet
      <4> QED
        BY <1>10, <1>11, <3>2, <4>1, <4>2
    <3>4. Cardinality(H) = Cardinality(X) + Cardinality(ToSet(D))
      <4>1. Cardinality(X \cup ToSet(D))
              = Cardinality(X) + Cardinality(ToSet(D)) - Cardinality(X \cap ToSet(D))
        BY <1>12, <3>2, FS_Union
      <4>2. X \cap ToSet(D) = {}
        BY <1>7, <3>1
      <4>3. Cardinality(X \cap ToSet(D)) = 0
        BY <4>2, FS_EmptySet
      <4>4. Len(D) \in Nat
        BY <1>6
      <4> QED
        BY <1>9, <1>12, <3>2, <4>1, <4>3, <4>4
    <3>5. Len(D) \in Nat
      BY <1>6
    <3> QED
      BY <1>9, <1>11, <1>12, <2>2, <3>2, <3>3, <3>4, <3>5, Constants
  <2> QED
    BY <2>1, <2>2
<1>14. Unfilled(n) = At(Put(s, F, D), Kept(s, F, D))
  BY DEF Unfilled, Refilled, Put, Kept, s, F, D
<1>15. /\ Unfilled(n) \in Seq(Tx) /\ Len(Unfilled(n)) <= Len(s) /\ IsInjective(Unfilled(n))
       /\ ToSet(Unfilled(n)) = {s[k] : k \in DOMAIN s \ F} \cup ToSet(D)
  <2>1. Fills(At(Put(s, F, D), Kept(s, F, D)), s, F, D, Tx)
    BY <1>4, <1>6, <1>7, <1>8, <1>13, FillFacts
  <2> QED
    BY <1>14, <2>1 DEF Fills
<1>16. Len(Unfilled(n)) <= BinSize
  <2>1. Len(Unfilled(n)) \in Nat
    BY <1>15, LenProperties
  <2> QED
    BY <1>4, <1>15, <2>1, Constants
<1>17. ToSet(Unfilled(n)) = H
  BY <1>9, <1>10, <1>15
<1>18. Len(D) \in Nat
  BY <1>6
<1> QED
  BY <1>11, <1>13, <1>15, <1>16, <1>17, <1>18 DEF D, F, H

LEMMA FrontFacts ==
  ASSUME NEW T, NEW s \in Seq(T), Len(s) > 0
  PROVE  /\ Front(s) \in Seq(T) /\ Len(Front(s)) = Len(s) - 1
         /\ \A k \in 1..(Len(s) - 1) : Front(s)[k] = s[k]
<1>1. PICK l \in Nat : l = Len(s) - 1
  OBVIOUS
<1>2. SubSeq(s, 1, l) \in Seq(T)
  BY <1>1
<1>3. Len(SubSeq(s, 1, l)) = l
  <2>1. l = 0 \/ l >= 1
    BY <1>1
  <2> QED
    BY <1>1, <2>1
<1>4. \A k \in 1..l : SubSeq(s, 1, l)[k] = s[k]
  BY <1>1
<1> QED
  BY <1>1, <1>2, <1>3, <1>4 DEF Front

LEMMA RollbackOneKeeps ==
  ASSUME TypeOK, EstimatorInv, RollbackOne
  PROVE  /\ TypeOK' /\ EstimatorInv'
         /\ \A n \in Bins : ToSet(bin'[n]) = Last(before)[n]
<1>1. /\ step = "rollback" /\ failed = "none" /\ undo > 0 /\ RolledBack
      /\ bin' = [n \in Bins |-> Unfilled(n)]
      /\ num' = num - 1 /\ lastKnown' = lastKnown - 1 /\ undo' = undo - 1
      /\ dropped' = Front(dropped) /\ branch' = Front(branch) /\ before' = Front(before)
      /\ UNCHANGED <<observed, step, todo, count, cur, rollbacks, failed>>
  BY DEF RollbackOne
<1>2. PICK L \in Nat : L = Len(before)
  BY DEF TypeOK
<1>3. /\ L = Len(dropped) /\ Layers = 1..L /\ L > 0 /\ undo \in Nat /\ undo <= L
      /\ L \in Layers /\ L + 1 \notin Layers /\ HeightOf(L) = lastKnown
      /\ lastKnown = Len(branch) + 1 /\ lastKnown \in Nat /\ Len(branch) \in Nat
      /\ L <= Len(branch) /\ num = Len(branch) /\ rollbacks > 0
  <2>1. BranchInv
    BY DEF EstimatorInv
  <2>2. L = Len(dropped)
    BY <1>1, <1>2, <2>1, LayerHeights
  <2>3. undo \in Nat /\ undo <= L /\ L <= Len(branch) /\ num = Len(branch) /\ rollbacks > 0
    BY <1>1, <1>2, <2>1, <2>2, Constants DEF BranchInv, TypeOK
  <2>4. L > 0
    BY <1>1, <2>3
  <2>5. Layers = 1..L /\ L \in Layers /\ L + 1 \notin Layers /\ Layers # {}
    BY <1>2, <2>4 DEF Layers
  <2>6. HeightOf(L) = lastKnown /\ lastKnown = Len(branch) + 1 /\ lastKnown \in Nat
        /\ Len(branch) \in Nat
    BY <1>2, <2>1, <2>5, LayerHeights
  <2> QED
    BY <2>2, <2>3, <2>4, <2>5, <2>6
<1>4. /\ before' \in Seq([Bins -> SUBSET Tx]) /\ Len(before') = L - 1
      /\ \A k \in 1..(L - 1) : before'[k] = before[k]
  <2>1. before \in Seq([Bins -> SUBSET Tx])
    BY DEF TypeOK
  <2> QED
    BY <1>1, <1>2, <1>3, <2>1, FrontFacts
<1>5. /\ dropped' \in Seq(Seq(Tx)) /\ Len(dropped') = L - 1
      /\ \A k \in 1..(L - 1) : dropped'[k] = dropped[k]
  <2>1. dropped \in Seq(Seq(Tx))
    BY DEF TypeOK
  <2> QED
    BY <1>1, <1>3, <2>1, FrontFacts
<1>6. /\ branch' \in Seq(SUBSET Tx) /\ Len(branch') = Len(branch) - 1
      /\ \A k \in 1..(Len(branch) - 1) : branch'[k] = branch[k]
  <2>1. branch \in Seq(SUBSET Tx) /\ Len(branch) > 0
    BY <1>3 DEF TypeOK
  <2> QED
    BY <1>1, <2>1, FrontFacts
<1>7. L - 1 \in Nat /\ Layers' = 1..(L - 1)
  BY <1>3, <1>4 DEF Layers
<1>8. ASSUME NEW n \in Bins
      PROVE  /\ bin'[n] \in Seq(Tx) /\ Len(bin'[n]) <= BinSize /\ IsInjective(bin'[n])
             /\ ToSet(bin'[n]) = Held(L, n)
  <2>1. dropped # <<>>
    BY <1>3
  <2>2. bin'[n] = Unfilled(n)
    BY <1>1
  <2> QED
    BY <1>1, <1>2, <2>1, <2>2, UnfilledFacts
<1>9. ASSUME NEW tx \in Tx
      PROVE  mined'[tx] = IF mined[tx] = lastKnown THEN Unmined ELSE mined[tx]
  <2>1. ASSUME mined[tx] = lastKnown PROVE \E n \in Bins : Contains(bin[n], tx)
    <3>1. LayerInv(L) /\ mined[tx] # Unmined
      BY <1>3, <2>1 DEF EstimatorInv, StackInv, Unmined
    <3>2. BinOf(tx) \in Bins
      BY <3>1 DEF EstimatorInv, RecordInv
    <3>3. tx \in Held(L + 1, BinOf(tx))
      BY <1>3, <2>1, <3>1 DEF LayerInv
    <3>4. tx \in ToSet(bin[BinOf(tx)])
      BY <1>3, <3>3 DEF Held
    <3>5. bin[BinOf(tx)] \in Seq(Tx)
      BY <3>2 DEF TypeOK
    <3> QED
      BY <3>2, <3>4, <3>5 DEF ToSet, Contains
  <2> QED
    BY <1>1, <2>1 DEF RolledBack
<1>10. \A tx \in Tx : mined[tx] \in Nat /\ mined[tx] <= lastKnown
  BY MinedHeights
<1>11. TypeOK'
  <2>1. lastKnown' \in 0..MaxHeight /\ num' \in 0..MaxHeight
    <3>1. lastKnown \in 0..MaxHeight /\ num \in 0..MaxHeight
      BY DEF TypeOK
    <3> QED
      BY <1>1, <1>3, <3>1, Constants
  <2>2. mined' \in [Tx -> 0..MaxHeight]
    <3>1. mined \in [Tx -> 0..MaxHeight] /\ 0 \in 0..MaxHeight
      BY Constants DEF TypeOK
    <3> QED
      BY <1>1, <3>1 DEF RolledBack, Unmined
  <2>3. bin' \in [Bins -> Seq(Tx)] /\ \A n \in Bins : Len(bin'[n]) <= BinSize
    BY <1>1, <1>8
  <2>4. Len(dropped') <= MaxRollback /\ undo' \in 0..MaxRollback
    <3>1. Len(dropped) <= MaxRollback /\ undo \in 0..MaxRollback
      BY DEF TypeOK
    <3> QED
      BY <1>1, <1>3, <1>5, <3>1, Constants
  <2>5. cached' = Nil
    BY <1>1 DEF RolledBack
  <2>6. Len(before') = Len(dropped') + (IF step' = "register" THEN 1 ELSE 0)
    BY <1>1, <1>4, <1>5, <1>7
  <2>7. todo' \subseteq Seen'
    BY <1>1 DEF TypeOK, Seen
  <2> QED
    BY <1>1, <1>4, <1>5, <1>6, <2>1, <2>2, <2>3, <2>4, <2>5, <2>6, <2>7 DEF TypeOK, Bins
<1>12. BranchInv'
  <2>1. Len(branch) < MaxHeight
    BY DEF EstimatorInv, BranchInv
  <2>2. num' = Len(branch') /\ Len(branch') < MaxHeight /\ lastKnown' = Len(branch') + 1
    BY <1>1, <1>3, <1>6, <2>1, Constants
  <2>3. Len(before') <= Len(branch') /\ undo' <= Len(dropped')
    BY <1>1, <1>3, <1>4, <1>5, <1>6
  <2> QED
    BY <1>1, <1>3, <2>2, <2>3 DEF BranchInv
<1>13. ASSUME NEW tx \in Tx, mined'[tx] # Unmined
       PROVE  /\ mined'[tx] = mined[tx] /\ mined[tx] # Unmined /\ mined[tx] < lastKnown
              /\ BinOf(tx)' = BinOf(tx)
  BY <1>1, <1>3, <1>9, <1>10, <1>13 DEF BinOf
<1>14. RecordInv'
  <2> SUFFICES ASSUME NEW tx \in Tx, mined'[tx] # Unmined
               PROVE  /\ observed[tx] # Unmined /\ BinOf(tx)' \in Bins
                      /\ mined'[tx] \in 2..lastKnown' /\ tx \in branch'[mined'[tx] - 1]
    BY <1>1 DEF RecordInv, Bins, Unmined
  <2>1. /\ observed[tx] # Unmined /\ BinOf(tx) \in Bins
        /\ mined[tx] \in 2..lastKnown /\ tx \in branch[mined[tx] - 1]
    BY <1>13 DEF EstimatorInv, RecordInv
  <2>2. mined[tx] - 1 \in 1..(Len(branch) - 1) /\ mined[tx] \in 2..lastKnown'
    <3>1. mined[tx] \in Nat /\ mined[tx] >= 2 /\ mined[tx] < lastKnown
      BY <1>10, <1>13, <2>1
    <3> QED
      BY <1>1, <1>3, <3>1
  <2> QED
    BY <1>6, <1>13, <2>1, <2>2
<1>15. ObserveInv'
  BY <1>1, <1>3 DEF ObserveInv
<1>16. ASSUME NEW n \in Bins, NEW tx \in ToSet(bin'[n])
       PROVE  /\ tx \in Tx /\ mined'[tx] = mined[tx] /\ mined'[tx] # Unmined
              /\ mined'[tx] - observed'[tx] = n
  <2>1. tx \in Held(L, n) /\ tx \in Tx
    BY <1>8, HeldTypes DEF EstimatorInv
  <2>2. mined[tx] # Unmined /\ mined[tx] < lastKnown /\ BinOf(tx) = n
    BY <1>3, <2>1 DEF EstimatorInv, StackInv, LayerInv, BinLayerInv
  <2>3. mined'[tx] = mined[tx]
    BY <1>3, <1>9, <1>10, <2>1, <2>2
  <2> QED
    BY <1>1, <2>1, <2>2, <2>3 DEF BinOf
<1>17. BinInv'
  <2> SUFFICES ASSUME NEW n \in Bins
               PROVE  /\ \A k \in DOMAIN bin'[n] : mined'[bin'[n][k]] # Unmined
                                                    /\ BinOf(bin[n][k])' = n
                      /\ IsInjective(bin'[n])
    BY <1>1 DEF BinInv, Bins
  <2>1. ASSUME NEW k \in DOMAIN bin'[n]
        PROVE  mined'[bin'[n][k]] # Unmined /\ BinOf(bin[n][k])' = n
    <3>1. bin'[n][k] \in ToSet(bin'[n])
      BY DEF ToSet
    <3> QED
      BY <1>16, <3>1 DEF BinOf
  <2> QED
    BY <1>8, <2>1
<1>18. StackInv'
  <2> SUFFICES ASSUME NEW k \in Layers' PROVE LayerInv(k)'
    BY DEF StackInv
  <2>1. k \in 1..(L - 1) /\ k \in Layers /\ k + 1 \in Layers /\ k \in Nat
    BY <1>3, <1>7
  <2>2. HeightOf(k)' = HeightOf(k) /\ HeightOf(k) \in Nat /\ HeightOf(k) < lastKnown
        /\ HeightOf(k) # Unmined
    <3>1. HeightOf(k)' = HeightOf(k)
      BY <1>1, <1>2, <1>3, <1>4, <2>1 DEF HeightOf
    <3>2. HeightOf(k) < lastKnown
      BY <1>2, <1>3, <2>1 DEF HeightOf
    <3>3. HeightOf(k) \in 2..lastKnown
      BY <2>1, LayerHeights DEF EstimatorInv
    <3> QED
      BY <1>3, <3>1, <3>2, <3>3 DEF Unmined
  <2>3. Drop(k)' = Drop(k)
    BY <1>3, <1>5, <1>7, <2>1 DEF Drop
  <2>4. ASSUME NEW j \in 1..L, NEW n \in Bins PROVE Held(j, n)' = Held(j, n)
    <3>1. CASE j \in 1..(L - 1)
      BY <1>3, <1>4, <1>7, <3>1 DEF Held
    <3>2. CASE j = L
      <4>1. j \notin Layers'
        BY <1>3, <1>7, <3>2
      <4>2. Held(j, n)' = ToSet(bin'[n])
        BY <4>1 DEF Held
      <4> QED
        BY <1>8, <3>2, <4>2
    <3> QED
      BY <1>3, <3>1, <3>2
  <2>5. \A n \in Bins : Held(k, n)' = Held(k, n) /\ Held(k + 1, n)' = Held(k + 1, n)
    BY <1>3, <2>1, <2>4
  <2>6. ASSUME NEW j \in (k + 1)..(Len(before') + 1)
        PROVE  \E m \in (k + 1)..(Len(before) + 1) : \A n \in Bins :
                 \A tx \in Held(j, n)' : tx \in Held(m, n) \/ mined[tx] = Unmined
    <3>1. j \in 1..L /\ j \in (k + 1)..(Len(before) + 1)
      BY <1>2, <1>3, <1>4, <2>1
    <3> QED
      BY <2>4, <3>1
  <2>7. \A tx \in Tx : mined[tx] # Unmined /\ mined[tx] <= HeightOf(k) =>
          mined'[tx] = mined[tx] /\ observed'[tx] = observed[tx]
    BY <1>1, <1>3, <1>9, <1>10, <2>2
  <2>8. \A tx \in Tx : mined'[tx] = HeightOf(k) => mined[tx] = HeightOf(k)
    BY <1>13, <2>2
  <2> QED
    BY <2>1, <2>2, <2>3, <2>5, <2>6, <2>7, <2>8, LayerKept
<1>19. NoFailure'
  BY <1>1 DEF NoFailure
<1>20. \A n \in Bins : ToSet(bin'[n]) = Last(before)[n]
  BY <1>2, <1>3, <1>8 DEF Held, Last
<1> QED
  BY <1>11, <1>12, <1>14, <1>15, <1>17, <1>18, <1>19, <1>20 DEF EstimatorInv

LEMMA ObserveKeeps ==
  ASSUME TypeOK, EstimatorInv, NEW tx \in Tx, NEW height \in BestHeights,
         ObserveTransaction(tx, height)
  PROVE  TypeOK' /\ EstimatorInv'
<1>1. /\ UNCHANGED <<lastKnown, num, mined, bin, dropped, cached, step, todo, count, cur,
                     undo, branch, before, rollbacks, failed>>
      /\ observed' = [observed EXCEPT ![tx] = height]
      /\ step = "idle" /\ tx \notin Seen /\ height > 0
  BY DEF ObserveTransaction, Free, loop, env
<1>2. observed[tx] = Unmined /\ mined[tx] = Unmined
  BY <1>1 DEF Seen, EstimatorInv, RecordInv
<1>3. /\ height \in Nat /\ height \in 0..MaxHeight
      /\ rollbacks = 0 => height <= Stored \/ height <= lastKnown
  <2>1. lastKnown \in 0..MaxHeight
    BY DEF TypeOK
  <2>2. height = Stored \/ height = lastKnown - 1 \/ height = lastKnown
    BY DEF BestHeights
  <2> QED
    BY <1>1, <2>1, <2>2, Constants
<1>4. observed'[tx] = height /\ \A u \in Tx \ {tx} : observed'[u] = observed[u]
  BY <1>1 DEF TypeOK
<1>5. RecordInv' /\ BinInv' /\ StackInv'
  <2>1. \A u \in Tx : mined[u] # Unmined => observed'[u] = observed[u]
    BY <1>2, <1>4
  <2> QED
    BY <1>1, <2>1, Quiet
<1>6. TypeOK'
  <2>1. observed' \in [Tx -> 0..MaxHeight]
    BY <1>1, <1>3 DEF TypeOK
  <2>2. todo' \subseteq Seen'
    <3>1. todo \subseteq Seen
      BY DEF TypeOK
    <3>2. Seen \subseteq Seen'
      BY <1>1, <1>2, <1>4 DEF Seen
    <3> QED
      BY <1>1, <3>1, <3>2
  <2> QED
    BY <1>1, <2>1, <2>2 DEF TypeOK, Bins
<1>7. BranchInv' /\ NoFailure'
  BY <1>1 DEF EstimatorInv, BranchInv, NoFailure
<1>8. ObserveInv'
  <2>1. rollbacks = 0 => \A u \in Tx : observed[u] <= Stored \/ observed[u] <= lastKnown
    BY <1>1 DEF EstimatorInv, ObserveInv
  <2> QED
    BY <1>1, <1>3, <1>4, <2>1 DEF ObserveInv
<1> QED
  BY <1>5, <1>6, <1>7, <1>8 DEF EstimatorInv

LEMMA BreakOnKeeps ==
  ASSUME TypeOK, EstimatorInv, NEW tx \in Tx, BreakOn(tx)
  PROVE  TypeOK' /\ EstimatorInv'
<1>1. /\ UNCHANGED <<lastKnown, num, observed, mined, bin, dropped, cached, step, todo,
                     count, cur, undo, branch, before, rollbacks>>
      /\ step = "register" /\ tx \in todo
      /\ mined[tx] = Unmined => ToConfirm(tx) < 1
      /\ failed' = IF mined[tx] # Unmined THEN "mined" ELSE "index"
  BY DEF BreakOn, Registering, estimator, loop
<1>2. mined[tx] = Unmined /\ failed' = "index" /\ lastKnown - observed[tx] < 1
  BY <1>1 DEF EstimatorInv, ObserveInv, ToConfirm
<1>3. rollbacks > 0 \/ lastKnown <= Stored
  <2>1. ASSUME rollbacks = 0 PROVE observed[tx] <= Stored \/ observed[tx] <= lastKnown - 1
    BY <1>1, <2>1 DEF EstimatorInv, ObserveInv
  <2>2. rollbacks \in Nat
    BY Constants DEF TypeOK
  <2> QED
    BY <1>2, <2>1, <2>2, MinedHeights, Constants
<1>4. RecordInv' /\ BinInv' /\ StackInv'
  BY <1>1, Quiet
<1>5. TypeOK'
  BY <1>1, <1>2 DEF TypeOK, Bins, Seen
<1>6. BranchInv' /\ ObserveInv'
  BY <1>1 DEF EstimatorInv, BranchInv, ObserveInv
<1>7. NoFailure'
  BY <1>1, <1>2, <1>3 DEF NoFailure
<1> QED
  BY <1>4, <1>5, <1>6, <1>7 DEF EstimatorInv

LEMMA SkipTxKeeps ==
  ASSUME TypeOK, EstimatorInv, NEW tx \in Tx, SkipTx(tx)
  PROVE  TypeOK' /\ EstimatorInv'
<1>1. /\ UNCHANGED <<lastKnown, num, observed, mined, bin, dropped, cached, step,
                     count, cur, undo, branch, before, rollbacks, failed>>
      /\ todo' \subseteq todo
  BY DEF SkipTx, Registering, estimator, env
<1>2. RecordInv' /\ BinInv' /\ StackInv'
  BY <1>1, Quiet
<1>3. TypeOK'
  BY <1>1 DEF TypeOK, Bins, Seen
<1>4. BranchInv' /\ NoFailure'
  BY <1>1 DEF EstimatorInv, BranchInv, NoFailure
<1>5. ObserveInv'
  BY <1>1 DEF EstimatorInv, ObserveInv
<1> QED
  BY <1>2, <1>3, <1>4, <1>5 DEF EstimatorInv

LEMMA RollbackKeeps ==
  ASSUME TypeOK, EstimatorInv, NEW n \in 1..MaxRollback, Rollback(n)
  PROVE  TypeOK' /\ EstimatorInv'
<1>1. /\ UNCHANGED <<lastKnown, num, observed, mined, bin, dropped, cached, todo,
                     count, cur, branch, before, failed>>
      /\ step = "idle" /\ step' = "rollback" /\ undo' = n /\ n <= Len(dropped)
      /\ rollbacks < MaxRollbacks /\ rollbacks' = rollbacks + 1
  BY DEF Rollback, Free, estimator
<1>2. rollbacks' \in 0..MaxRollbacks /\ rollbacks' > 0
  BY <1>1, Constants DEF TypeOK
<1>3. RecordInv' /\ BinInv' /\ StackInv'
  BY <1>1, Quiet
<1>4. TypeOK'
  <2>1. undo' \in 0..MaxRollback
    BY <1>1, Constants
  <2> QED
    BY <1>1, <1>2, <2>1 DEF TypeOK, Bins, Seen
<1>5. BranchInv'
  BY <1>1, <1>2 DEF EstimatorInv, BranchInv
<1>6. ObserveInv'
  BY <1>1, <1>2 DEF ObserveInv
<1>7. NoFailure'
  BY <1>1 DEF Rollback, Free, NoFailure
<1> QED
  BY <1>3, <1>4, <1>5, <1>6, <1>7 DEF EstimatorInv

LEMMA EndRollbackKeeps ==
  ASSUME TypeOK, EstimatorInv, EndRollback
  PROVE  TypeOK' /\ EstimatorInv'
<1>1. /\ UNCHANGED <<lastKnown, num, observed, mined, bin, dropped, cached, todo,
                     count, cur, undo, branch, before, rollbacks>>
      /\ step = "rollback" /\ step' = "idle"
      /\ undo > 0 => \E n \in Bins : Len(DroppedFrom(n)) > Cardinality(Filled(n))
      /\ failed' = IF undo > 0 THEN "illegal" ELSE "none"
  BY DEF EndRollback, estimator
<1>2. ~ (undo > 0)
  <2> SUFFICES ASSUME undo > 0 PROVE FALSE
    OBVIOUS
  <2>1. undo <= Len(dropped) /\ undo \in Nat /\ Len(dropped) \in Nat
    BY <1>1, Constants DEF EstimatorInv, BranchInv, TypeOK
  <2>2. dropped # <<>>
    BY <2>1
  <2>3. PICK n \in Bins : Len(DroppedFrom(n)) > Cardinality(Filled(n))
    BY <1>1
  <2>4. /\ Len(DroppedFrom(n)) \in Nat /\ Cardinality(Filled(n)) \in Nat
        /\ Len(DroppedFrom(n)) <= Cardinality(Filled(n))
    BY <1>1, <2>2, UnfilledFacts
  <2> QED
    BY <2>3, <2>4
<1>3. RecordInv' /\ BinInv' /\ StackInv'
  BY <1>1, Quiet
<1>4. TypeOK'
  BY <1>1, <1>2 DEF TypeOK, Bins, Seen
<1>5. BranchInv' /\ NoFailure'
  BY <1>1, <1>2 DEF EstimatorInv, BranchInv, NoFailure
<1>6. ObserveInv'
  BY <1>1 DEF EstimatorInv, BranchInv, ObserveInv
<1> QED
  BY <1>3, <1>4, <1>5, <1>6 DEF EstimatorInv

\* What touches nothing but the cached estimates.
LEMMA CachedKeeps ==
  ASSUME TypeOK, EstimatorInv,
         UNCHANGED <<lastKnown, num, observed, mined, bin, dropped, loop, env>>,
         cached' = Nil \/ DOMAIN cached' = Bins
  PROVE  TypeOK' /\ EstimatorInv'
<1>1. UNCHANGED <<lastKnown, num, observed, mined, bin, dropped, step, todo,
                  count, cur, undo, branch, before, rollbacks, failed>>
  BY DEF loop, env
<1>2. RecordInv' /\ BinInv' /\ StackInv'
  BY <1>1, Quiet
<1>3. TypeOK'
  BY <1>1 DEF TypeOK, Bins, Seen, Nil
<1>4. BranchInv' /\ ObserveInv' /\ NoFailure'
  BY <1>1 DEF EstimatorInv, BranchInv, ObserveInv, NoFailure
<1> QED
  BY <1>2, <1>3, <1>4 DEF EstimatorInv

(***************************************************************************)
(* ------------------------------ theorems ------------------------------- *)
(***************************************************************************)

LEMMA InitHolds ==
  ASSUME Init
  PROVE  TypeOK /\ EstimatorInv
<1>1. before = <<>> /\ dropped = <<>> /\ branch = <<>> /\ cur = <<>>
  BY DEF Init
<1>2. /\ before \in Seq([Bins -> SUBSET Tx]) /\ dropped \in Seq(Seq(Tx))
      /\ branch \in Seq(SUBSET Tx) /\ cur \in Seq(Tx)
      /\ Len(before) = 0 /\ Len(dropped) = 0 /\ Len(branch) = 0
  BY <1>1
<1>3. /\ bin = [n \in Bins |-> <<>>] /\ step = "idle" /\ rollbacks = 0 /\ failed = "none"
      /\ lastKnown = 0 /\ num = 0 /\ undo = 0 /\ todo = {} /\ cached = Nil
      /\ observed = [tx \in Tx |-> 0] /\ mined = [tx \in Tx |-> 0]
      /\ count = [n \in Bins |-> 0]
  BY DEF Init, Empty, Unmined
<1>4. \A n \in Bins : bin[n] = <<>> /\ Len(bin[n]) = 0 /\ DOMAIN bin[n] = {}
  BY <1>3
<1>5. TypeOK
  <2>1. bin \in [Bins -> Seq(Tx)] /\ \A n \in Bins : Len(bin[n]) <= BinSize
    BY <1>3, <1>4, Constants
  <2> QED
    BY <1>2, <1>3, <2>1, Constants DEF TypeOK
<1>6. BranchInv
  BY <1>1, <1>2, <1>3, Constants DEF BranchInv, Unmined
<1>7. RecordInv /\ ObserveInv /\ NoFailure
  BY <1>3, Constants DEF RecordInv, ObserveInv, NoFailure, Unmined
<1>8. BinInv
  BY <1>3, <1>4 DEF BinInv, IsInjective
<1>9. StackInv
  BY <1>2 DEF StackInv, Layers
<1> QED
  BY <1>5, <1>6, <1>7, <1>8, <1>9 DEF EstimatorInv

LEMMA NextKeeps ==
  ASSUME TypeOK, EstimatorInv, [Next]_vars
  PROVE  TypeOK' /\ EstimatorInv'
<1>1. ASSUME NEW tx \in Tx, NEW height \in BestHeights,
             ObserveTransaction(tx, height)
      PROVE  TypeOK' /\ EstimatorInv'
  BY <1>1, ObserveKeeps
<1>2. CASE RefuseBlock
  BY <1>2, CachedKeeps DEF RefuseBlock
<1>3. ASSUME NEW block \in SUBSET (Tx \ Chain), RegisterBlock(block)
      PROVE  TypeOK' /\ EstimatorInv'
  BY <1>3, RegisterBlockKeeps
<1>4. ASSUME NEW tx \in Tx, BreakOn(tx)
      PROVE  TypeOK' /\ EstimatorInv'
  BY <1>4, BreakOnKeeps
<1>5. ASSUME NEW tx \in Tx, SkipTx(tx)
      PROVE  TypeOK' /\ EstimatorInv'
  BY <1>5, SkipTxKeeps
<1>6. ASSUME NEW tx \in Tx, MineTx(tx)
      PROVE  TypeOK' /\ EstimatorInv'
  BY <1>6, MineTxKeeps
<1>7. CASE EndRegister
  BY <1>7, EndRegisterKeeps
<1>8. ASSUME NEW n \in 1..MaxRollback, Rollback(n)
      PROVE  TypeOK' /\ EstimatorInv'
  BY <1>8, RollbackKeeps
<1>9. CASE RollbackOne
  BY <1>9, RollbackOneKeeps
<1>10. CASE EndRollback
  BY <1>10, EndRollbackKeeps
<1>11. CASE EstimateFee
  <2>1. DOMAIN cached' = Bins
    BY <1>11 DEF EstimateFee, Estimates
  <2> QED
    BY <1>11, <2>1, CachedKeeps DEF EstimateFee
<1>12. CASE Restart
  <2>1. UNCHANGED <<lastKnown, num, mined, bin, dropped>>
    BY <1>12, RestartSame
  <2>2. UNCHANGED <<observed, loop, env>> /\ cached' = Nil
    BY <1>12 DEF Restart
  <2> QED
    BY <2>1, <2>2, CachedKeeps
<1>13. CASE UNCHANGED vars
  <2>1. UNCHANGED <<lastKnown, num, observed, mined, bin, dropped, loop, env>> /\ cached' = cached
    BY <1>13 DEF vars, estimator
  <2>2. cached' = Nil \/ DOMAIN cached' = Bins
    BY <2>1 DEF TypeOK
  <2> QED
    BY <2>1, <2>2, CachedKeeps
<1> QED
  BY <1>1, <1>2, <1>3, <1>4, <1>5, <1>6, <1>7, <1>8, <1>9, <1>10, <1>11, <1>12, <1>13
     DEF Next

\* Every state of the estimator has the types of TypeOK and the layers of the
\* inductive invariant, for all bin sizes, depths and numbers of rollbacks.
THEOREM TypeCorrect == Spec => [](TypeOK /\ EstimatorInv)
<1>1. Init => TypeOK /\ EstimatorInv
  BY InitHolds
<1>2. TypeOK /\ EstimatorInv /\ [Next]_vars => (TypeOK /\ EstimatorInv)'
  BY NextKeeps
<1> QED
  BY <1>1, <1>2, PTL DEF Spec

\* No transaction is met twice by RegisterBlock, every dropped transaction
\* finds its place in rollback, and an index of RegisterBlock falls below zero
\* only during the replay of the stored chain or after a Rollback.
THEOREM NeverFails == Spec => []NoFailure
<1>1. TypeOK /\ EstimatorInv => NoFailure
  BY DEF EstimatorInv
<1> QED
  BY <1>1, TypeCorrect, PTL

\* The bins hold each mined transaction at most once, in the right bin, and
\* nothing that a block on the stack dropped.
THEOREM BinsAlwaysSound == Spec => []BinsSound
<1>1. ASSUME TypeOK, EstimatorInv PROVE BinsSound
  <2>1. ASSUME NEW n \in Bins, NEW k \in DOMAIN bin[n]
        PROVE  /\ mined[bin[n][k]] # Unmined
               /\ mined[bin[n][k]] - observed[bin[n][k]] = n
               /\ \A m \in Bins : \A j \in DOMAIN bin[m] :
                    bin[m][j] = bin[n][k] => m = n /\ j = k
    <3>1. \A m \in Bins : \A j \in DOMAIN bin[m] :
            mined[bin[m][j]] # Unmined /\ BinOf(bin[m][j]) = m
      BY <1>1 DEF EstimatorInv, BinInv
    <3>2. \A i, j \in DOMAIN bin[n] : bin[n][i] = bin[n][j] => i = j
      BY <1>1 DEF EstimatorInv, BinInv, IsInjective
    <3>3. ASSUME NEW m \in Bins, NEW j \in DOMAIN bin[m], bin[m][j] = bin[n][k]
          PROVE  m = n /\ j = k
      <4>1. m = n
        BY <3>1, <3>3
      <4> QED
        BY <3>2, <3>3, <4>1
    <3> QED
      BY <3>1, <3>3 DEF BinOf
  <2>2. ASSUME NEW b \in ToSet(dropped), NEW tx \in ToSet(b), NEW n \in Bins
        PROVE  ~ Contains(bin[n], tx)
    <3>1. PICK k \in DOMAIN dropped : b = dropped[k]
      BY DEF ToSet
    <3>2. dropped \in Seq(Seq(Tx)) /\ bin[n] \in Seq(Tx) /\ BranchInv
      BY <1>1 DEF TypeOK, EstimatorInv
    <3>3. k \in 1..Len(dropped)
      BY <3>1, <3>2, LenProperties
    <3>4. k \in Layers /\ Drop(k) = b /\ Len(before) + 1 \in (k + 1)..(Len(before) + 1)
          /\ Len(before) + 1 \notin Layers
      BY <1>1, <3>1, <3>2, <3>3, LayerHeights DEF Layers, Drop
    <3>5. tx \notin Held(Len(before) + 1, n)
      BY <1>1, <3>4 DEF EstimatorInv, StackInv, LayerInv
    <3>6. tx \notin ToSet(bin[n])
      BY <3>4, <3>5 DEF Held
    <3> QED
      BY <3>2, <3>6 DEF ToSet, Contains
  <2> QED
    BY <2>1, <2>2 DEF BinsSound
<1> QED
  BY <1>1, TypeCorrect, PTL

\* A rollback of one or more blocks brings the contents of every bin back to
\* what they were before each of them.
THEOREM RollbackAlwaysRestores == Spec => RollbackRestores
<1>1. ASSUME TypeOK, EstimatorInv, [Next]_vars
      PROVE  [dropped' = Front(dropped) /\ step = "rollback" /\ undo' # undo =>
                \A n \in Bins : ToSet(bin'[n]) = Last(before)[n]]_vars
  <2> SUFFICES ASSUME Next, step = "rollback", undo' # undo PROVE RollbackOne
    BY <1>1, RollbackOneKeeps
  <2>1. \A tx, height : ~ ObserveTransaction(tx, height)
    BY DEF ObserveTransaction, Free
  <2>2. ~ RefuseBlock /\ ~ EstimateFee /\ ~ Restart
    BY DEF RefuseBlock, EstimateFee, Restart, Free
  <2>3. \A block : ~ RegisterBlock(block)
    BY DEF RegisterBlock, Free
  <2>4. \A tx : ~ BreakOn(tx) /\ ~ SkipTx(tx) /\ ~ MineTx(tx)
    BY DEF BreakOn, SkipTx, MineTx, Registering
  <2>5. ~ EndRegister /\ \A n : ~ Rollback(n)
    BY DEF EndRegister, Rollback, Free
  <2>6. ~ EndRollback
    BY DEF EndRollback
  <2> QED
    BY <2>1, <2>2, <2>3, <2>4, <2>5, <2>6 DEF Next
<1> QED
  BY <1>1, TypeCorrect, PTL DEF Spec, RollbackRestores

\* Save and RestoreFeeEstimator lose nothing of bins and stack.
THEOREM RestoredAlwaysAsSaved == Spec => RestoredAsSaved
<1>1. ASSUME TypeOK, EstimatorInv, [Next]_vars
      PROVE  [Restart => UNCHANGED <<bin, dropped>>]_vars
  BY <1>1, RestartSame
<1> QED
  BY <1>1, TypeCorrect, PTL DEF Spec, RestoredAsSaved
=============================================================================
