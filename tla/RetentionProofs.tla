-------------------------- MODULE RetentionProofs --------------------------
(***************************************************************************)
(* Theorems about Retention, for any list of policies, any pairs and any   *)
(* finite set of arrivals.                                                 *)
(***************************************************************************)
EXTENDS Retention, SequenceTheorems, FiniteSetTheorems, TLAPS

\* Every non-empty set of natural numbers has a least element.
LEMMA NatMin ==
  ASSUME NEW T \in SUBSET Nat, T # {}
  PROVE  \E x \in T : \A y \in T : x <= y
<1>1. PICK x \in T : \A y \in T : ~(<<y, x>> \in OpToRel(<, Nat))
  BY NatLessThanWellFounded, WFMin
<1>2. ASSUME NEW y \in T PROVE x <= y
  <2>1. y < x => <<y, x>> \in OpToRel(<, Nat)
    BY DEF OpToRel
  <2>2. ~(y < x)
    BY <2>1, <1>1, Zenon
  <2>3. x \in Nat /\ y \in Nat
    OBVIOUS
  <2> QED
    BY <2>2, <2>3, SMT
<1> QED
  BY <1>2

\* A non-empty set of numbers of 1 .. n has a greatest element.
LEMMA IntervalMax ==
  ASSUME NEW n \in Nat, NEW s \in SUBSET (1 .. n), s # {}
  PROVE  \E x \in s : \A y \in s : x >= y
<1> DEFINE T == {n - y : y \in s}
<1>1. \A y \in s : y \in Nat /\ n - y \in Nat
  OBVIOUS
<1>2. T \in SUBSET Nat /\ T # {}
  BY <1>1
<1>3. PICK z \in T : \A y \in T : z <= y
  BY <1>2, NatMin
<1>4. PICK x \in s : z = n - x
  OBVIOUS
<1>5. ASSUME NEW y \in s PROVE x >= y
  <2>1. n - x <= n - y
    BY <1>3, <1>4
  <2> QED
    BY <2>1, <1>1
<1> QED
  BY <1>5

-----------------------------------------------------------------------------
(* Folds                                                                   *)

\* ch takes an element of every subset of S but the empty one.
Picks(ch, S) == \A s \in SUBSET S : s # {} => ch[s] \in s

\* it folds the subsets of S: ch takes the next element, G combines it with
\* what the fold of the others gives.
IsFold(it, S, base, G, ch) ==
  \A s \in SUBSET S :
    it[s] = IF s = {} THEN base ELSE G[<<it[s \ {ch[s]}], ch[s]>>]

\* A finite set can be folded.
LEMMA FoldExists ==
  ASSUME NEW S, IsFiniteSet(S), NEW V, NEW base \in V, NEW G \in [V \X S -> V],
         NEW ch, Picks(ch, S)
  PROVE  \E it \in [SUBSET S -> V] : IsFold(it, S, base, G, ch)
<1> DEFINE D(n) == {s \in SUBSET S : Cardinality(s) <= n}
           Folds(it, n) == \A s \in D(n) :
             it[s] = IF s = {} THEN base ELSE G[<<it[s \ {ch[s]}], ch[s]>>]
           Bad == {n \in Nat : ~\E it \in [D(n) -> V] : Folds(it, n)}
<1>0. ASSUME NEW s \in SUBSET S
      PROVE  /\ IsFiniteSet(s) /\ Cardinality(s) \in Nat
             /\ Cardinality(s) <= Cardinality(S)
             /\ Cardinality(s) = 0 <=> s = {}
  BY FS_Subset, FS_CardinalityType, FS_EmptySet
<1>1. ASSUME NEW s \in SUBSET S, s # {}
      PROVE  /\ ch[s] \in s /\ ch[s] \in S /\ s \ {ch[s]} \in SUBSET S
             /\ Cardinality(s \ {ch[s]}) = Cardinality(s) - 1
  <2>1. ch[s] \in s
    BY <1>1 DEF Picks
  <2> QED
    BY <1>0, <2>1, FS_RemoveElement
<1>2. Bad = {}
  <2>1. SUFFICES ASSUME Bad # {} PROVE FALSE
    OBVIOUS
  <2>2. PICK m \in Bad : \A k \in Bad : m <= k
    BY <2>1, NatMin
  <2>3. m \in Nat
    OBVIOUS
  <2>4. CASE m = 0
    <3> DEFINE it == [s \in D(m) |-> base]
    <3>1. \A s \in D(m) : s = {}
      BY <1>0, <2>4
    <3>2. it \in [D(m) -> V] /\ Folds(it, m)
      BY <3>1
    <3> HIDE DEF it
    <3> QED
      BY <3>2
  <2>5. CASE m # 0
    <3>1. m - 1 \in Nat /\ m - 1 \notin Bad
      <4> HIDE DEF Bad
      <4> QED
        BY <2>2, <2>3, <2>5
    <3>2. PICK it \in [D(m - 1) -> V] : Folds(it, m - 1)
      BY <3>1
    <3> DEFINE jt == [s \in D(m) |-> IF s = {} THEN base ELSE G[<<it[s \ {ch[s]}], ch[s]>>]]
    <3>3. ASSUME NEW s \in D(m), s # {}
          PROVE  s \ {ch[s]} \in D(m - 1) /\ s \ {ch[s]} \in D(m) /\ ch[s] \in S
      BY <1>0, <1>1, <2>3, <3>3
    <3>4. ASSUME NEW u \in D(m - 1) PROVE jt[u] = it[u]
      <4>1. u \in D(m)
        BY <1>0, <2>3
      <4> QED
        BY <4>1, <3>2
    <3>5. jt \in [D(m) -> V]
      <4>1. ASSUME NEW s \in D(m), s # {}
            PROVE  G[<<it[s \ {ch[s]}], ch[s]>>] \in V
        BY <3>3, <4>1, <3>2
      <4> QED
        BY <4>1
    <3>6. Folds(jt, m)
      <4> HIDE DEF jt
      <4>1. ASSUME NEW s \in D(m), s # {}
            PROVE  jt[s] = G[<<jt[s \ {ch[s]}], ch[s]>>]
        <5>1. jt[s \ {ch[s]}] = it[s \ {ch[s]}]
          BY <3>3, <3>4, <4>1
        <5> QED
          BY <5>1, <4>1 DEF jt
      <4>2. ASSUME NEW s \in D(m), s = {} PROVE jt[s] = base
        BY <4>2 DEF jt
      <4> QED
        BY <4>1, <4>2
    <3> QED
      BY <3>5, <3>6
  <2> QED
    BY <2>4, <2>5
<1>3. Cardinality(S) \in Nat
  BY FS_CardinalityType
<1>4. PICK it \in [D(Cardinality(S)) -> V] : Folds(it, Cardinality(S))
  BY <1>2, <1>3
<1>5. D(Cardinality(S)) = SUBSET S
  BY <1>0
<1> QED
  BY <1>4, <1>5 DEF IsFold

\* g folds the subsets of S as long as it has values in V.
FoldsWithin(g, V, S, base, G, ch) ==
  /\ g[{}] = base
  /\ \A s \in SUBSET S : s # {} /\ g[s \ {ch[s]}] \in V =>
       g[s] = G[<<g[s \ {ch[s]}], ch[s]>>]

\* Such a function has no other values.
LEMMA FoldValues ==
  ASSUME NEW S, IsFiniteSet(S), NEW V, NEW base \in V, NEW G \in [V \X S -> V],
         NEW ch, Picks(ch, S), NEW g, FoldsWithin(g, V, S, base, G, ch)
  PROVE  \A s \in SUBSET S : g[s] \in V
<1> DEFINE Bad == {s \in SUBSET S : g[s] \notin V}
           T == {Cardinality(s) : s \in Bad}
<1>0. \A s \in SUBSET S : IsFiniteSet(s) /\ Cardinality(s) \in Nat
  BY FS_Subset, FS_CardinalityType
<1>1. SUFFICES ASSUME Bad # {} PROVE FALSE
  OBVIOUS
<1>2. T \in SUBSET Nat /\ T # {}
  BY <1>0, <1>1
<1>3. PICK n \in T : \A k \in T : n <= k
  BY <1>2, NatMin
<1>4. PICK s \in Bad : n = Cardinality(s)
  OBVIOUS
<1>5. s # {} /\ ch[s] \in s
  BY DEF Picks, FoldsWithin
<1> DEFINE u == s \ {ch[s]}
<1>6. Cardinality(u) = n - 1 /\ n \in Nat
  BY <1>0, <1>4, <1>5, FS_RemoveElement
<1>7. u \in SUBSET S /\ u \notin Bad
  BY <1>3, <1>6
<1>8. g[s] = G[<<g[u], ch[s]>>] /\ g[u] \in V
  BY <1>5, <1>7 DEF FoldsWithin
<1> QED
  BY <1>5, <1>8

-----------------------------------------------------------------------------
(* Resolution                                                              *)

Limit == Nat \cup {None}
Limits == [Dims -> Limit]

\* f[i] is what merging the first i policies of the list gives.
TierRun(f, qs, p, tier, acc) ==
  /\ f[0] = acc
  /\ \A i \in 1 .. Len(qs) :
       f[i] = IF PolicyMatches(qs[i], p) /\ Tier(qs[i]) = tier
              THEN Merge(f[i - 1], qs[i]) ELSE f[i - 1]
  /\ MergeTier(qs, p, tier, acc) = f[Len(qs)]

\* A tier's merge goes through the list from its first policy to its last.
LEMMA TierSteps ==
  ASSUME NEW qs \in Seq(Policy), NEW p, NEW tier, NEW acc \in Limits
  PROVE  \E f \in [0 .. Len(qs) -> Limits] : TierRun(f, qs, p, tier, acc)
<1> DEFINE n == Len(qs)
           S == 1 .. n
           Step(x, i) == IF PolicyMatches(qs[i], p) /\ Tier(qs[i]) = tier
                         THEN Merge(x, qs[i]) ELSE x
           G == [y \in Limits \X S |-> Step(y[1], y[2])]
           ch == [s \in SUBSET S |-> Max(s)]
           Eqn(it) == it = [s \in SUBSET S |->
                              IF s = {} THEN acc ELSE Step(it[s \ {Max(s)}], Max(s))]
           g == CHOOSE it : Eqn(it)
<1>1. n \in Nat /\ DOMAIN qs = S /\ IsFiniteSet(S) /\ \A i \in S : qs[i] \in Policy
  BY LenProperties, FS_Interval
<1>2. ASSUME NEW x \in Limits, NEW i \in S PROVE Step(x, i) \in Limits
  <2>1. qs[i] \in Policy
    BY <1>1
  <2>2. \A d \in Dims : qs[i][d] \in Limit
    BY <2>1 DEF Policy, Dims, Limit
  <2> QED
    BY <2>2 DEF Limits, Merge
<1>3. G \in [Limits \X S -> Limits]
  BY <1>2
<1>4. ASSUME NEW s \in SUBSET S, s # {}
      PROVE  Max(s) \in s /\ \A y \in s : Max(s) >= y
  <2>1. \E x \in s : \A y \in s : x >= y
    BY <1>1, <1>4, IntervalMax
  <2> QED
    BY <2>1 DEF Max
<1>5. Picks(ch, S)
  BY <1>4 DEF Picks
<1>6. \E it : Eqn(it)
  <2> HIDE DEF G, ch, S
  <2>1. PICK it \in [SUBSET S -> Limits] : IsFold(it, S, acc, G, ch)
    BY <1>1, <1>3, <1>5, FoldExists
  <2>2. ASSUME NEW s \in SUBSET S, s # {}
        PROVE  it[s] = Step(it[s \ {Max(s)}], Max(s))
    <3>1. ch[s] = Max(s) /\ Max(s) \in S /\ it[s \ {Max(s)}] \in Limits
      BY <1>4, <2>1, <2>2 DEF ch
    <3>2. it[s] = G[<<it[s \ {Max(s)}], Max(s)>>]
      BY <2>1, <2>2, <3>1 DEF IsFold
    <3> QED
      BY <3>1, <3>2 DEF G
  <2>3. ASSUME NEW s \in SUBSET S
        PROVE  it[s] = IF s = {} THEN acc ELSE Step(it[s \ {Max(s)}], Max(s))
    BY <2>1, <2>2 DEF IsFold
  <2> HIDE DEF Step
  <2>4. Eqn(it)
    BY <2>1, <2>3
  <2> QED
    BY <2>4
<1>7. Eqn(g)
  BY <1>6
<1>8. MergeTier(qs, p, tier, acc) = g[S]
  BY <1>1 DEF MergeTier, FoldLeft, MapThenFoldSet
<1> HIDE DEF g
<1>9. ASSUME NEW s \in SUBSET S, s # {}
      PROVE  g[s] = Step(g[s \ {Max(s)}], Max(s))
  <2> HIDE DEF Step
  <2> QED
    BY <1>7, <1>9
<1>10. g[{}] = acc
  <2> HIDE DEF Step
  <2> QED
    BY <1>7
<1>11. \A s \in SUBSET S : g[s] \in Limits
  <2> HIDE DEF Step
  <2>1. ASSUME NEW s \in SUBSET S, s # {}, g[s \ {ch[s]}] \in Limits
        PROVE  g[s] = G[<<g[s \ {ch[s]}], ch[s]>>]
    BY <1>4, <1>9, <2>1
  <2> HIDE DEF G, ch, S
  <2>2. FoldsWithin(g, Limits, S, acc, G, ch)
    BY <2>1, <1>10 DEF FoldsWithin
  <2> QED
    BY <2>2, <1>1, <1>3, <1>5, FoldValues
<1> DEFINE f == [i \in 0 .. n |-> g[1 .. i]]
<1>12. f \in [0 .. n -> Limits] /\ f[0] = acc /\ f[n] = g[S]
  <2>1. \A i \in 0 .. n : 1 .. i \in SUBSET S
    BY <1>1
  <2>2. 1 .. 0 = {}
    OBVIOUS
  <2> QED
    BY <1>1, <1>10, <1>11, <2>1, <2>2
<1>13. ASSUME NEW i \in S PROVE f[i] = Step(f[i - 1], i)
  <2>0. i \in Nat /\ i >= 1 /\ i <= n
    BY <1>1
  <2>1. 1 .. i \in SUBSET S /\ 1 .. i # {} /\ i \in 1 .. i
    <3> HIDE DEF n
    <3>1. i \in 1 .. i
      BY <2>0
    <3>2. \A j \in 1 .. i : j \in 1 .. n
      BY <1>1, <2>0
    <3> QED
      BY <3>1, <3>2
  <2>2. Max(1 .. i) = i
    BY <1>4, <2>1
  <2>3. (1 .. i) \ {i} = 1 .. (i - 1)
    BY <1>1
  <2>4. g[1 .. i] = Step(g[1 .. (i - 1)], i)
    BY <1>9, <2>1, <2>2, <2>3
  <2>5. f[i] = g[1 .. i] /\ f[i - 1] = g[1 .. (i - 1)]
    BY <1>1
  <2> HIDE DEF Step, f
  <2> QED
    BY <2>4, <2>5
<1> HIDE DEF f
<1> QED
  BY <1>8, <1>12, <1>13 DEF TierRun

\* The policies of a tier that match p and set d.
Setters(qs, p, tier, d) ==
  {i \in DOMAIN qs : PolicyMatches(qs[i], p) /\ Tier(qs[i]) = tier /\ qs[i][d] # None}

\* What a tier gives for d: what was there before, else what the first of
\* its policies sets.
FirstSet(qs, p, tier, acc, d) ==
  IF acc[d] # None THEN acc[d]
  ELSE IF Setters(qs, p, tier, d) = {} THEN None
  ELSE qs[Min(Setters(qs, p, tier, d))][d]

\* A non-empty set of positions has a first one.
LEMMA FirstPosition ==
  ASSUME NEW I \in SUBSET Nat, I # {}
  PROVE  Min(I) \in I /\ \A i \in I : Min(I) <= i
<1>1. \E x \in I : \A y \in I : x <= y
  BY NatMin
<1> QED
  BY <1>1 DEF Min

\* Merging a tier sets each dimension from its first policy that sets it.
LEMMA TierMerged ==
  ASSUME NEW qs \in Seq(Policy), NEW p, NEW tier, NEW acc \in Limits
  PROVE  /\ MergeTier(qs, p, tier, acc) \in Limits
         /\ \A d \in Dims : MergeTier(qs, p, tier, acc)[d] = FirstSet(qs, p, tier, acc, d)
<1>0. PICK f \in [0 .. Len(qs) -> Limits] : TierRun(f, qs, p, tier, acc)
  BY TierSteps
<1>1. /\ f[0] = acc
      /\ \A i \in 1 .. Len(qs) :
           f[i] = IF PolicyMatches(qs[i], p) /\ Tier(qs[i]) = tier
                  THEN Merge(f[i - 1], qs[i]) ELSE f[i - 1]
      /\ MergeTier(qs, p, tier, acc) = f[Len(qs)]
  BY <1>0 DEF TierRun
<1>2. Len(qs) \in Nat /\ DOMAIN qs = 1 .. Len(qs)
  BY LenProperties
<1>3. MergeTier(qs, p, tier, acc) \in Limits
  BY <1>1, <1>2
<1>4. ASSUME NEW d \in Dims
      PROVE  MergeTier(qs, p, tier, acc)[d] = FirstSet(qs, p, tier, acc, d)
  <2> DEFINE I == Setters(qs, p, tier, d)
             Value(k) == IF acc[d] # None THEN acc[d]
                         ELSE IF I \cap (1 .. k) = {} THEN None ELSE qs[Min(I)][d]
             Bad == {k \in 0 .. Len(qs) : f[k][d] # Value(k)}
  <2>1. I \in SUBSET Nat /\ I \subseteq 1 .. Len(qs)
    BY <1>2 DEF Setters
  <2>2. I # {} => /\ Min(I) \in I /\ \A i \in I : Min(I) <= i
                  /\ qs[Min(I)][d] # None
    <3>1. \A i \in I : qs[i][d] # None
      BY DEF Setters
    <3> HIDE DEF I
    <3> QED
      BY <2>1, <3>1, FirstPosition
  <2>3. Bad = {}
    <3>1. SUFFICES ASSUME Bad # {} PROVE FALSE
      OBVIOUS
    <3>2. Bad \in SUBSET Nat
      BY <1>2
    <3>3. PICK k \in Bad : \A j \in Bad : k <= j
      BY <3>1, <3>2, NatMin
    <3>4. k \in 0 .. Len(qs) /\ f[k][d] # Value(k)
      OBVIOUS
    <3>5. k # 0
      <4>1. 1 .. 0 = {}
        OBVIOUS
      <4>2. Value(0) = acc[d]
        BY <4>1
      <4> QED
        BY <1>1, <3>4, <4>2
    <3>6. k \in 1 .. Len(qs) /\ k - 1 \in 0 .. Len(qs) /\ k \in Nat
      BY <1>2, <3>4, <3>5
    <3>7. f[k - 1][d] = Value(k - 1)
      <4>1. k - 1 \notin Bad
        <5> HIDE DEF Bad
        <5> QED
          BY <3>3, <3>6
      <4> QED
        BY <4>1, <3>6
    <3>8. f[k] = IF PolicyMatches(qs[k], p) /\ Tier(qs[k]) = tier
                 THEN Merge(f[k - 1], qs[k]) ELSE f[k - 1]
      BY <1>1, <3>6
    <3>9. 1 .. k = (1 .. (k - 1)) \cup {k}
      BY <3>6
    <3>10. k \in I <=> /\ PolicyMatches(qs[k], p) /\ Tier(qs[k]) = tier
                       /\ qs[k][d] # None
      BY <1>2, <3>6 DEF Setters
    <3> HIDE DEF I
    <3>11. CASE k \notin I
      <4>1. I \cap (1 .. k) = I \cap (1 .. (k - 1))
        BY <3>9, <3>11
      <4>2. Value(k) = Value(k - 1)
        BY <4>1
      <4>3. f[k][d] = f[k - 1][d]
        <5>1. CASE PolicyMatches(qs[k], p) /\ Tier(qs[k]) = tier
          BY <3>8, <3>10, <3>11, <5>1 DEF Merge
        <5> QED
          BY <5>1, <3>8
      <4> QED
        BY <4>2, <4>3, <3>4, <3>7
    <3>12. CASE k \in I
      <4>1. f[k][d] = IF f[k - 1][d] = None THEN qs[k][d] ELSE f[k - 1][d]
        BY <3>8, <3>10, <3>12 DEF Merge
      <4>2. CASE acc[d] # None
        BY <4>1, <4>2, <3>4, <3>7
      <4>3. CASE acc[d] = None /\ I \cap (1 .. (k - 1)) = {}
        <5>1. Min(I) = k
          <6>1. Min(I) \in I /\ Min(I) <= k /\ Min(I) \in 1 .. Len(qs)
            BY <2>1, <2>2, <3>12
          <6>2. Min(I) \notin 1 .. (k - 1)
            BY <6>1, <4>3
          <6> QED
            BY <6>1, <6>2, <3>6, <1>2
        <5>2. Value(k) = qs[k][d]
          BY <5>1, <4>3, <3>9, <3>12
        <5> QED
          BY <5>2, <4>1, <4>3, <3>4, <3>7
      <4>4. CASE acc[d] = None /\ I \cap (1 .. (k - 1)) # {}
        <5>1. I \cap (1 .. k) # {}
          BY <4>4, <3>9
        <5>2. f[k - 1][d] = qs[Min(I)][d] /\ f[k - 1][d] # None
          BY <4>4, <3>7, <2>2
        <5> QED
          BY <5>1, <5>2, <4>1, <4>4, <3>4
      <4> QED
        BY <4>2, <4>3, <4>4
    <3> QED
      BY <3>11, <3>12
  <2>4. Len(qs) \in 0 .. Len(qs)
    BY <1>2
  <2>5. f[Len(qs)][d] = Value(Len(qs))
    BY <2>3, <2>4
  <2>6. I \cap (1 .. Len(qs)) = I
    BY <2>1
  <2> QED
    BY <2>5, <2>6, <1>1 DEF FirstSet
<1> QED
  BY <1>3, <1>4

LEMMA UnsetLimits == Unset \in Limits
  BY DEF Unset, Limits, Limit

\* The limits resolved for a pair, tier after tier, are those that the
\* documentation's rule gives it.
LEMMA ResolveGoverns ==
  ASSUME policies \in Configs, NEW p
  PROVE  /\ Resolve(policies, p) \in Limits
         /\ \A d \in Dims : Resolve(policies, p)[d] = Governing(p, d)
<1> DEFINE qs == policies
           M0 == MergeTier(qs, p, 0, Unset)
           M1 == MergeTier(qs, p, 1, M0)
           M2 == MergeTier(qs, p, 2, M1)
<1>1. qs \in Seq(Policy)
  BY RetentionAssumption
<1>2. M0 \in Limits /\ \A d \in Dims : M0[d] = FirstSet(qs, p, 0, Unset, d)
  BY <1>1, UnsetLimits, TierMerged
<1> HIDE DEF M0
<1>3. M1 \in Limits /\ \A d \in Dims : M1[d] = FirstSet(qs, p, 1, M0, d)
  BY <1>1, <1>2, TierMerged
<1> HIDE DEF M1
<1>4. M2 \in Limits /\ \A d \in Dims : M2[d] = FirstSet(qs, p, 2, M1, d)
  BY <1>1, <1>3, TierMerged
<1> HIDE DEF M2
<1>5. Resolve(policies, p) = M2
  BY DEF Resolve, M0, M1, M2
<1>6. ASSUME NEW d \in Dims PROVE M2[d] = Governing(p, d)
  <2> DEFINE S(l) == {i \in DOMAIN policies :
                        /\ Applies(policies[i], p)
                        /\ Level(policies[i]) = l
                        /\ policies[i][d] # None}
  <2>1. /\ S("source") = Setters(qs, p, 0, d)
        /\ S("kind") = Setters(qs, p, 1, d)
        /\ S("global") = Setters(qs, p, 2, d)
    BY DEF Setters, Applies, PolicyMatches, Level, Tier
  <2>2. ASSUME NEW t \in 0 .. 2, Setters(qs, p, t, d) # {}
        PROVE  qs[Min(Setters(qs, p, t, d))][d] # None
    <3>1. Setters(qs, p, t, d) \in SUBSET Nat
      BY <1>1, LenProperties DEF Setters
    <3>2. Min(Setters(qs, p, t, d)) \in Setters(qs, p, t, d)
      BY <3>1, <2>2, FirstPosition
    <3> QED
      BY <3>2 DEF Setters
  <2>3. Governing(p, d) =
          IF Setters(qs, p, 0, d) # {} THEN qs[Min(Setters(qs, p, 0, d))][d]
          ELSE IF Setters(qs, p, 1, d) # {} THEN qs[Min(Setters(qs, p, 1, d))][d]
          ELSE IF Setters(qs, p, 2, d) # {} THEN qs[Min(Setters(qs, p, 2, d))][d]
          ELSE None
    BY <2>1 DEF Governing
  <2>4. M0[d] = IF Setters(qs, p, 0, d) = {} THEN None
                ELSE qs[Min(Setters(qs, p, 0, d))][d]
    BY <1>2 DEF FirstSet, Unset
  <2>5. M1[d] = IF M0[d] # None THEN M0[d]
                ELSE IF Setters(qs, p, 1, d) = {} THEN None
                ELSE qs[Min(Setters(qs, p, 1, d))][d]
    BY <1>3 DEF FirstSet
  <2>6. M2[d] = IF M1[d] # None THEN M1[d]
                ELSE IF Setters(qs, p, 2, d) = {} THEN None
                ELSE qs[Min(Setters(qs, p, 2, d))][d]
    BY <1>4 DEF FirstSet
  <2> QED
    BY <2>2, <2>3, <2>4, <2>5, <2>6
<1> QED
  BY <1>4, <1>5, <1>6

-----------------------------------------------------------------------------
(* Types                                                                   *)

\* The fields of an arrival.
LEMMA RowFacts ==
  ASSUME NEW r \in Arrivals
  PROVE  r.id \in Nat /\ r.ts \in Nat /\ r.size \in Nat /\ r.pair \in Pairs
  BY RetentionAssumption, MaxTsAssumption DEF Row, Ts

\* Arrivals are finitely many, and so are the rows of a table.
LEMMA RowsFinite ==
  ASSUME NEW S \in SUBSET Arrivals
  PROVE  IsFiniteSet(S) /\ Cardinality(S) \in Nat
  BY RetentionAssumption, FS_Subset, FS_CardinalityType

\* INSERT OR IGNORE of one row.
LEMMA InsertOne ==
  ASSUME NEW E, NEW r
  PROVE  InsertOrIgnore(E, <<r>>) = E \cup (IF \A q \in E : q.id # r.id THEN {r} ELSE {})
  BY DEF InsertOrIgnore

LEMMA TypeInit == Init => TypeOK
<1> SUFFICES ASSUME Init PROVE TypeOK
  OBVIOUS
<1>1. eff \in [Dims -> Nat \cup {None}]
  BY UnsetLimits DEF Init, Limits, Limit
<1> QED
  BY <1>1, RetentionAssumption DEF Init, TypeOK, Phases

\* A statement of the cold store that takes rows of the table.
LEMMA DropType ==
  ASSUME TypeOK, NEW rows \in SUBSET events, NEW next \in Phases, DropEvents(rows, next)
  PROVE  TypeOK'
<1>1. Cardinality(rows) \in Nat
  BY RowsFinite DEF TypeOK
<1>2. report' \in [events : Nat, vectors : Nat]
  BY <1>1 DEF DropEvents, TypeOK
<1>3. events' \subseteq Arrivals /\ present' \subseteq events'
  BY DEF DropEvents, TypeOK
<1> QED
  BY <1>2, <1>3 DEF DropEvents, TypeOK, inputs

LEMMA TypeNext == TypeOK /\ [Next]_vars => TypeOK'
<1> SUFFICES ASSUME TypeOK, [Next]_vars PROVE TypeOK'
  OBVIOUS
<1>1. CASE UNCHANGED vars
  BY <1>1 DEF vars, TypeOK
<1>2. CASE Tick
  BY <1>2, RetentionAssumption DEF Tick, TypeOK, pass, history
<1>3. ASSUME NEW r \in Arrivals, Store(r) PROVE TypeOK'
  <2>1. events' \subseteq Arrivals /\ events \subseteq events'
    BY <1>3, InsertOne DEF Store, TypeOK
  <2>2. toStore' \subseteq Arrivals /\ present' \subseteq events'
    BY <1>3, <2>1 DEF Store, TypeOK, history
  <2> QED
    BY <1>3, <2>1, <2>2 DEF Store, TypeOK, pass, history
<1>4. ASSUME NEW r \in Arrivals, Embed(r) PROVE TypeOK'
  <2>1. vectors' \subseteq Arrivals /\ vpresent' \subseteq vectors' /\ toEmbed' \subseteq Arrivals
    BY <1>4 DEF Embed, TypeOK, history
  <2> QED
    BY <1>4, <2>1 DEF Embed, TypeOK, pass, history
<1>5. ASSUME NEW isDry \in BOOLEAN, Begin(isDry) PROVE TypeOK'
  <2>1. todo' \subseteq Pairs
    BY <1>5, RowFacts DEF Begin, PairsOf, TypeOK
  <2>2. dryRuns' \in 0 .. MaxDryRuns
    BY <1>5, RetentionAssumption DEF Begin, TypeOK
  <2>3. /\ at' \in 0 .. MaxNow /\ phase' \in Phases /\ dry' \in BOOLEAN
        /\ report' \in [events : Nat, vectors : Nat]
    BY <1>5 DEF Begin, TypeOK, Phases
  <2>4. /\ forecast' \in {NoReport, Awaited} \/ forecast' \in [events : Nat, vectors : Nat]
        /\ listed' \subseteq Pairs /\ present' \subseteq events /\ vpresent' \subseteq vectors
    BY <1>5, <2>1 DEF Begin, TypeOK, history
  <2> QED
    BY <1>5, <2>1, <2>2, <2>3, <2>4 DEF Begin, TypeOK, inputs
<1>6. ASSUME NEW p \in todo, NextPair(p) PROVE TypeOK'
  <2>1. eff' \in [Dims -> Nat \cup {None}]
    BY <1>6, ResolveGoverns DEF NextPair, TypeOK, Limits, Limit
  <2>2. cur' \in Pairs \cup {NoPair} /\ todo' \subseteq Pairs /\ phase' \in Phases
    BY <1>6 DEF NextPair, TypeOK, Phases
  <2> QED
    BY <1>6, <2>1, <2>2 DEF NextPair, TypeOK, inputs, history
<1>7. CASE SweepMaxAge
  BY <1>7, DropType DEF SweepMaxAge, TooOld, OfPair, Phases
<1>8. CASE SweepMaxCount
  <2>1. PICK rows \in SUBSET OfPair(events, cur) : DropEvents(rows, "max_bytes")
    BY <1>8 DEF SweepMaxCount
  <2>2. rows \in SUBSET events
    BY DEF OfPair
  <2> QED
    BY <2>1, <2>2, DropType DEF Phases
<1>9. CASE SweepMaxBytes
  BY <1>9, DropType DEF SweepMaxBytes, TooBig, OfPair, Phases
<1>10. CASE SweepVectors
  <2> DEFINE m == eff["vector_max_age"]
             rows == IF m = None THEN {} ELSE TooOld(vectors, cur, at - m)
  <2>1. rows \in SUBSET vectors
    BY DEF TooOld, OfPair
  <2>2. Cardinality(rows) \in Nat
    BY <2>1, RowsFinite DEF TypeOK
  <2>3. report' = [report EXCEPT !.vectors = @ + Cardinality(rows)]
    BY <1>10 DEF SweepVectors
  <2>4. \/ UNCHANGED <<vectors, vpresent>>
        \/ vectors' = vectors \ rows /\ vpresent' = vpresent \ rows
    BY <1>10 DEF SweepVectors
  <2> HIDE DEF rows
  <2>5. report' \in [events : Nat, vectors : Nat]
    BY <2>2, <2>3 DEF TypeOK
  <2>6. vectors' \subseteq Arrivals /\ vpresent' \subseteq vectors'
    BY <2>1, <2>4 DEF TypeOK
  <2> QED
    BY <1>10, <2>5, <2>6 DEF SweepVectors, TypeOK, Phases, inputs
<1>11. CASE Finish
  <2>1. eff' \in [Dims -> Nat \cup {None}]
    BY <1>11, UnsetLimits DEF Finish, Stop, Limits, Limit
  <2>2. forecast' \in {NoReport, Awaited} \/ forecast' \in [events : Nat, vectors : Nat]
    BY <1>11 DEF Finish, TypeOK
  <2> QED
    BY <1>11, <2>1, <2>2 DEF Finish, Stop, TypeOK, Phases, inputs
<1>12. CASE Fail
  <2>1. eff' \in [Dims -> Nat \cup {None}]
    BY <1>12, UnsetLimits DEF Fail, Stop, Limits, Limit
  <2>2. failures' \in 0 .. MaxFailures /\ report' \in [events : Nat, vectors : Nat]
    BY <1>12, RetentionAssumption DEF Fail, TypeOK
  <2> QED
    BY <1>12, <2>1, <2>2 DEF Fail, Stop, TypeOK, Phases, inputs
<1> QED
  BY <1>1, <1>2, <1>3, <1>4, <1>5, <1>6, <1>7, <1>8, <1>9, <1>10, <1>11, <1>12
  DEF Next, Arrive, PassStep

\* Whatever runs beside a pass, and wherever it fails, the variables keep
\* their types: what the pass reports are numbers, the limits in force come
\* from a policy, and the rows the history remembers are in the tables.
THEOREM RetentionTypeCorrect == Spec => []TypeOK
<1>1. Init => TypeOK
  BY TypeInit
<1> QED
  BY <1>1, TypeNext, PTL DEF Spec

-----------------------------------------------------------------------------
(* What a pass drops is condemned                                          *)

UniqueIds(E) == \A r, q \in E : r.id = q.id => r = q

Sweeping == {"max_age", "max_count", "max_bytes", "vectors"}

\* Between two statements for a pair the limits at hand are those that govern
\* the pair, and the primary key holds.
LimitsInv ==
  /\ UniqueIds(events)
  /\ phase \in Sweeping =>
       \E p \in Pairs : p = cur /\ \A d \in Dims : eff[d] = Governing(p, d)

\* The list of policies is read once, when the server starts.
LEMMA PoliciesFixed ==
  ASSUME [Next]_vars
  PROVE  policies' = policies /\ \A p, d : Governing(p, d)' = Governing(p, d)
<1>1. policies' = policies
  BY DEF Next, vars, Tick, Arrive, Store, Embed, Begin, PassStep, NextPair, SweepMaxAge,
     SweepMaxCount, SweepMaxBytes, SweepVectors, DropEvents, Finish, Fail, Stop, pass
<1> QED
  BY <1>1 DEF Governing

\* Which steps change the events, and how.
LEMMA EventsStep ==
  ASSUME [Next]_vars
  PROVE  \/ events' = events
         \/ \E r \in Arrivals : events' = InsertOrIgnore(events, <<r>>)
         \/ events' \subseteq events
  BY DEF Next, vars, Tick, Arrive, Store, Embed, Begin, PassStep, NextPair, SweepMaxAge,
     SweepMaxCount, SweepMaxBytes, SweepVectors, DropEvents, Finish, Fail, Stop

LEMMA LimitsInit == Init => LimitsInv
  BY DEF Init, LimitsInv, UniqueIds, Sweeping

LEMMA LimitsNext == TypeOK /\ LimitsInv /\ [Next]_vars => LimitsInv'
<1> SUFFICES ASSUME TypeOK, LimitsInv, [Next]_vars PROVE LimitsInv'
  OBVIOUS
<1>1. UniqueIds(events)'
  <2>1. CASE \E r \in Arrivals : events' = InsertOrIgnore(events, <<r>>)
    BY <2>1, InsertOne DEF UniqueIds, LimitsInv
  <2> QED
    BY <2>1, EventsStep DEF UniqueIds, LimitsInv
<1>2. \A p, d : Governing(p, d)' = Governing(p, d)
  BY PoliciesFixed
<1>3. ASSUME phase' \in Sweeping, UNCHANGED <<cur, eff>>, phase \in Sweeping
      PROVE  \E p \in Pairs : p = cur' /\ \A d \in Dims : eff'[d] = Governing(p, d)'
  <2>1. PICK p \in Pairs : p = cur /\ \A d \in Dims : eff[d] = Governing(p, d)
    BY <1>3 DEF LimitsInv
  <2> QED
    BY <2>1, <1>2, <1>3
<1>4. ASSUME NEW p \in todo, NextPair(p)
      PROVE  \E q \in Pairs : q = cur' /\ \A d \in Dims : eff'[d] = Governing(q, d)'
  <2>1. p \in Pairs /\ cur' = p /\ eff' = Resolve(policies, p)
    BY <1>4 DEF NextPair, TypeOK
  <2>2. \A d \in Dims : eff'[d] = Governing(p, d)
    BY <2>1, ResolveGoverns DEF TypeOK
  <2> QED
    BY <2>1, <2>2, <1>2
<1>5. phase' \in Sweeping => \/ phase \in Sweeping /\ UNCHANGED <<cur, eff>>
                             \/ \E p \in todo : NextPair(p)
  BY DEF Next, vars, Tick, Arrive, Store, Embed, Begin, PassStep, SweepMaxAge, pass,
     SweepMaxCount, SweepMaxBytes, SweepVectors, DropEvents, Finish, Fail, Stop, Sweeping
<1> QED
  BY <1>1, <1>3, <1>4, <1>5 DEF LimitsInv

\* The newer rows of r's pair.
Newer(E, r) == {q \in OfPair(E, r.pair) : Before(r, q)}

\* Rows of different event_ids are ordered.
LEMMA BeforeTotal ==
  ASSUME NEW r \in Arrivals, NEW q \in Arrivals, r.id # q.id
  PROVE  (Before(r, q) \/ Before(q, r)) /\ ~(Before(r, q) /\ Before(q, r))
  BY RowFacts DEF Before

LEMMA ExcessValue ==
  ASSUME NEW n \in Nat, NEW keep \in Nat
  PROVE  Max({n - keep, 0}) = IF n >= keep THEN n - keep ELSE 0
<1> DEFINE m == IF n >= keep THEN n - keep ELSE 0
<1>1. m \in {n - keep, 0} /\ \A y \in {n - keep, 0} : m >= y
  OBVIOUS
<1>2. ASSUME NEW x \in {n - keep, 0}, \A y \in {n - keep, 0} : x >= y
      PROVE  x = m
  BY <1>2
<1> QED
  BY <1>1, <1>2 DEF Max

\* The rows that LIMIT takes are those with at least max_count newer ones,
\* and no more than max_count stay.
LEMMA CountDrop ==
  ASSUME NEW E \in SUBSET Arrivals, UniqueIds(E), NEW p, NEW keep \in Nat,
         NEW rows, IsFirst(rows, OfPair(E, p), ExcessCount(E, p, keep))
  PROVE  /\ rows = {r \in OfPair(E, p) : Cardinality(Newer(E, r)) >= keep}
         /\ Cardinality(OfPair(E, p) \ rows) <= keep
<1> DEFINE M == OfPair(E, p)
           n == Cardinality(M)
           k == IF n >= keep THEN n - keep ELSE 0
<1>1. M \in SUBSET E /\ M \in SUBSET Arrivals /\ \A r \in M : r.pair = p
  BY DEF OfPair
<1>2. IsFiniteSet(M) /\ n \in Nat
  BY <1>1, RowsFinite
<1>3. ExcessCount(E, p, keep) = k
  BY <1>2, ExcessValue DEF ExcessCount
<1>4. /\ rows \subseteq M /\ Cardinality(rows) = k
      /\ \A a \in rows : \A b \in M : Before(b, a) => b \in rows
  BY <1>2, <1>3 DEF IsFirst
<1>5. Cardinality(M \ rows) = n - k /\ IsFiniteSet(M \ rows)
  <2>1. M \cap rows = rows
    BY <1>4
  <2> QED
    BY <1>2, <1>4, <2>1, FS_Difference
<1>6. ASSUME NEW r \in rows PROVE Cardinality(Newer(E, r)) >= keep
  <2>1. Newer(E, r) \in SUBSET Arrivals
    BY <1>1 DEF Newer, OfPair
  <2>2. M \ rows \in SUBSET Newer(E, r)
    <3>1. ASSUME NEW q \in M \ rows PROVE Before(r, q)
      <4>1. r.id # q.id /\ r \in Arrivals /\ q \in Arrivals
        BY <1>1, <1>4 DEF UniqueIds
      <4> QED
        BY <4>1, <1>4, BeforeTotal
    <3> QED
      BY <3>1, <1>1, <1>4 DEF Newer
  <2>3. Cardinality(M \ rows) <= Cardinality(Newer(E, r))
    BY <2>1, <2>2, RowsFinite, FS_Subset
  <2>4. k > 0
    <3>1. rows # {} /\ IsFiniteSet(rows)
      BY <1>2, <1>4, FS_Subset
    <3>2. k # 0
      BY <3>1, <1>4, FS_EmptySet
    <3> QED
      BY <3>2, <1>2
  <2>5. Cardinality(Newer(E, r)) \in Nat
    BY <2>1, RowsFinite
  <2> HIDE DEF M, n
  <2> QED
    BY <2>3, <2>4, <2>5, <1>2, <1>5
<1>7. ASSUME NEW r \in M \ rows PROVE ~(Cardinality(Newer(E, r)) >= keep)
  <2>1. Newer(E, r) \in SUBSET (M \ rows) /\ r \notin Newer(E, r)
    <3>1. ASSUME NEW q \in Newer(E, r) PROVE q \in M \ rows
      BY <1>1, <1>4 DEF Newer
    <3>2. ~Before(r, r)
      BY <1>1, RowFacts DEF Before
    <3> QED
      BY <3>1, <3>2 DEF Newer
  <2>2. Newer(E, r) \in SUBSET ((M \ rows) \ {r})
    BY <2>1
  <2>3. IsFiniteSet((M \ rows) \ {r}) /\ Cardinality((M \ rows) \ {r}) = n - k - 1
    BY <1>5, FS_RemoveElement
  <2>4. Cardinality(Newer(E, r)) <= n - k - 1
    BY <2>2, <2>3, FS_Subset
  <2>5. Cardinality(Newer(E, r)) \in Nat
    BY <2>2, <2>3, FS_Subset, FS_CardinalityType
  <2> HIDE DEF M, n
  <2> QED
    BY <2>4, <2>5, <1>2
<1>8. n - k <= keep
  <2> HIDE DEF n
  <2> QED
    BY <1>2
<1> QED
  BY <1>4, <1>5, <1>6, <1>7, <1>8

\* Limit d of r's pair condemns r among the rows E in a pass that began at a.
Condemns(E, a, r, d) ==
  LET m == Governing(r.pair, d)
  IN  CASE d = "max_age" -> Over(m, r.ts < a - m)
        [] d = "max_count" -> Over(m, Cardinality(Newer(E, r)) >= m)
        [] d = "max_bytes" -> Over(m, BytesDownTo(E, r) > m)

Condemned(E, a, p, d) == {r \in OfPair(E, p) : Condemns(E, a, r, d)}

Expired(V, a, p) ==
  {r \in OfPair(V, p) : Over(Governing(p, "vector_max_age"),
                             r.ts < a - Governing(p, "vector_max_age"))}

After == [d \in EventDims |-> CASE d = "max_age" -> "max_count"
                                [] d = "max_count" -> "max_bytes"
                                [] d = "max_bytes" -> "vectors"]

\* The statement of the cold store for dimension d and pair p.
EventSweep(d, p) ==
  /\ phase = d
  /\ p = cur
  /\ DropEvents(Condemned(events, at, p, d), After[d])

\* The statement of the vector index for pair p.
VectorSweep(p) ==
  /\ phase = "vectors"
  /\ p = cur
  /\ report' = [report EXCEPT !.vectors = @ + Cardinality(Expired(vectors, at, p))]
  /\ IF dry THEN UNCHANGED <<vectors, vpresent>>
     ELSE /\ vectors' = vectors \ Expired(vectors, at, p)
          /\ vpresent' = vpresent \ Expired(vectors, at, p)
  /\ phase' = "next"
  /\ UNCHANGED <<policies, events, inputs, dry, at, todo, cur, eff, ended,
                 failures, dryRuns, present, listed, forecast>>

LEMMA GoverningType ==
  ASSUME TypeOK, NEW p, NEW d \in Dims
  PROVE  Governing(p, d) \in Limit /\ (Governing(p, d) # None => Governing(p, d) \in Nat)
<1>1. Governing(p, d) \in Limit
  BY ResolveGoverns DEF TypeOK, Limits
<1> QED
  BY <1>1 DEF Limit

\* Each statement takes the rows that its dimension condemns.
LEMMA SweepMeaning ==
  ASSUME TypeOK, LimitsInv
  PROVE  /\ SweepMaxAge => \E p \in Pairs : EventSweep("max_age", p)
         /\ SweepMaxCount => \E p \in Pairs : EventSweep("max_count", p)
         /\ SweepMaxBytes => \E p \in Pairs : EventSweep("max_bytes", p)
         /\ SweepVectors => \E p \in Pairs : VectorSweep(p)
<1>1. ASSUME phase \in Sweeping
      PROVE  \E p \in Pairs : p = cur /\ \A d \in Dims : eff[d] = Governing(p, d)
  BY <1>1 DEF LimitsInv
<1>2. ASSUME SweepMaxAge PROVE \E p \in Pairs : EventSweep("max_age", p)
  <2>1. PICK p \in Pairs : p = cur /\ \A d \in Dims : eff[d] = Governing(p, d)
    BY <1>1, <1>2 DEF SweepMaxAge, Sweeping
  <2>2. (IF eff["max_age"] = None THEN {} ELSE TooOld(events, cur, at - eff["max_age"]))
          = Condemned(events, at, p, "max_age")
    <3>1. eff["max_age"] = Governing(p, "max_age")
      BY <2>1 DEF Dims
    <3> QED
      BY <2>1, <3>1 DEF Condemned, Condemns, TooOld, OfPair, Over
  <2> QED
    BY <1>2, <2>1, <2>2 DEF SweepMaxAge, EventSweep, After, EventDims
<1>3. ASSUME SweepMaxCount PROVE \E p \in Pairs : EventSweep("max_count", p)
  <2>1. PICK p \in Pairs : p = cur /\ \A d \in Dims : eff[d] = Governing(p, d)
    BY <1>1, <1>3 DEF SweepMaxCount, Sweeping
  <2> DEFINE keep == Governing(p, "max_count")
  <2>2. eff["max_count"] = keep
    BY <2>1 DEF Dims
  <2>3. PICK rows \in SUBSET OfPair(events, p) :
          /\ IsFirst(rows, OfPair(events, p),
                     IF keep = None THEN 0 ELSE ExcessCount(events, p, keep))
          /\ DropEvents(rows, "max_bytes")
    BY <1>3, <2>1, <2>2 DEF SweepMaxCount
  <2>4. rows = Condemned(events, at, p, "max_count")
    <3>1. CASE keep = None
      <4>1. OfPair(events, p) \in SUBSET Arrivals /\ rows \in SUBSET Arrivals
        BY DEF OfPair, TypeOK
      <4>2. Cardinality(rows) = 0
        BY <2>3, <3>1, <4>1, RowsFinite DEF IsFirst
      <4>3. rows = {}
        BY <4>1, <4>2, RowsFinite, FS_EmptySet
      <4>4. Condemned(events, at, p, "max_count") = {}
        BY <3>1 DEF Condemned, Condemns, OfPair, Over
      <4> QED
        BY <4>3, <4>4
    <3>2. CASE keep # None
      <4>1. keep \in Nat
        BY <3>2, GoverningType DEF Dims
      <4>2. events \in SUBSET Arrivals /\ UniqueIds(events)
        BY DEF TypeOK, LimitsInv
      <4>3. rows = {r \in OfPair(events, p) : Cardinality(Newer(events, r)) >= keep}
        BY <2>3, <3>2, <4>1, <4>2, CountDrop
      <4> QED
        BY <3>2, <4>3 DEF Condemned, Condemns, OfPair, Over
    <3> QED
      BY <3>1, <3>2
  <2> QED
    BY <1>3, <2>1, <2>3, <2>4 DEF SweepMaxCount, EventSweep, After, EventDims
<1>4. ASSUME SweepMaxBytes PROVE \E p \in Pairs : EventSweep("max_bytes", p)
  <2>1. PICK p \in Pairs : p = cur /\ \A d \in Dims : eff[d] = Governing(p, d)
    BY <1>1, <1>4 DEF SweepMaxBytes, Sweeping
  <2>2. (IF eff["max_bytes"] = None THEN {} ELSE TooBig(events, cur, eff["max_bytes"]))
          = Condemned(events, at, p, "max_bytes")
    <3>1. eff["max_bytes"] = Governing(p, "max_bytes")
      BY <2>1 DEF Dims
    <3> QED
      BY <2>1, <3>1 DEF Condemned, Condemns, TooBig, OfPair, Over
  <2> QED
    BY <1>4, <2>1, <2>2 DEF SweepMaxBytes, EventSweep, After, EventDims
<1>5. ASSUME SweepVectors PROVE \E p \in Pairs : VectorSweep(p)
  <2>1. PICK p \in Pairs : p = cur /\ \A d \in Dims : eff[d] = Governing(p, d)
    BY <1>1, <1>5 DEF SweepVectors, Sweeping
  <2> DEFINE m == eff["vector_max_age"]
  <2>2. (IF m = None THEN {} ELSE TooOld(vectors, cur, at - m)) = Expired(vectors, at, p)
    <3>1. m = Governing(p, "vector_max_age")
      BY <2>1 DEF Dims
    <3> QED
      BY <2>1, <3>1 DEF Expired, TooOld, OfPair, Over
  <2> QED
    BY <1>5, <2>1, <2>2 DEF SweepVectors, VectorSweep
<1> QED
  BY <1>2, <1>3, <1>4, <1>5

\* A step of a pass is one of these.
LEMMA StepCases ==
  ASSUME TypeOK, LimitsInv, [Next]_vars
  PROVE  \/ UNCHANGED vars
         \/ Tick
         \/ \E r \in Arrivals : Store(r)
         \/ \E r \in Arrivals : Embed(r)
         \/ Begin(TRUE)
         \/ Begin(FALSE)
         \/ \E p \in todo : NextPair(p)
         \/ \E d \in EventDims, p \in Pairs : EventSweep(d, p)
         \/ \E p \in Pairs : VectorSweep(p)
         \/ Finish
         \/ Fail
  BY SweepMeaning DEF Next, Arrive, PassStep, EventDims

\* One step deletes only what is condemned.
LEMMA UndueStep ==
  ASSUME TypeOK, LimitsInv, [Next]_vars
  PROVE  /\ \A r \in events \ events' : ~dry /\ \E d \in EventDims : Condemns(events, at, r, d)
         /\ \A r \in vectors \ vectors' :
              ~dry /\ Over(Governing(r.pair, "vector_max_age"),
                           r.ts < at - Governing(r.pair, "vector_max_age"))
<1>1. ASSUME NEW d \in EventDims, NEW p \in Pairs, EventSweep(d, p)
      PROVE  /\ vectors' = vectors
             /\ \A r \in events \ events' : ~dry /\ Condemns(events, at, r, d)
  BY <1>1 DEF EventSweep, DropEvents, Condemned
<1>2. ASSUME NEW p \in Pairs, VectorSweep(p)
      PROVE  /\ events' = events
             /\ \A r \in vectors \ vectors' :
                  ~dry /\ Over(Governing(r.pair, "vector_max_age"),
                               r.ts < at - Governing(r.pair, "vector_max_age"))
  BY <1>2 DEF VectorSweep, Expired, OfPair
<1>3. (\E r \in Arrivals : Store(r)) => events \subseteq events' /\ vectors' = vectors
  BY InsertOne DEF Store
<1>4. (\E r \in Arrivals : Embed(r)) => events' = events /\ vectors \subseteq vectors'
  BY DEF Embed
<1>5. \/ events \subseteq events' /\ vectors \subseteq vectors'
      \/ \E d \in EventDims, p \in Pairs : EventSweep(d, p)
      \/ \E p \in Pairs : VectorSweep(p)
  BY <1>3, <1>4, StepCases DEF vars, Tick, Begin, NextPair, Finish, Fail, Stop, pass, history
<1> QED
  BY <1>1, <1>2, <1>5

LEMMA LimitsAlways == Spec => [](TypeOK /\ LimitsInv)
<1>1. Init => TypeOK /\ LimitsInv
  BY TypeInit, LimitsInit
<1>2. TypeOK /\ LimitsInv /\ [Next]_vars => (TypeOK /\ LimitsInv)'
  BY TypeNext, LimitsNext
<1> QED
  BY <1>1, <1>2, PTL DEF Spec

\* A sweep never deletes an event or a vector that the policy governing its
\* pair does not condemn at that very moment, whatever list of policies the
\* operator wrote and whatever is stored between the statements; a dry-run
\* deletes nothing.
THEOREM RetentionDeletesNothingUndue == Spec => NothingUndue
<1> DEFINE A == /\ \A r \in events \ events' :
                     LET p == r.pair
                         newer == {q \in OfPair(events, p) : Before(r, q)}
                     IN  /\ ~dry
                         /\ \/ Over(Governing(p, "max_age"), r.ts < at - Governing(p, "max_age"))
                            \/ Over(Governing(p, "max_count"),
                                    Cardinality(newer) >= Governing(p, "max_count"))
                            \/ Over(Governing(p, "max_bytes"),
                                    BytesDownTo(events, r) > Governing(p, "max_bytes"))
                /\ \A r \in vectors \ vectors' :
                     LET m == Governing(r.pair, "vector_max_age")
                     IN  ~dry /\ Over(m, r.ts < at - m)
<1>1. TypeOK /\ LimitsInv /\ [Next]_vars => [A]_vars
  <2> SUFFICES ASSUME TypeOK, LimitsInv, [Next]_vars PROVE A
    OBVIOUS
  <2> QED
    BY UndueStep DEF Condemns, EventDims, Newer
<1>2. NothingUndue <=> [][A]_vars
  BY DEF NothingUndue
<1> HIDE DEF A
<1> QED
  BY <1>1, <1>2, LimitsAlways, PTL DEF Spec

\* Whatever list the configuration check lets through, the limits that the
\* tiers merge to are in every dimension those of the first policy of the most
\* specific level that sets it.
THEOREM ResolutionIsMostSpecific ==
  Spec => [](\A p \in Pairs : \A d \in Dims : Resolve(policies, p)[d] = Governing(p, d))
<1>1. TypeOK => \A p \in Pairs : \A d \in Dims : Resolve(policies, p)[d] = Governing(p, d)
  BY ResolveGoverns DEF TypeOK
<1> QED
  BY <1>1, RetentionTypeCorrect, PTL

-----------------------------------------------------------------------------
(* Sums of sizes                                                           *)

Bytes(S) == MapThenSumSet(LAMBDA q : q.size, S)

Pick(s) == CHOOSE x \in s : TRUE

\* F sums the sizes of the sets of arrivals.
SumsSizes(F) ==
  \A s \in SUBSET Arrivals :
    F[s] = IF s = {} THEN 0 ELSE Pick(s).size + F[s \ {Pick(s)}]

LEMMA SumExists == \E F \in [SUBSET Arrivals -> Nat] : SumsSizes(F)
<1> DEFINE G == [y \in Nat \X Arrivals |-> y[2].size + y[1]]
           ch == [s \in SUBSET Arrivals |-> Pick(s)]
<1>1. G \in [Nat \X Arrivals -> Nat]
  BY RowFacts
<1>2. ASSUME NEW s \in SUBSET Arrivals, s # {} PROVE Pick(s) \in s
  BY <1>2 DEF Pick
<1>3. Picks(ch, Arrivals)
  BY <1>2 DEF Picks
<1>4. IsFiniteSet(Arrivals) /\ 0 \in Nat
  BY RetentionAssumption
<1> HIDE DEF G, ch
<1>5. PICK F \in [SUBSET Arrivals -> Nat] : IsFold(F, Arrivals, 0, G, ch)
  BY <1>1, <1>3, <1>4, FoldExists
<1>6. ASSUME NEW s \in SUBSET Arrivals
      PROVE  F[s] = IF s = {} THEN 0 ELSE Pick(s).size + F[s \ {Pick(s)}]
  <2>1. CASE s = {}
    BY <1>5, <2>1 DEF IsFold
  <2>2. CASE s # {}
    <3>1. ch[s] = Pick(s) /\ Pick(s) \in Arrivals /\ F[s \ {Pick(s)}] \in Nat
      BY <1>2, <1>5, <2>2 DEF ch
    <3>2. F[s] = G[<<F[s \ {Pick(s)}], Pick(s)>>]
      BY <1>5, <2>2, <3>1 DEF IsFold
    <3> QED
      BY <2>2, <3>1, <3>2 DEF G
  <2> QED
    BY <2>1, <2>2
<1> QED
  BY <1>5, <1>6 DEF SumsSizes

\* The community modules' sum over S is that function's value.
LEMMA BytesIsSum ==
  ASSUME NEW F \in [SUBSET Arrivals -> Nat], SumsSizes(F), NEW S \in SUBSET Arrivals
  PROVE  Bytes(S) = F[S]
<1> DEFINE Eqn(it) == it = [s \in SUBSET S |-> IF s = {} THEN 0
                                               ELSE Pick(s).size + it[s \ {Pick(s)}]]
           g == CHOOSE it : Eqn(it)
           f == [s \in SUBSET S |-> F[s]]
<1>1. ASSUME NEW s \in SUBSET S, s # {} PROVE Pick(s) \in s
  BY <1>1 DEF Pick
<1>2. Eqn(f)
  <2>1. ASSUME NEW s \in SUBSET S
        PROVE  f[s] = IF s = {} THEN 0 ELSE Pick(s).size + f[s \ {Pick(s)}]
    BY DEF SumsSizes
  <2> QED
    BY <2>1
<1> HIDE DEF f
<1>3. Eqn(g)
  BY <1>2
<1>4. Bytes(S) = g[S]
  BY DEF Bytes, MapThenSumSet, MapThenFoldSet, Pick
<1> HIDE DEF g
<1> DEFINE Bad == {s \in SUBSET S : g[s] # F[s]}
           T == {Cardinality(s) : s \in Bad}
<1>5. Bad = {}
  <2>1. SUFFICES ASSUME Bad # {} PROVE FALSE
    OBVIOUS
  <2>2. \A s \in SUBSET S : s \in SUBSET Arrivals /\ IsFiniteSet(s) /\ Cardinality(s) \in Nat
    BY RowsFinite
  <2>3. T \in SUBSET Nat /\ T # {}
    BY <2>1, <2>2
  <2>4. PICK n \in T : \A k \in T : n <= k
    BY <2>3, NatMin
  <2>5. PICK s \in Bad : n = Cardinality(s)
    OBVIOUS
  <2>6. s # {}
    <3>1. g[{}] = 0 /\ F[{}] = 0
      BY <1>3 DEF SumsSizes
    <3> QED
      BY <3>1
  <2> DEFINE u == s \ {Pick(s)}
  <2>7. Cardinality(u) = n - 1 /\ n \in Nat
    BY <1>1, <2>2, <2>5, <2>6, FS_RemoveElement
  <2>8. u \in SUBSET S /\ u \notin Bad
    BY <2>4, <2>7
  <2>9. g[s] = Pick(s).size + g[u]
    BY <1>3, <2>6
  <2>10. F[s] = Pick(s).size + F[u]
    BY <2>6 DEF SumsSizes
  <2> QED
    BY <2>8, <2>9, <2>10
<1> QED
  BY <1>4, <1>5

LEMMA BytesEmpty == Bytes({}) = 0
<1>1. PICK F \in [SUBSET Arrivals -> Nat] : SumsSizes(F)
  BY SumExists
<1>2. Bytes({}) = F[{}] /\ F[{}] = 0
  BY <1>1, BytesIsSum DEF SumsSizes
<1> QED
  BY <1>2

LEMMA BytesNat ==
  ASSUME NEW S \in SUBSET Arrivals
  PROVE  Bytes(S) \in Nat
<1>1. PICK F \in [SUBSET Arrivals -> Nat] : SumsSizes(F)
  BY SumExists
<1> QED
  BY <1>1, BytesIsSum

\* The sum does not depend on the order in which the rows are taken: any row
\* can be the first.
LEMMA BytesStep ==
  ASSUME NEW S \in SUBSET Arrivals, NEW x \in S
  PROVE  Bytes(S) = x.size + Bytes(S \ {x})
<1>1. PICK F \in [SUBSET Arrivals -> Nat] : SumsSizes(F)
  BY SumExists
<1> DEFINE Bad == {s \in SUBSET Arrivals : \E y \in s : F[s] # y.size + F[s \ {y}]}
           T == {Cardinality(s) : s \in Bad}
<1>2. Bad = {}
  <2>1. SUFFICES ASSUME Bad # {} PROVE FALSE
    OBVIOUS
  <2>2. \A s \in SUBSET Arrivals : IsFiniteSet(s) /\ Cardinality(s) \in Nat
    BY RowsFinite
  <2>3. T \in SUBSET Nat /\ T # {}
    BY <2>1, <2>2
  <2>4. PICK n \in T : \A k \in T : n <= k
    BY <2>3, NatMin
  <2>5. PICK s \in Bad : n = Cardinality(s)
    OBVIOUS
  <2>6. PICK y \in s : F[s] # y.size + F[s \ {y}]
    OBVIOUS
  <2> DEFINE z == Pick(s)
             u == s \ {z}
             v == s \ {y}
             w == s \ {z, y}
  <2>7. z \in s
    BY <2>6 DEF Pick
  <2>8. F[s] = z.size + F[u]
    BY <1>1, <2>6 DEF SumsSizes
  <2> HIDE DEF z
  <2>9. z # y
    BY <2>6, <2>8
  <2>10. Cardinality(u) = n - 1 /\ Cardinality(v) = n - 1 /\ n \in Nat
    BY <2>2, <2>5, <2>6, <2>7, FS_RemoveElement
  <2>11. u \in SUBSET Arrivals /\ u \notin Bad /\ v \in SUBSET Arrivals /\ v \notin Bad
    <3>1. u \in SUBSET Arrivals /\ v \in SUBSET Arrivals
      OBVIOUS
    <3>2. n - 1 \notin T
      BY <2>4, <2>10
    <3> HIDE DEF Bad
    <3>3. u \notin Bad /\ v \notin Bad
      BY <3>2, <2>10
    <3> QED
      BY <3>1, <3>3
  <2>12. F[u] = y.size + F[w]
    <3>1. y \in u /\ w = u \ {y}
      BY <2>6, <2>9
    <3> QED
      BY <2>11, <3>1
  <2>13. F[v] = z.size + F[w]
    <3>1. z \in v /\ w = v \ {z}
      BY <2>7, <2>9
    <3> QED
      BY <2>11, <3>1
  <2>14. z.size \in Nat /\ y.size \in Nat /\ F[w] \in Nat
    BY <2>6, <2>7, <1>1, RowFacts
  <2>15. F[s] = z.size + (y.size + F[w]) /\ F[s] # y.size + (z.size + F[w])
    BY <2>6, <2>8, <2>12, <2>13
  <2> QED
    BY <2>14, <2>15
<1>3. F[S] = x.size + F[S \ {x}]
  BY <1>2
<1>4. Bytes(S) = F[S] /\ Bytes(S \ {x}) = F[S \ {x}]
  BY <1>1, BytesIsSum
<1> QED
  BY <1>3, <1>4

\* Fewer rows are not more bytes.
LEMMA BytesMonotone ==
  ASSUME NEW S \in SUBSET Arrivals, NEW R \in SUBSET S
  PROVE  Bytes(R) <= Bytes(S)
<1> DEFINE Bad == {s \in SUBSET S : R \subseteq s /\ ~(Bytes(R) <= Bytes(s))}
           T == {Cardinality(s) : s \in Bad}
<1>1. Bad = {}
  <2>1. SUFFICES ASSUME Bad # {} PROVE FALSE
    OBVIOUS
  <2>2. \A s \in SUBSET S : s \in SUBSET Arrivals /\ IsFiniteSet(s) /\ Cardinality(s) \in Nat
    BY RowsFinite
  <2>3. T \in SUBSET Nat /\ T # {}
    BY <2>1, <2>2
  <2>4. PICK n \in T : \A k \in T : n <= k
    BY <2>3, NatMin
  <2>5. PICK s \in Bad : n = Cardinality(s)
    OBVIOUS
  <2>6. Bytes(R) \in Nat /\ Bytes(s) \in Nat
    BY <2>2, BytesNat
  <2>7. s # R
    BY <2>6
  <2>8. PICK x \in s : x \notin R
    BY <2>7
  <2>9. Cardinality(s \ {x}) = n - 1 /\ n \in Nat
    BY <2>2, <2>5, FS_RemoveElement
  <2>10. s \ {x} \in SUBSET S /\ R \subseteq s \ {x} /\ s \ {x} \notin Bad
    BY <2>4, <2>8, <2>9
  <2>11. Bytes(R) <= Bytes(s \ {x})
    BY <2>10
  <2>12. Bytes(s) = x.size + Bytes(s \ {x})
    BY <2>2, BytesStep
  <2>13. x.size \in Nat /\ Bytes(s \ {x}) \in Nat
    BY <2>2, BytesNat, RowFacts
  <2>14. ~(Bytes(R) <= Bytes(s))
    OBVIOUS
  <2> QED
    BY <2>6, <2>11, <2>12, <2>13, <2>14
<1>2. S \notin Bad
  BY <1>1
<1> QED
  BY <1>2

-----------------------------------------------------------------------------
(* What a pass leaves is within the limits                                 *)

\* A pair's oldest row.
LEMMA OldestRow ==
  ASSUME NEW S \in SUBSET Arrivals, UniqueIds(S), S # {}
  PROVE  \E r \in S : \A q \in S : q = r \/ Before(r, q)
<1> DEFINE T == {r.ts : r \in S}
<1>1. T \in SUBSET Nat /\ T # {}
  BY RowFacts
<1>2. PICK t \in T : \A u \in T : t <= u
  BY <1>1, NatMin
<1> DEFINE I == {r.id : r \in {q \in S : q.ts = t}}
<1>3. I \in SUBSET Nat /\ I # {}
  BY RowFacts
<1>4. PICK i \in I : \A j \in I : i <= j
  BY <1>3, NatMin
<1>5. PICK r \in S : r.ts = t /\ r.id = i
  OBVIOUS
<1>6. ASSUME NEW q \in S, q # r PROVE Before(r, q)
  <2>1. q.id # r.id /\ q.id \in Nat /\ r.id \in Nat /\ q.ts \in Nat /\ r.ts \in Nat
    BY <1>6, RowFacts DEF UniqueIds
  <2>2. r.ts <= q.ts
    BY <1>2, <1>5
  <2>3. q.ts = r.ts => r.id <= q.id
    BY <1>4, <1>5
  <2> QED
    BY <2>1, <2>2, <2>3 DEF Before
<1> QED
  BY <1>6

\* The rows of a pair with fewer than max_count newer ones are at most
\* max_count.
LEMMA CountLeft ==
  ASSUME NEW E \in SUBSET Arrivals, UniqueIds(E), NEW p, NEW keep \in Nat,
         NEW S \in SUBSET OfPair(E, p), \A r \in S : ~(Cardinality(Newer(E, r)) >= keep)
  PROVE  Cardinality(S) <= keep
<1>1. OfPair(E, p) \in SUBSET E /\ S \in SUBSET Arrivals /\ UniqueIds(S)
  BY DEF OfPair, UniqueIds
<1>2. CASE S = {}
  BY <1>2, FS_EmptySet
<1>3. CASE S # {}
  <2>1. PICK r \in S : \A q \in S : q = r \/ Before(r, q)
    BY <1>1, <1>3, OldestRow
  <2>2. Newer(E, r) \in SUBSET Arrivals
    BY DEF Newer, OfPair
  <2>3. S \subseteq Newer(E, r) \cup {r}
    BY <2>1 DEF Newer, OfPair
  <2>4. /\ IsFiniteSet(Newer(E, r) \cup {r})
        /\ Cardinality(Newer(E, r) \cup {r}) <= Cardinality(Newer(E, r)) + 1
        /\ Cardinality(Newer(E, r) \cup {r}) \in Nat
        /\ Cardinality(Newer(E, r)) \in Nat
    <3>1. IsFiniteSet(Newer(E, r)) /\ Cardinality(Newer(E, r)) \in Nat
      BY <2>2, RowsFinite
    <3>2. /\ IsFiniteSet(Newer(E, r) \cup {r})
          /\ Cardinality(Newer(E, r) \cup {r}) =
               IF r \in Newer(E, r) THEN Cardinality(Newer(E, r))
               ELSE Cardinality(Newer(E, r)) + 1
      BY <3>1, FS_AddElement, Zenon
    <3> QED
      BY <3>1, <3>2
  <2>5. Cardinality(S) <= Cardinality(Newer(E, r) \cup {r})
    BY <2>3, <2>4, FS_Subset
  <2>6. Cardinality(S) \in Nat /\ ~(Cardinality(Newer(E, r)) >= keep)
    BY <1>1, RowsFinite
  <2> QED
    BY <2>4, <2>5, <2>6
<1> QED
  BY <1>2, <1>3

\* The rows of a pair at which the running total is within the budget are
\* within it together.
LEMMA BytesLeft ==
  ASSUME NEW E \in SUBSET Arrivals, UniqueIds(E), NEW p, NEW budget \in Nat,
         NEW S \in SUBSET OfPair(E, p), \A r \in S : ~(BytesDownTo(E, r) > budget)
  PROVE  Bytes(S) <= budget
<1>1. OfPair(E, p) \in SUBSET E /\ S \in SUBSET Arrivals /\ UniqueIds(S)
  BY DEF OfPair, UniqueIds
<1>2. CASE S = {}
  BY <1>2, BytesEmpty
<1>3. CASE S # {}
  <2>1. PICK r \in S : \A q \in S : q = r \/ Before(r, q)
    BY <1>1, <1>3, OldestRow
  <2> DEFINE D == {q \in OfPair(E, r.pair) : q = r \/ Before(r, q)}
  <2>2. BytesDownTo(E, r) = Bytes(D)
    BY DEF BytesDownTo, Bytes
  <2>3. D \in SUBSET Arrivals /\ S \in SUBSET D
    BY <2>1 DEF OfPair
  <2> HIDE DEF D
  <2>4. Bytes(S) <= Bytes(D) /\ Bytes(S) \in Nat /\ Bytes(D) \in Nat
    BY <2>3, <1>1, BytesMonotone, BytesNat
  <2>5. ~(Bytes(D) > budget)
    BY <2>2
  <2> QED
    BY <2>4, <2>5
<1> QED
  BY <1>2, <1>3

\* The rows S of a pair are within its limit m in dimension d, in a pass that
\* began at a.
Within(S, a, d, m) ==
  CASE d = "max_age" -> \A r \in S : ~Over(m, r.ts < a - m)
    [] d = "max_count" -> ~Over(m, Cardinality(S) > m)
    [] d = "max_bytes" -> ~Over(m, Bytes(S) > m)

LEMMA WithinEmpty ==
  ASSUME NEW a, NEW d \in EventDims, NEW m \in Limit
  PROVE  Within({}, a, d, m)
<1>1. Bytes({}) = 0 /\ Cardinality({}) = 0 /\ (m # None => m \in Nat)
  BY BytesEmpty, FS_EmptySet DEF Limit
<1>2. m # None => ~(0 > m)
  BY <1>1
<1>3. CASE d = "max_age"
  BY <1>3 DEF Within
<1>4. CASE d = "max_count"
  BY <1>1, <1>2, <1>4 DEF Within, Over
<1>5. CASE d = "max_bytes"
  BY <1>1, <1>2, <1>5 DEF Within, Over
<1> QED
  BY <1>3, <1>4, <1>5 DEF EventDims

LEMMA WithinUnset ==
  ASSUME NEW S, NEW a, NEW d \in EventDims
  PROVE  Within(S, a, d, None)
  BY DEF Within, EventDims, Over

LEMMA WithinFewer ==
  ASSUME NEW S \in SUBSET Arrivals, NEW R \in SUBSET S,
         NEW a, NEW d \in EventDims, NEW m \in Limit, Within(S, a, d, m)
  PROVE  Within(R, a, d, m)
<1>1. R \in SUBSET Arrivals /\ (m # None => m \in Nat)
  BY DEF Limit
<1>2. Cardinality(R) <= Cardinality(S) /\ Cardinality(R) \in Nat /\ Cardinality(S) \in Nat
  BY <1>1, RowsFinite, FS_Subset
<1>3. Bytes(R) <= Bytes(S) /\ Bytes(R) \in Nat /\ Bytes(S) \in Nat
  BY <1>1, BytesMonotone, BytesNat
<1>4. CASE d = "max_age"
  BY <1>4 DEF Within
<1>5. CASE d = "max_count"
  BY <1>1, <1>2, <1>5 DEF Within, Over
<1>6. CASE d = "max_bytes"
  BY <1>1, <1>3, <1>6 DEF Within, Over
<1> QED
  BY <1>4, <1>5, <1>6 DEF EventDims

\* What a statement leaves of a pair is within the limit it enforces.
LEMMA WithinAfter ==
  ASSUME TypeOK, LimitsInv, NEW p \in Pairs, NEW d \in EventDims,
         NEW S \in SUBSET (OfPair(events, p) \ Condemned(events, at, p, d))
  PROVE  Within(S, at, d, Governing(p, d))
<1> DEFINE m == Governing(p, d)
<1>1. events \in SUBSET Arrivals /\ UniqueIds(events) /\ S \in SUBSET OfPair(events, p)
  BY DEF TypeOK, LimitsInv
<1>2. m # None => m \in Nat
  BY GoverningType DEF EventDims, Dims
<1>3. \A r \in S : r.pair = p /\ ~Condemns(events, at, r, d)
  BY DEF Condemned, OfPair
<1>4. CASE m = None
  BY <1>4, WithinUnset
<1>5. CASE m # None /\ d = "max_age"
  BY <1>3, <1>5 DEF Condemns, Within
<1>6. CASE m # None /\ d = "max_count"
  <2>1. \A r \in S : ~(Cardinality(Newer(events, r)) >= m)
    BY <1>3, <1>6 DEF Condemns, Over
  <2>2. Cardinality(S) <= m
    BY <1>1, <1>2, <1>6, <2>1, CountLeft
  <2>3. Cardinality(S) \in Nat
    BY <1>1, RowsFinite DEF OfPair
  <2> QED
    BY <1>2, <1>6, <2>2, <2>3 DEF Within, Over
<1>7. CASE m # None /\ d = "max_bytes"
  <2>1. \A r \in S : ~(BytesDownTo(events, r) > m)
    BY <1>3, <1>7 DEF Condemns, Over
  <2>2. Bytes(S) <= m
    BY <1>1, <1>2, <1>7, <2>1, BytesLeft
  <2>3. Bytes(S) \in Nat
    BY <1>1, BytesNat DEF OfPair
  <2> QED
    BY <1>2, <1>7, <2>2, <2>3 DEF Within, Over
<1> QED
  BY <1>4, <1>5, <1>6, <1>7 DEF EventDims

\* The pass does a pair's dimensions in this order.
Place == [d \in Sweeping |-> CASE d = "max_age" -> 1 [] d = "max_count" -> 2
                               [] d = "max_bytes" -> 3 [] d = "vectors" -> 4]

\* The pass has done dimension d of p, or has nothing to do for p.
Past(p, d) == /\ p \notin todo
              /\ (p = cur /\ phase \in Sweeping) => Place[d] < Place[phase]

\* No row of V, p's vectors, is past the pair's vector_max_age.
VectorsWithin(V, a, m) == \A r \in V : ~Over(m, r.ts < a - m)

\* A real pass that has not failed is under way, or the last one was real and
\* ended well.
RealPass == ~dry /\ (phase = "idle" => ended = "ok")

\* Whatever is stored meanwhile, the rows that were there when the pass began
\* are within the limits the pass has done; pairs it did not list had none.
EnforceInv ==
  /\ phase = "idle" => todo = {}
  /\ RealPass =>
       /\ todo \subseteq listed
       /\ \A p \in Pairs : p \notin listed => OfPair(present, p) = {}
       /\ \A p \in Pairs : \A d \in EventDims :
            Past(p, d) => Within(OfPair(present, p), at, d, Governing(p, d))
       /\ \A p \in Pairs : p \in listed /\ Past(p, "vectors") =>
            VectorsWithin(OfPair(vpresent, p), at, Governing(p, "vector_max_age"))

LEMMA EnforceInit == Init => EnforceInv
  BY DEF Init, EnforceInv, RealPass

\* A real pass begins with nothing done.
LEMMA EnforceBegin ==
  ASSUME TypeOK, LimitsInv, Begin(FALSE)
  PROVE  EnforceInv'
<1>1. /\ phase' = "next" /\ todo' = PairsOf(events) /\ listed' = todo'
      /\ present' = events /\ at' = now /\ policies' = policies
  BY DEF Begin
<1>2. ASSUME NEW p \in Pairs, p \notin listed' PROVE OfPair(present, p)' = {}
  BY <1>1, <1>2 DEF PairsOf, OfPair
<1>3. ASSUME NEW p \in Pairs, NEW d \in EventDims, Past(p, d)'
      PROVE  Within(OfPair(present, p), at, d, Governing(p, d))'
  <2>1. OfPair(present, p)' = {}
    BY <1>1, <1>2, <1>3 DEF Past
  <2>2. Governing(p, d)' = Governing(p, d) /\ Governing(p, d) \in Limit
    <3>1. Governing(p, d)' = Governing(p, d)
      BY <1>1 DEF Governing
    <3>2. Governing(p, d) \in Limit
      BY GoverningType DEF EventDims, Dims
    <3> QED
      BY <3>1, <3>2
  <2>3. Within({}, at', d, Governing(p, d))
    BY <2>2, WithinEmpty
  <2> QED
    BY <2>1, <2>2, <2>3
<1>4. ASSUME NEW p \in Pairs, p \in listed', Past(p, "vectors")' PROVE FALSE
  BY <1>1, <1>4 DEF Past
<1> QED
  BY <1>1, <1>2, <1>3, <1>4 DEF EnforceInv

\* Steps in which no row goes and no pair is done leave the invariant as it is.
LEMMA EnforceSame ==
  ASSUME TypeOK, LimitsInv, EnforceInv, [Next]_vars, dry' = dry, ended' = ended, at' = at,
         UNCHANGED <<phase, todo, cur, listed, present, vpresent>>
  PROVE  EnforceInv'
<1>1. \A p, d : Governing(p, d)' = Governing(p, d)
  BY PoliciesFixed
<1>2. ASSUME NEW p \in Pairs, NEW d \in EventDims, RealPass', Past(p, d)'
      PROVE  Within(OfPair(present, p), at, d, Governing(p, d))'
  <2>1. Within(OfPair(present, p), at, d, Governing(p, d))
    BY <1>2 DEF EnforceInv, Past, RealPass
  <2>2. OfPair(present, p)' = OfPair(present, p)
    BY DEF OfPair
  <2> QED
    BY <1>1, <2>1, <2>2
<1>3. ASSUME NEW p \in Pairs, RealPass', p \in listed', Past(p, "vectors")'
      PROVE  VectorsWithin(OfPair(vpresent, p), at, Governing(p, "vector_max_age"))'
  <2>1. VectorsWithin(OfPair(vpresent, p), at, Governing(p, "vector_max_age"))
    BY <1>3 DEF EnforceInv, Past, RealPass
  <2>2. OfPair(vpresent, p)' = OfPair(vpresent, p)
    BY DEF OfPair
  <2> QED
    BY <1>1, <2>1, <2>2
<1>4. ASSUME NEW p \in Pairs, RealPass', p \notin listed' PROVE OfPair(present, p)' = {}
  BY <1>4 DEF EnforceInv, RealPass, OfPair
<1> QED
  BY <1>2, <1>3, <1>4 DEF EnforceInv, RealPass

\* On to a pair: the ones before it stay done; it is done itself if no policy
\* sets anything for it.
LEMMA EnforceNextPair ==
  ASSUME TypeOK, LimitsInv, EnforceInv, [Next]_vars, NEW q \in todo, NextPair(q)
  PROVE  EnforceInv'
<1>1. \A p, d : Governing(p, d)' = Governing(p, d)
  BY PoliciesFixed
<1>2. /\ phase = "next" /\ todo' = todo \ {q} /\ cur' = q /\ eff' = Resolve(policies, q)
      /\ phase' = IF eff' = Unset THEN "next" ELSE "max_age"
      /\ UNCHANGED <<dry, at, ended, present, vpresent, listed>>
  BY DEF NextPair, history
<1>3. ASSUME NEW p \in Pairs, p # q, NEW d \in Sweeping, Past(p, d)' PROVE Past(p, d)
  BY <1>2, <1>3 DEF Past, Sweeping
<1>4. ASSUME NEW d \in Sweeping, Past(q, d)', NEW e \in Dims PROVE Governing(q, e) = None
  <2>1. eff' = Unset
    BY <1>2, <1>4 DEF Past, Sweeping, Place
  <2> QED
    BY <1>2, <2>1, ResolveGoverns DEF TypeOK, Unset
<1>5. ASSUME NEW p \in Pairs, NEW d \in EventDims, RealPass', Past(p, d)'
      PROVE  Within(OfPair(present, p), at, d, Governing(p, d))'
  <2>1. OfPair(present, p)' = OfPair(present, p)
    BY <1>2 DEF OfPair
  <2>2. Within(OfPair(present, p), at, d, Governing(p, d))
    <3>1. CASE p # q
      BY <1>2, <1>3, <1>5, <3>1 DEF EnforceInv, RealPass, EventDims, Sweeping
    <3>2. CASE p = q
      <4>1. Governing(p, d) = None
        BY <1>4, <1>5, <3>2 DEF EventDims, Sweeping, Dims
      <4> QED
        BY <4>1, WithinUnset
    <3> QED
      BY <3>1, <3>2
  <2> QED
    BY <1>1, <1>2, <2>1, <2>2
<1>6. ASSUME NEW p \in Pairs, RealPass', p \in listed', Past(p, "vectors")'
      PROVE  VectorsWithin(OfPair(vpresent, p), at, Governing(p, "vector_max_age"))'
  <2>1. OfPair(vpresent, p)' = OfPair(vpresent, p)
    BY <1>2 DEF OfPair
  <2>2. VectorsWithin(OfPair(vpresent, p), at, Governing(p, "vector_max_age"))
    <3>1. CASE p # q
      BY <1>2, <1>3, <1>6, <3>1 DEF EnforceInv, RealPass, Sweeping
    <3>2. CASE p = q
      <4>1. Governing(p, "vector_max_age") = None
        BY <1>4, <1>6, <3>2 DEF Sweeping, Dims
      <4> QED
        BY <4>1 DEF VectorsWithin, Over
    <3> QED
      BY <3>1, <3>2
  <2> QED
    BY <1>1, <1>2, <2>1, <2>2
<1>7. ASSUME NEW p \in Pairs, RealPass', p \notin listed' PROVE OfPair(present, p)' = {}
  BY <1>2, <1>7 DEF EnforceInv, RealPass, OfPair
<1>8. RealPass' => todo' \subseteq listed'
  BY <1>2 DEF EnforceInv, RealPass
<1> QED
  BY <1>2, <1>5, <1>6, <1>7, <1>8 DEF EnforceInv

\* A statement of the cold store gets its dimension done and undoes none.
LEMMA EnforceSweep ==
  ASSUME TypeOK, LimitsInv, EnforceInv, [Next]_vars,
         NEW e \in EventDims, NEW q \in Pairs, EventSweep(e, q)
  PROVE  EnforceInv'
<1> DEFINE rows == Condemned(events, at, q, e)
<1>1. \A p, d : Governing(p, d)' = Governing(p, d)
  BY PoliciesFixed
<1>2. /\ phase = e /\ phase' = After[e] /\ cur = q
      /\ UNCHANGED <<dry, at, todo, cur, ended, vpresent, listed>>
  BY DEF EventSweep, DropEvents
<1>3. ~dry => present' = present \ rows
  BY DEF EventSweep, DropEvents
<1>4. e \in Sweeping /\ After[e] \in Sweeping /\ Place[After[e]] = Place[e] + 1
  BY DEF EventDims, Sweeping, After, Place
<1>5. ASSUME NEW p \in Pairs, NEW d \in Sweeping, Past(p, d)'
      PROVE  Past(p, d) \/ (p = q /\ d = e)
  BY <1>2, <1>4, <1>5 DEF Past, Sweeping, Place
<1>6. ASSUME NEW p \in Pairs, NEW d \in EventDims, RealPass', Past(p, d)'
      PROVE  Within(OfPair(present, p), at, d, Governing(p, d))'
  <2>0. RealPass /\ ~dry
    BY <1>2, <1>4, <1>6 DEF RealPass, EventDims, Sweeping
  <2>1. /\ OfPair(present, p)' \in SUBSET OfPair(present, p)
        /\ OfPair(present, p) \in SUBSET OfPair(events, p)
        /\ OfPair(present, p) \in SUBSET Arrivals
    BY <2>0, <1>3 DEF OfPair, TypeOK
  <2>2. Governing(p, d) \in Limit
    BY GoverningType DEF EventDims, Dims
  <2>3. CASE Past(p, d)
    <3>1. Within(OfPair(present, p), at, d, Governing(p, d))
      BY <2>0, <2>3 DEF EnforceInv
    <3>2. Within(OfPair(present, p)', at, d, Governing(p, d))
      BY <2>1, <2>2, <3>1, WithinFewer
    <3> QED
      BY <1>1, <1>2, <3>2
  <2>4. CASE p = q /\ d = e
    <3>1. OfPair(present, p)' \in SUBSET (OfPair(events, p) \ Condemned(events, at, p, d))
      BY <2>0, <2>1, <2>4, <1>3 DEF OfPair
    <3>2. Within(OfPair(present, p)', at, d, Governing(p, d))
      BY <3>1, WithinAfter
    <3> QED
      BY <1>1, <1>2, <3>2
  <2> QED
    BY <1>5, <1>6, <2>3, <2>4 DEF EventDims, Sweeping
<1>7. ASSUME NEW p \in Pairs, RealPass', p \in listed', Past(p, "vectors")'
      PROVE  VectorsWithin(OfPair(vpresent, p), at, Governing(p, "vector_max_age"))'
  <2>1. OfPair(vpresent, p)' = OfPair(vpresent, p)
    BY <1>2 DEF OfPair
  <2>2. Past(p, "vectors") /\ RealPass
    BY <1>2, <1>4, <1>5, <1>7 DEF EventDims, Sweeping, RealPass
  <2>3. VectorsWithin(OfPair(vpresent, p), at, Governing(p, "vector_max_age"))
    BY <2>2, <1>2, <1>7 DEF EnforceInv
  <2> QED
    BY <1>1, <1>2, <2>1, <2>3
<1>8. ASSUME NEW p \in Pairs, RealPass', p \notin listed' PROVE OfPair(present, p)' = {}
  BY <1>2, <1>3, <1>4, <1>8 DEF EnforceInv, RealPass, OfPair, Sweeping, EventDims
<1>9. RealPass' => todo' \subseteq listed'
  BY <1>2, <1>4 DEF EnforceInv, RealPass, Sweeping, EventDims
<1>10. phase' # "idle"
  BY <1>2, <1>4 DEF Sweeping
<1> QED
  BY <1>6, <1>7, <1>8, <1>9, <1>10 DEF EnforceInv

\* So does the statement of the vector index.
LEMMA EnforceVectors ==
  ASSUME TypeOK, LimitsInv, EnforceInv, [Next]_vars, NEW q \in Pairs, VectorSweep(q)
  PROVE  EnforceInv'
<1>1. \A p, d : Governing(p, d)' = Governing(p, d)
  BY PoliciesFixed
<1>2. /\ phase = "vectors" /\ phase' = "next" /\ cur = q
      /\ UNCHANGED <<dry, at, todo, cur, ended, present, listed>>
      /\ ~dry => vpresent' = vpresent \ Expired(vectors, at, q)
  BY DEF VectorSweep
<1>3. ASSUME NEW p \in Pairs, NEW d \in Sweeping, Past(p, d)'
      PROVE  Past(p, d) \/ (p = q /\ d = "vectors")
  BY <1>2, <1>3 DEF Past, Sweeping, Place
<1>4. ASSUME NEW p \in Pairs, NEW d \in EventDims, RealPass', Past(p, d)'
      PROVE  Within(OfPair(present, p), at, d, Governing(p, d))'
  <2>1. Past(p, d) /\ RealPass
    BY <1>2, <1>3, <1>4 DEF EventDims, Sweeping, RealPass
  <2>2. Within(OfPair(present, p), at, d, Governing(p, d))
    BY <2>1 DEF EnforceInv
  <2>3. OfPair(present, p)' = OfPair(present, p)
    BY <1>2 DEF OfPair
  <2> QED
    BY <1>1, <1>2, <2>2, <2>3
<1>5. ASSUME NEW p \in Pairs, RealPass', p \in listed', Past(p, "vectors")'
      PROVE  VectorsWithin(OfPair(vpresent, p), at, Governing(p, "vector_max_age"))'
  <2>0. RealPass /\ ~dry
    BY <1>2, <1>5 DEF RealPass
  <2>1. /\ OfPair(vpresent, p)' \in SUBSET OfPair(vpresent, p)
        /\ OfPair(vpresent, p) \in SUBSET OfPair(vectors, p)
    BY <2>0, <1>2 DEF OfPair, TypeOK
  <2>2. VectorsWithin(OfPair(vpresent, p)', at, Governing(p, "vector_max_age"))
    <3>1. CASE Past(p, "vectors")
      <4>1. VectorsWithin(OfPair(vpresent, p), at, Governing(p, "vector_max_age"))
        BY <2>0, <3>1, <1>2, <1>5 DEF EnforceInv
      <4> QED
        BY <2>1, <4>1 DEF VectorsWithin
    <3>2. CASE p = q
      <4>1. OfPair(vpresent, p)' \cap Expired(vectors, at, p) = {}
        BY <2>0, <1>2, <3>2 DEF OfPair
      <4> QED
        BY <2>1, <4>1 DEF Expired, VectorsWithin
    <3> QED
      BY <1>3, <1>5, <3>1, <3>2 DEF Sweeping
  <2> QED
    BY <1>1, <1>2, <2>2
<1>6. ASSUME NEW p \in Pairs, RealPass', p \notin listed' PROVE OfPair(present, p)' = {}
  BY <1>2, <1>6 DEF EnforceInv, RealPass, OfPair
<1>7. RealPass' => todo' \subseteq listed'
  BY <1>2 DEF EnforceInv, RealPass
<1> QED
  BY <1>2, <1>4, <1>5, <1>6, <1>7 DEF EnforceInv

\* A pass ends well when it has come to every pair it listed.
LEMMA EnforceFinish ==
  ASSUME TypeOK, LimitsInv, EnforceInv, [Next]_vars, Finish
  PROVE  EnforceInv'
<1>1. \A p, d : Governing(p, d)' = Governing(p, d)
  BY PoliciesFixed
<1>2. /\ phase = "next" /\ phase' = "idle" /\ todo = {} /\ todo' = {}
      /\ UNCHANGED <<dry, at, present, vpresent, listed>>
  BY DEF Finish, Stop
<1>3. \A p, d : Past(p, d)
  BY <1>2 DEF Past, Sweeping
<1>4. ASSUME NEW p \in Pairs, NEW d \in EventDims, RealPass'
      PROVE  Within(OfPair(present, p), at, d, Governing(p, d))'
  <2>1. Within(OfPair(present, p), at, d, Governing(p, d))
    BY <1>2, <1>3, <1>4 DEF EnforceInv, RealPass
  <2>2. OfPair(present, p)' = OfPair(present, p)
    BY <1>2 DEF OfPair
  <2> QED
    BY <1>1, <1>2, <2>1, <2>2
<1>5. ASSUME NEW p \in Pairs, RealPass', p \in listed'
      PROVE  VectorsWithin(OfPair(vpresent, p), at, Governing(p, "vector_max_age"))'
  <2>1. VectorsWithin(OfPair(vpresent, p), at, Governing(p, "vector_max_age"))
    BY <1>2, <1>3, <1>5 DEF EnforceInv, RealPass
  <2>2. OfPair(vpresent, p)' = OfPair(vpresent, p)
    BY <1>2 DEF OfPair
  <2> QED
    BY <1>1, <1>2, <2>1, <2>2
<1>6. ASSUME NEW p \in Pairs, RealPass', p \notin listed' PROVE OfPair(present, p)' = {}
  BY <1>2, <1>6 DEF EnforceInv, RealPass, OfPair
<1> QED
  BY <1>2, <1>4, <1>5, <1>6 DEF EnforceInv

LEMMA EnforceNext == TypeOK /\ LimitsInv /\ EnforceInv /\ [Next]_vars => EnforceInv'
<1> SUFFICES ASSUME TypeOK, LimitsInv, EnforceInv, [Next]_vars PROVE EnforceInv'
  OBVIOUS
<1>1. CASE UNCHANGED vars
  BY <1>1, EnforceSame DEF vars
<1>2. CASE Tick
  BY <1>2, EnforceSame DEF Tick, pass, history
<1>3. CASE \E r \in Arrivals : Store(r)
  BY <1>3, EnforceSame DEF Store, pass, history
<1>4. CASE \E r \in Arrivals : Embed(r)
  BY <1>4, EnforceSame DEF Embed, pass, history
<1>5. CASE Begin(TRUE)
  BY <1>5 DEF Begin, EnforceInv, RealPass
<1>6. CASE Begin(FALSE)
  BY <1>6, EnforceBegin
<1>7. CASE \E p \in todo : NextPair(p)
  BY <1>7, EnforceNextPair
<1>8. CASE \E d \in EventDims, p \in Pairs : EventSweep(d, p)
  BY <1>8, EnforceSweep
<1>9. CASE \E p \in Pairs : VectorSweep(p)
  BY <1>9, EnforceVectors
<1>10. CASE Finish
  BY <1>10, EnforceFinish
<1>11. CASE Fail
  BY <1>11 DEF Fail, Stop, EnforceInv, RealPass
<1> QED
  BY <1>1, <1>2, <1>3, <1>4, <1>5, <1>6, <1>7, <1>8, <1>9, <1>10, <1>11, StepCases

LEMMA EnforceImplies == TypeOK /\ EnforceInv => Enforced
<1> SUFFICES ASSUME TypeOK, EnforceInv, phase = "idle", ended = "ok", ~dry, NEW p \in Pairs
             PROVE  LET old == OfPair(present, p)
                    IN  /\ \A r \in old : ~Over(Governing(p, "max_age"),
                                                r.ts < at - Governing(p, "max_age"))
                        /\ ~Over(Governing(p, "max_count"),
                                 Cardinality(old) > Governing(p, "max_count"))
                        /\ ~Over(Governing(p, "max_bytes"),
                                 MapThenSumSet(LAMBDA r : r.size, old) > Governing(p, "max_bytes"))
                        /\ p \in listed =>
                             \A r \in OfPair(vpresent, p) :
                               ~Over(Governing(p, "vector_max_age"),
                                     r.ts < at - Governing(p, "vector_max_age"))
  BY DEF Enforced
<1>1. RealPass /\ \A d : Past(p, d)
  BY DEF EnforceInv, RealPass, Past, Sweeping
<1>2. \A d \in EventDims : Within(OfPair(present, p), at, d, Governing(p, d))
  BY <1>1 DEF EnforceInv
<1>3. \A r \in OfPair(present, p) : ~Over(Governing(p, "max_age"),
                                          r.ts < at - Governing(p, "max_age"))
  <2>1. Within(OfPair(present, p), at, "max_age", Governing(p, "max_age"))
    BY <1>2 DEF EventDims
  <2> QED
    BY <2>1 DEF Within
<1>4. ~Over(Governing(p, "max_count"),
            Cardinality(OfPair(present, p)) > Governing(p, "max_count"))
  <2>1. Within(OfPair(present, p), at, "max_count", Governing(p, "max_count"))
    BY <1>2 DEF EventDims
  <2> QED
    BY <2>1 DEF Within
<1>5. ~Over(Governing(p, "max_bytes"),
            Bytes(OfPair(present, p)) > Governing(p, "max_bytes"))
  <2>1. Within(OfPair(present, p), at, "max_bytes", Governing(p, "max_bytes"))
    BY <1>2 DEF EventDims
  <2> QED
    BY <2>1 DEF Within
<1>6. p \in listed => VectorsWithin(OfPair(vpresent, p), at, Governing(p, "vector_max_age"))
  BY <1>1 DEF EnforceInv
<1>7. Bytes(OfPair(present, p)) = MapThenSumSet(LAMBDA r : r.size, OfPair(present, p))
  BY DEF Bytes
<1> QED
  BY <1>3, <1>4, <1>5, <1>6, <1>7 DEF VectorsWithin

\* A real pass that ends well leaves no more of what was there when it began
\* than every governing limit allows: no event and no vector too old, no more
\* rows of a pair than its max_count, no more bytes than its max_bytes, though
\* the dimensions are enforced one after the other and the writer goes on.
THEOREM RetentionEnforcesLimits == Spec => []Enforced
<1>1. Init => TypeOK /\ LimitsInv /\ EnforceInv
  BY TypeInit, LimitsInit, EnforceInit
<1>2. TypeOK /\ LimitsInv /\ EnforceInv /\ [Next]_vars => (TypeOK /\ LimitsInv /\ EnforceInv)'
  BY TypeNext, LimitsNext, EnforceNext
<1> QED
  BY <1>1, <1>2, EnforceImplies, PTL DEF Spec

-----------------------------------------------------------------------------
(* What a dry-run promises                                                 *)

\* The drops a dry-run counts: a row of E once for each limit it is over.
Doomed(E, a) == {x \in E \X EventDims : Condemns(E, a, x[1], x[2])}

\* The vectors of V it counts: those of pairs that have events.
Stale(E, V, a) ==
  {r \in V : /\ r.pair \in PairsOf(E)
             /\ Over(Governing(r.pair, "vector_max_age"),
                     r.ts < a - Governing(r.pair, "vector_max_age"))}

\* The part of them that the pass under way has done.
DoneDoomed(E, a) == {x \in Doomed(E, a) : Past(x[1].pair, x[2])}
DoneStale(E, V, a) == {r \in Stale(E, V, a) : Past(r.pair, "vectors")}

Total(E, V, a) ==
  [events |-> Cardinality(Doomed(E, a)), vectors |-> Cardinality(Stale(E, V, a))]

\* At most one limit is set for p's events.
OneLimit(p) ==
  \A d, e \in EventDims : Governing(p, d) # None /\ Governing(p, e) # None => d = e

\* A dry-run is under way over the events E and the vectors V.
Foretelling(E, V, a) ==
  /\ dry /\ phase # "idle" /\ forecast = Awaited
  /\ events = E /\ vectors = V
  /\ report.events = Cardinality(DoneDoomed(E, a))
  /\ report.vectors = Cardinality(DoneStale(E, V, a))

\* It has ended and nothing has changed since.
Told(E, V, a) ==
  /\ dry /\ phase = "idle" /\ forecast = Total(E, V, a)
  /\ events = E /\ vectors = V

\* A real pass began with E and V: what it has dropped is what it reports,
\* and each row of that was doomed among the rows E already.
Fulfilling(E, V, a) ==
  /\ ~dry /\ forecast = Total(E, V, a)
  /\ events \subseteq E /\ vectors \subseteq V
  /\ report.events = Cardinality(E \ events)
  /\ report.vectors = Cardinality(V \ vectors)
  /\ V \ vectors = DoneStale(E, V, a)
  /\ \A r \in E \ events : \E d \in EventDims : Condemns(E, a, r, d)
  /\ \A p \in Pairs : OneLimit(p) =>
       \A r \in OfPair(E, p) :
         r \notin events <=> \E d \in EventDims : Condemns(E, a, r, d) /\ Past(p, d)

Story(E, V, a) ==
  /\ UniqueIds(E) /\ a = at /\ a = now
  /\ todo \subseteq PairsOf(E)
  /\ phase \in Sweeping => cur \in PairsOf(E)
  /\ Foretelling(E, V, a) \/ Told(E, V, a) \/ Fulfilling(E, V, a)

ForecastInv ==
  /\ phase \in Sweeping => cur \notin todo
  /\ forecast # NoReport =>
       \E E, V \in SUBSET Arrivals : \E a \in 0 .. MaxNow : Story(E, V, a)


\* With the policies, what is doomed stays the same.
LEMMA FixedMeaning ==
  ASSUME [Next]_vars, NEW E, NEW V, NEW a
  PROVE  /\ Doomed(E, a)' = Doomed(E, a) /\ Stale(E, V, a)' = Stale(E, V, a)
         /\ Total(E, V, a)' = Total(E, V, a)
         /\ \A r, d : Condemns(E, a, r, d)' <=> Condemns(E, a, r, d)
         /\ \A p : OneLimit(p)' <=> OneLimit(p)
<1>1. \A p, d : Governing(p, d)' = Governing(p, d)
  BY PoliciesFixed
<1>2. \A r, d : Condemns(E, a, r, d)' <=> Condemns(E, a, r, d)
  BY <1>1 DEF Condemns
<1>3. Doomed(E, a)' = Doomed(E, a)
  BY <1>2 DEF Doomed
<1>4. Stale(E, V, a)' = Stale(E, V, a)
  BY <1>1 DEF Stale
<1>5. Total(E, V, a)' = Total(E, V, a)
  BY <1>3, <1>4 DEF Total
<1>6. \A p : OneLimit(p)' <=> OneLimit(p)
  BY <1>1 DEF OneLimit
<1> QED
  BY <1>2, <1>3, <1>4, <1>5, <1>6

\* A dry-run counts finitely many drops.
LEMMA DoomedFinite ==
  ASSUME NEW E \in SUBSET Arrivals, NEW a
  PROVE  IsFiniteSet(Doomed(E, a)) /\ Cardinality(Doomed(E, a)) \in Nat
<1>1. IsFiniteSet(EventDims)
  <2>1. EventDims = ({"max_age"} \cup {"max_count"}) \cup {"max_bytes"}
    BY DEF EventDims
  <2>2. IsFiniteSet({"max_age"} \cup {"max_count"})
    BY FS_Singleton, FS_AddElement
  <2> QED
    BY <2>1, <2>2, FS_AddElement
<1>2. IsFiniteSet(E)
  BY RowsFinite
<1>3. IsFiniteSet(E \X EventDims)
  BY <1>1, <1>2, FS_Product
<1>4. Doomed(E, a) \in SUBSET (E \X EventDims)
  BY DEF Doomed
<1> QED
  BY <1>3, <1>4, FS_Subset, FS_CardinalityType

\* A limit that condemns is set.
LEMMA CondemnsSet ==
  ASSUME NEW E, NEW a, NEW r, NEW d \in EventDims, Condemns(E, a, r, d)
  PROVE  Governing(r.pair, d) # None
  BY DEF Condemns, EventDims, Over

\* What is condemned among some rows is condemned among more.
LEMMA CondemnsMore ==
  ASSUME TypeOK, NEW E \in SUBSET Arrivals, NEW D \in SUBSET E, NEW a, NEW r \in D,
         NEW d \in EventDims, Condemns(D, a, r, d)
  PROVE  Condemns(E, a, r, d)
<1> DEFINE m == Governing(r.pair, d)
<1>1. m \in Nat
  BY CondemnsSet, GoverningType DEF EventDims, Dims
<1>2. CASE d = "max_age"
  BY <1>2 DEF Condemns
<1>3. CASE d = "max_count"
  <2>1. Newer(D, r) \in SUBSET Newer(E, r) /\ Newer(E, r) \in SUBSET Arrivals
    BY DEF Newer, OfPair
  <2>2. /\ Cardinality(Newer(D, r)) <= Cardinality(Newer(E, r))
        /\ Cardinality(Newer(D, r)) \in Nat /\ Cardinality(Newer(E, r)) \in Nat
    BY <2>1, RowsFinite, FS_Subset
  <2>3. Cardinality(Newer(D, r)) >= m
    BY <1>3 DEF Condemns, Over
  <2>4. Cardinality(Newer(E, r)) >= m
    BY <1>1, <2>2, <2>3
  <2> QED
    BY <1>1, <1>3, <2>4 DEF Condemns, Over
<1>4. CASE d = "max_bytes"
  <2> DEFINE S(X) == {q \in OfPair(X, r.pair) : q = r \/ Before(r, q)}
  <2>1. S(D) \in SUBSET S(E) /\ S(E) \in SUBSET Arrivals
    BY DEF OfPair
  <2>2. BytesDownTo(D, r) = Bytes(S(D)) /\ BytesDownTo(E, r) = Bytes(S(E))
    BY DEF BytesDownTo, Bytes
  <2> HIDE DEF S
  <2>3. S(D) \in SUBSET Arrivals
    BY <2>1
  <2>4. Bytes(S(D)) <= Bytes(S(E)) /\ Bytes(S(D)) \in Nat /\ Bytes(S(E)) \in Nat
    BY <2>1, <2>3, BytesMonotone, BytesNat
  <2>5. BytesDownTo(D, r) > m
    BY <1>4 DEF Condemns, Over
  <2>6. BytesDownTo(E, r) > m
    BY <1>1, <2>2, <2>4, <2>5
  <2> QED
    BY <1>1, <1>4, <2>6 DEF Condemns, Over
<1> QED
  BY <1>2, <1>3, <1>4 DEF EventDims

\* How the steps of a pass get further.
LEMMA PastSweep ==
  ASSUME phase \in Sweeping => cur \notin todo,
         NEW e \in EventDims, NEW q \in Pairs, EventSweep(e, q)
  PROVE  /\ ~Past(q, e)
         /\ \A p \in Pairs, d \in Sweeping : Past(p, d)' <=> Past(p, d) \/ (p = q /\ d = e)
<1>1. phase = e /\ phase' = After[e] /\ cur = q /\ cur' = cur /\ todo' = todo
  BY DEF EventSweep, DropEvents
<1>2. e \in Sweeping /\ After[e] \in Sweeping /\ Place[After[e]] = Place[e] + 1
  BY DEF EventDims, Sweeping, After, Place
<1>3. q \notin todo
  BY <1>1, <1>2
<1>4. \A d \in Sweeping : Place[d] \in 1 .. 4 /\ (Place[d] = Place[e] => d = e)
  BY <1>2 DEF Place, Sweeping
<1>5. ASSUME NEW p \in Pairs, NEW d \in Sweeping
      PROVE  Past(p, d)' <=> Past(p, d) \/ (p = q /\ d = e)
  <2>1. CASE p # q
    BY <1>1, <2>1 DEF Past
  <2>2. CASE p = q
    <3>1. Past(p, d)' <=> Place[d] < Place[e] + 1
      BY <1>1, <1>2, <1>3, <2>2 DEF Past
    <3>2. Past(p, d) <=> Place[d] < Place[e]
      BY <1>1, <1>2, <1>3, <2>2 DEF Past
    <3>3. Place[d] < Place[e] + 1 <=> (Place[d] < Place[e] \/ Place[d] = Place[e])
      BY <1>2, <1>4
    <3>4. Place[d] = Place[e] <=> d = e
      BY <1>4
    <3> QED
      BY <2>2, <3>1, <3>2, <3>3, <3>4
  <2> QED
    BY <2>1, <2>2
<1>6. ~Past(q, e)
  <2>1. Past(q, e) => Place[e] < Place[e]
    BY <1>1, <1>2 DEF Past
  <2> QED
    BY <2>1, <1>2, <1>4
<1> QED
  BY <1>5, <1>6

LEMMA PastVectors ==
  ASSUME phase \in Sweeping => cur \notin todo, NEW q \in Pairs, VectorSweep(q)
  PROVE  /\ ~Past(q, "vectors")
         /\ \A p \in Pairs, d \in Sweeping :
              Past(p, d)' <=> Past(p, d) \/ (p = q /\ d = "vectors")
<1>1. phase = "vectors" /\ phase' = "next" /\ cur = q /\ cur' = cur /\ todo' = todo
  BY DEF VectorSweep
<1> QED
  BY <1>1 DEF Past, Sweeping, Place

LEMMA PastNext ==
  ASSUME TypeOK, NEW q \in todo, NextPair(q), NEW p \in Pairs, NEW d \in Sweeping
  PROVE  \/ Past(p, d)' <=> Past(p, d)
         \/ \A e \in Dims : Governing(p, e) = None
<1>1. /\ phase = "next" /\ todo' = todo \ {q} /\ cur' = q /\ eff' = Resolve(policies, q)
      /\ phase' = IF eff' = Unset THEN "next" ELSE "max_age"
  BY DEF NextPair
<1>2. CASE p # q
  BY <1>1, <1>2 DEF Past, Sweeping
<1>3. CASE p = q /\ eff' = Unset
  BY <1>1, <1>3, ResolveGoverns DEF TypeOK, Unset
<1>4. CASE p = q /\ eff' # Unset
  BY <1>1, <1>4 DEF Past, Sweeping, Place
<1> QED
  BY <1>2, <1>3, <1>4


\* Steps that do nothing for a limit that is set leave what is done.
LEMMA DoneSame ==
  ASSUME TypeOK, [Next]_vars, NEW E \in SUBSET Arrivals, NEW V \in SUBSET Arrivals, NEW a,
         \A p \in Pairs, d \in Sweeping :
           (Past(p, d)' <=> Past(p, d)) \/ \A e \in Dims : Governing(p, e) = None
  PROVE  /\ DoneDoomed(E, a)' = DoneDoomed(E, a)
         /\ DoneStale(E, V, a)' = DoneStale(E, V, a)
         /\ \A r \in E, d \in EventDims : Condemns(E, a, r, d) =>
              (Past(r.pair, d)' <=> Past(r.pair, d))
<1>1. ASSUME NEW r \in E, NEW d \in EventDims, Condemns(E, a, r, d)
      PROVE  Past(r.pair, d)' <=> Past(r.pair, d)
  <2>1. Governing(r.pair, d) # None /\ d \in Dims /\ d \in Sweeping
    BY <1>1, CondemnsSet DEF EventDims, Dims, Sweeping
  <2>2. r.pair \in Pairs
    BY RowFacts
  <2> QED
    BY <2>1, <2>2
<1>2. DoneDoomed(E, a)' = DoneDoomed(E, a)
  <2>1. Doomed(E, a)' = Doomed(E, a)
    BY FixedMeaning
  <2>2. \A x \in Doomed(E, a) : Past(x[1].pair, x[2])' <=> Past(x[1].pair, x[2])
    BY <1>1 DEF Doomed
  <2> QED
    BY <2>1, <2>2 DEF DoneDoomed
<1>3. DoneStale(E, V, a)' = DoneStale(E, V, a)
  <2>1. Stale(E, V, a)' = Stale(E, V, a)
    BY FixedMeaning
  <2>2. ASSUME NEW r \in Stale(E, V, a)
        PROVE  Past(r.pair, "vectors")' <=> Past(r.pair, "vectors")
    <3>1. Governing(r.pair, "vector_max_age") # None /\ "vector_max_age" \in Dims
      BY DEF Stale, Over, Dims
    <3>2. r.pair \in Pairs /\ "vectors" \in Sweeping
      BY RowFacts DEF Stale, Sweeping
    <3> QED
      BY <3>1, <3>2
  <2> QED
    BY <2>1, <2>2 DEF DoneStale
<1> QED
  BY <1>1, <1>2, <1>3

\* A step within a pass that drops and counts nothing.
LEMMA StorySame ==
  ASSUME TypeOK, [Next]_vars, NEW E \in SUBSET Arrivals, NEW V \in SUBSET Arrivals, NEW a,
         Story(E, V, a),
         \A p \in Pairs, d \in Sweeping :
           (Past(p, d)' <=> Past(p, d)) \/ \A e \in Dims : Governing(p, e) = None,
         UNCHANGED <<dry, at, now, events, vectors, report, forecast>>,
         phase' = "idle" <=> phase = "idle",
         todo' \subseteq PairsOf(E),
         phase' \in Sweeping => cur' \in PairsOf(E)
  PROVE  Story(E, V, a)'
<1>1. /\ DoneDoomed(E, a)' = DoneDoomed(E, a)
      /\ DoneStale(E, V, a)' = DoneStale(E, V, a)
      /\ \A r \in E, d \in EventDims : Condemns(E, a, r, d) =>
           (Past(r.pair, d)' <=> Past(r.pair, d))
  BY DoneSame
<1>2. /\ Total(E, V, a)' = Total(E, V, a)
      /\ \A r, d : Condemns(E, a, r, d)' <=> Condemns(E, a, r, d)
      /\ \A p : OneLimit(p)' <=> OneLimit(p)
  BY FixedMeaning
<1>3. CASE Foretelling(E, V, a)
  <2>1. Foretelling(E, V, a)'
    BY <1>1, <1>3 DEF Foretelling
  <2> QED
    BY <2>1 DEF Story
<1>4. CASE Told(E, V, a)
  <2>1. Told(E, V, a)'
    BY <1>2, <1>4 DEF Told
  <2> QED
    BY <2>1 DEF Story
<1>5. CASE Fulfilling(E, V, a)
  <2>1. ASSUME NEW p \in Pairs, OneLimit(p), NEW r \in OfPair(E, p)
        PROVE  r \notin events' <=> \E d \in EventDims : Condemns(E, a, r, d) /\ Past(p, d)'
    <3>1. r \notin events <=> \E d \in EventDims : Condemns(E, a, r, d) /\ Past(p, d)
      BY <1>5, <2>1 DEF Fulfilling
    <3>2. r \in E /\ r.pair = p
      BY DEF OfPair
    <3> QED
      BY <1>1, <3>1, <3>2
  <2>2. Fulfilling(E, V, a)'
    <3>1. \A p \in Pairs : OneLimit(p)' =>
            \A r \in OfPair(E, p) :
              r \notin events' <=> \E d \in EventDims : Condemns(E, a, r, d)' /\ Past(p, d)'
      BY <1>2, <2>1
    <3>2. \A r \in E \ events' : \E d \in EventDims : Condemns(E, a, r, d)'
      BY <1>2, <1>5 DEF Fulfilling
    <3>3. dry' = FALSE /\ forecast' = Total(E, V, a)' /\ events' \subseteq E /\ vectors' \subseteq V
      BY <1>2, <1>5 DEF Fulfilling
    <3>4. /\ report'.events = Cardinality(E \ events')
          /\ report'.vectors = Cardinality(V \ vectors')
          /\ V \ vectors' = DoneStale(E, V, a)'
      BY <1>1, <1>5 DEF Fulfilling
    <3> QED
      BY <3>1, <3>2, <3>3, <3>4 DEF Fulfilling, OfPair
  <2> QED
    BY <2>2 DEF Story
<1> QED
  BY <1>3, <1>4, <1>5 DEF Story

LEMMA StoryNextPair ==
  ASSUME TypeOK, [Next]_vars, NEW E \in SUBSET Arrivals, NEW V \in SUBSET Arrivals, NEW a,
         Story(E, V, a), NEW q \in todo, NextPair(q)
  PROVE  Story(E, V, a)'
<1>1. /\ phase = "next" /\ todo' = todo \ {q} /\ cur' = q /\ phase' \in {"next", "max_age"}
      /\ UNCHANGED <<dry, at, now, events, vectors, report, forecast>>
  BY DEF NextPair, inputs
<1>2. todo \subseteq PairsOf(E)
  BY DEF Story
<1>3. \A p \in Pairs, d \in Sweeping :
        (Past(p, d)' <=> Past(p, d)) \/ \A e \in Dims : Governing(p, e) = None
  BY PastNext
<1> QED
  BY <1>1, <1>2, <1>3, StorySame

\* The number of rows of a statement is added to those dropped before.
LEMMA DropCount ==
  ASSUME NEW E \in SUBSET Arrivals, NEW D \in SUBSET E, NEW rows \in SUBSET D
  PROVE  /\ E \ (D \ rows) = (E \ D) \cup rows
         /\ Cardinality(E \ (D \ rows)) = Cardinality(E \ D) + Cardinality(rows)
<1>1. E \ (D \ rows) = (E \ D) \cup rows /\ (E \ D) \cap rows = {}
  OBVIOUS
<1>2. /\ IsFiniteSet(E \ D) /\ IsFiniteSet(rows)
      /\ Cardinality(E \ D) \in Nat /\ Cardinality(rows) \in Nat
  BY RowsFinite
<1>3. Cardinality((E \ D) \cup rows) =
        Cardinality(E \ D) + Cardinality(rows) - Cardinality((E \ D) \cap rows)
  BY <1>2, FS_Union
<1>4. Cardinality((E \ D) \cap rows) = 0
  BY <1>1, FS_EmptySet
<1> DEFINE m == Cardinality(E \ D)
           n == Cardinality(rows)
<1>5. Cardinality((E \ D) \cup rows) = m + n
  <2>1. m \in Nat /\ n \in Nat /\ Cardinality((E \ D) \cup rows) = m + n - 0
    BY <1>2, <1>3, <1>4
  <2> HIDE DEF m, n
  <2> QED
    BY <2>1
<1> QED
  BY <1>1, <1>5

\* Events of pairs whose rows are all still there are condemned as before.
LEMMA CondemnsSame ==
  ASSUME NEW E, NEW D, NEW a, NEW r, NEW d \in EventDims,
         OfPair(D, r.pair) = OfPair(E, r.pair)
  PROVE  Condemns(D, a, r, d) <=> Condemns(E, a, r, d)
<1>1. Newer(D, r) = Newer(E, r) /\ BytesDownTo(D, r) = BytesDownTo(E, r)
  BY DEF Newer, BytesDownTo
<1> QED
  BY <1>1 DEF Condemns


\* A statement of a dry-run counts the rows its dimension condemns.
LEMMA StoryForetells ==
  ASSUME TypeOK, LimitsInv, [Next]_vars, phase \in Sweeping => cur \notin todo,
         NEW E \in SUBSET Arrivals, NEW V \in SUBSET Arrivals, NEW a,
         Story(E, V, a), Foretelling(E, V, a),
         NEW e \in EventDims, NEW q \in Pairs, EventSweep(e, q)
  PROVE  Foretelling(E, V, a)'
<1> DEFINE rows == Condemned(E, a, q, e)
           more == rows \X {e}
<1>1. /\ events = E /\ vectors = V /\ a = at /\ dry
      /\ report' = [report EXCEPT !.events = @ + Cardinality(rows)]
      /\ UNCHANGED <<dry, events, vectors, forecast>> /\ phase' # "idle"
  BY DEF EventSweep, DropEvents, Foretelling, Story, After, EventDims
<1>2. /\ ~Past(q, e)
      /\ \A p \in Pairs, d \in Sweeping : Past(p, d)' <=> Past(p, d) \/ (p = q /\ d = e)
  BY PastSweep
<1>3. e \in Sweeping /\ EventDims \subseteq Sweeping
  BY DEF EventDims, Sweeping
<1>4. Doomed(E, a)' = Doomed(E, a) /\ Stale(E, V, a)' = Stale(E, V, a)
  BY FixedMeaning
<1>5. DoneDoomed(E, a)' = DoneDoomed(E, a) \cup more
  <2>1. ASSUME NEW x \in Doomed(E, a)
        PROVE  /\ x = <<x[1], x[2]>> /\ x[1] \in E /\ x[2] \in EventDims
               /\ Condemns(E, a, x[1], x[2]) /\ x[1].pair \in Pairs
    BY RowFacts DEF Doomed
  <2>2. \A x \in Doomed(E, a) :
          Past(x[1].pair, x[2])' <=> Past(x[1].pair, x[2]) \/ (x[1].pair = q /\ x[2] = e)
    BY <1>2, <1>3, <2>1
  <2>3. \A x \in Doomed(E, a) : x[1].pair = q /\ x[2] = e <=> x \in more
    BY <2>1 DEF Condemned, OfPair
  <2>4. more \subseteq Doomed(E, a)
    BY DEF Condemned, OfPair, Doomed
  <2> HIDE DEF more
  <2> QED
    BY <1>4, <2>2, <2>3, <2>4 DEF DoneDoomed
<1>6. DoneDoomed(E, a) \cap more = {}
  BY <1>2 DEF DoneDoomed, Condemned, OfPair
<1>7. /\ IsFiniteSet(DoneDoomed(E, a)) /\ Cardinality(DoneDoomed(E, a)) \in Nat
      /\ IsFiniteSet(more) /\ Cardinality(more) = Cardinality(rows) /\ Cardinality(rows) \in Nat
  <2>1. rows \in SUBSET Arrivals
    BY DEF Condemned, OfPair
  <2>2. IsFiniteSet(rows) /\ Cardinality(rows) \in Nat
    BY <2>1, RowsFinite
  <2>3. IsFiniteSet({e}) /\ Cardinality({e}) = 1
    BY FS_Singleton
  <2>4. DoneDoomed(E, a) \in SUBSET Doomed(E, a)
    BY DEF DoneDoomed
  <2>7. IsFiniteSet(DoneDoomed(E, a)) /\ Cardinality(DoneDoomed(E, a)) \in Nat
    BY <2>4, DoomedFinite, FS_Subset, FS_CardinalityType
  <2> HIDE DEF rows
  <2>8. IsFiniteSet(more) /\ Cardinality(more) = Cardinality(rows) * 1
    BY <2>2, <2>3, FS_Product
  <2> QED
    BY <2>2, <2>7, <2>8
<1>8. Cardinality(DoneDoomed(E, a)') = Cardinality(DoneDoomed(E, a)) + Cardinality(rows)
  <2>1. Cardinality(DoneDoomed(E, a) \cup more) =
          Cardinality(DoneDoomed(E, a)) + Cardinality(more)
            - Cardinality(DoneDoomed(E, a) \cap more)
    BY <1>7, FS_Union
  <2>2. Cardinality(DoneDoomed(E, a) \cap more) = 0
    BY <1>6, FS_EmptySet
  <2> HIDE DEF rows, more
  <2> QED
    BY <1>5, <1>7, <2>1, <2>2
<1>9. DoneStale(E, V, a)' = DoneStale(E, V, a)
  <2>1. \A r \in Stale(E, V, a) : Past(r.pair, "vectors")' <=> Past(r.pair, "vectors")
    <3>1. \A r \in Stale(E, V, a) : r.pair \in Pairs
      BY RowFacts DEF Stale
    <3>2. e # "vectors" /\ "vectors" \in Sweeping
      BY DEF EventDims, Sweeping
    <3> QED
      BY <1>2, <3>1, <3>2
  <2> QED
    BY <1>4, <2>1 DEF DoneStale
<1>10. report'.events = Cardinality(DoneDoomed(E, a)')
  <2> HIDE DEF rows
  <2>1. report'.events = report.events + Cardinality(rows)
    BY <1>1 DEF TypeOK
  <2> QED
    BY <2>1, <1>8 DEF Foretelling
<1>11. report'.vectors = Cardinality(DoneStale(E, V, a)')
  BY <1>1, <1>9 DEF Foretelling, TypeOK
<1> QED
  BY <1>1, <1>10, <1>11 DEF Foretelling


\* A statement of the real pass deletes rows that were doomed at its begin,
\* and where a pair has one limit all of them.
LEMMA StoryFulfils ==
  ASSUME TypeOK, LimitsInv, [Next]_vars, phase \in Sweeping => cur \notin todo,
         NEW E \in SUBSET Arrivals, NEW V \in SUBSET Arrivals, NEW a,
         Story(E, V, a), Fulfilling(E, V, a),
         NEW e \in EventDims, NEW q \in Pairs, EventSweep(e, q)
  PROVE  Fulfilling(E, V, a)'
<1> DEFINE rows == Condemned(events, a, q, e)
<1>1. /\ a = at /\ ~dry /\ ~dry' /\ events' = events \ rows
      /\ report' = [report EXCEPT !.events = @ + Cardinality(rows)]
      /\ UNCHANGED <<vectors, forecast>>
  BY DEF EventSweep, DropEvents, Fulfilling, Story
<1>2. /\ ~Past(q, e)
      /\ \A p \in Pairs, d \in Sweeping : Past(p, d)' <=> Past(p, d) \/ (p = q /\ d = e)
  BY PastSweep
<1>3. e \in Sweeping /\ EventDims \subseteq Sweeping
  BY DEF EventDims, Sweeping
<1>4. /\ Stale(E, V, a)' = Stale(E, V, a)
      /\ Total(E, V, a)' = Total(E, V, a)
      /\ \A r, d : Condemns(E, a, r, d)' <=> Condemns(E, a, r, d)
      /\ \A p : OneLimit(p)' <=> OneLimit(p)
  BY FixedMeaning
<1>5. rows \in SUBSET events /\ events \in SUBSET E /\ rows \in SUBSET E
      /\ \A r \in rows : r.pair = q
  BY DEF Condemned, OfPair, Fulfilling
<1>6. E \ events' = (E \ events) \cup rows
      /\ Cardinality(E \ events') = Cardinality(E \ events) + Cardinality(rows)
  <2> HIDE DEF rows
  <2> QED
    BY <1>1, <1>5, DropCount
<1>7. \A r \in E \ events' : \E d \in EventDims : Condemns(E, a, r, d)'
  <2>1. \A r \in rows : Condemns(E, a, r, e)
    BY <1>5, CondemnsMore DEF Condemned
  <2>2. \A r \in E \ events : \E d \in EventDims : Condemns(E, a, r, d)
    BY DEF Fulfilling
  <2> HIDE DEF rows
  <2> QED
    BY <1>4, <1>6, <2>1, <2>2
<1>8. ASSUME NEW p \in Pairs, OneLimit(p), NEW r \in OfPair(E, p)
      PROVE  r \notin events' <=> \E d \in EventDims : Condemns(E, a, r, d) /\ Past(p, d)'
  <2>0. r \in E /\ r.pair = p
    BY DEF OfPair
  <2>1. \A x \in OfPair(E, p) :
          x \notin events <=> \E d \in EventDims : Condemns(E, a, x, d) /\ Past(p, d)
    BY <1>8 DEF Fulfilling
  <2>2. CASE p # q
    <3>1. r \notin events' <=> r \notin events
      BY <1>1, <1>5, <2>0, <2>2
    <3>2. \A d \in EventDims : Past(p, d)' <=> Past(p, d)
      BY <1>2, <1>3, <2>2
    <3> QED
      BY <2>1, <3>1, <3>2
  <2>3. CASE p = q /\ Governing(q, e) = None
    <3>1. \A x \in OfPair(events, q) : x.pair = q /\ ~Condemns(events, a, x, e)
      BY <2>3, CondemnsSet DEF OfPair
    <3>2. rows = {}
      BY <3>1 DEF Condemned
    <3>3. r \notin events' <=> r \notin events
      BY <1>1, <3>2
    <3>4. ~Condemns(E, a, r, e)
      BY <2>0, <2>3, CondemnsSet
    <3>5. \A d \in EventDims : Condemns(E, a, r, d) => (Past(p, d)' <=> Past(p, d))
      BY <1>2, <1>3, <3>4
    <3> QED
      BY <2>1, <3>3, <3>5
  <2>4. CASE p = q /\ Governing(q, e) # None
    <3>1. \A x \in OfPair(E, q), d \in EventDims : Condemns(E, a, x, d) => d = e
      <4>1. \A x \in OfPair(E, q) : x.pair = q
        BY DEF OfPair
      <4>2. \A x \in OfPair(E, q), d \in EventDims :
              Condemns(E, a, x, d) => Governing(q, d) # None
        BY <4>1, CondemnsSet
      <4> QED
        BY <4>2, <1>8, <2>4 DEF OneLimit
    <3>2. \A x \in OfPair(E, q) : x \in events
      BY <1>2, <2>1, <2>4, <3>1
    <3>3. OfPair(events, q) = OfPair(E, q)
      BY <1>5, <3>2 DEF OfPair
    <3>4. r \in rows <=> Condemns(E, a, r, e)
      <4>1. Condemns(events, a, r, e) <=> Condemns(E, a, r, e)
        BY <2>0, <2>4, <3>3, CondemnsSame
      <4> QED
        BY <4>1, <2>4, <3>3 DEF Condemned
    <3>5. r \notin events' <=> Condemns(E, a, r, e)
      BY <1>1, <2>4, <3>2, <3>4
    <3>6. Past(p, e)'
      BY <1>2, <1>3, <2>4
    <3> QED
      BY <2>4, <3>1, <3>5, <3>6
  <2> QED
    BY <2>2, <2>3, <2>4
<1>9. DoneStale(E, V, a)' = DoneStale(E, V, a)
  <2>1. \A x \in Stale(E, V, a) : Past(x.pair, "vectors")' <=> Past(x.pair, "vectors")
    <3>1. \A x \in Stale(E, V, a) : x.pair \in Pairs
      BY RowFacts DEF Stale
    <3>2. e # "vectors" /\ "vectors" \in Sweeping
      BY DEF EventDims, Sweeping
    <3> QED
      BY <1>2, <3>1, <3>2
  <2> QED
    BY <1>4, <2>1 DEF DoneStale
<1>10. /\ report'.events = Cardinality(E \ events')
       /\ report'.vectors = Cardinality(V \ vectors')
  <2> HIDE DEF rows
  <2>1. /\ report'.events = report.events + Cardinality(rows)
        /\ report'.vectors = report.vectors
    BY <1>1 DEF TypeOK
  <2> QED
    BY <2>1, <1>1, <1>6 DEF Fulfilling
<1>11. V \ vectors' = DoneStale(E, V, a)'
  BY <1>1, <1>9 DEF Fulfilling
<1>12. events' \subseteq E /\ vectors' \subseteq V /\ forecast' = Total(E, V, a)'
  BY <1>1, <1>4 DEF Fulfilling
<1>13. \A p \in Pairs : OneLimit(p)' =>
         \A r \in OfPair(E, p)' :
           r \notin events' <=> \E d \in EventDims : Condemns(E, a, r, d)' /\ Past(p, d)'
  BY <1>4, <1>8 DEF OfPair
<1> QED
  BY <1>1, <1>7, <1>10, <1>11, <1>12, <1>13 DEF Fulfilling

\* The statement of the vector index, in a dry-run and in a real pass.
LEMMA StoryVectors ==
  ASSUME TypeOK, [Next]_vars, phase \in Sweeping => cur \notin todo,
         NEW E \in SUBSET Arrivals, NEW V \in SUBSET Arrivals, NEW a,
         Story(E, V, a), NEW q \in Pairs, VectorSweep(q)
  PROVE  Story(E, V, a)'
<1> DEFINE rows == Expired(V, a, q)
<1>1. /\ a = at /\ phase = "vectors" /\ phase' = "next" /\ cur = q
      /\ UNCHANGED <<dry, events, forecast, at, now, todo, cur>>
      /\ report' = [report EXCEPT !.vectors = @ + Cardinality(Expired(vectors, a, q))]
      /\ vectors' = IF dry THEN vectors ELSE vectors \ Expired(vectors, a, q)
  BY DEF VectorSweep, Story, inputs
<1>2. /\ ~Past(q, "vectors")
      /\ \A p \in Pairs, d \in Sweeping :
           Past(p, d)' <=> Past(p, d) \/ (p = q /\ d = "vectors")
  BY PastVectors
<1>3. q \in PairsOf(E) /\ "vectors" \in Sweeping /\ "vectors" \notin EventDims
      /\ EventDims \subseteq Sweeping
  BY <1>1 DEF Story, Sweeping, EventDims
<1>4. /\ Doomed(E, a)' = Doomed(E, a) /\ Stale(E, V, a)' = Stale(E, V, a)
      /\ Total(E, V, a)' = Total(E, V, a)
      /\ \A r, d : Condemns(E, a, r, d)' <=> Condemns(E, a, r, d)
      /\ \A p : OneLimit(p)' <=> OneLimit(p)
  BY FixedMeaning
<1>5. /\ rows \subseteq Stale(E, V, a) /\ DoneStale(E, V, a) \cap rows = {}
      /\ DoneStale(E, V, a)' = DoneStale(E, V, a) \cup rows
  <2>1. \A r \in Stale(E, V, a) : r \in rows <=> r.pair = q
    BY DEF Stale, Expired, OfPair
  <2>2. rows \subseteq Stale(E, V, a)
    BY <1>3 DEF Stale, Expired, OfPair
  <2>3. \A r \in Stale(E, V, a) :
          Past(r.pair, "vectors")' <=> Past(r.pair, "vectors") \/ r.pair = q
    <3>1. \A r \in Stale(E, V, a) : r.pair \in Pairs
      BY RowFacts DEF Stale
    <3> QED
      BY <1>2, <1>3, <3>1
  <2> HIDE DEF rows
  <2>4. DoneStale(E, V, a)' = DoneStale(E, V, a) \cup rows
    BY <1>4, <2>1, <2>2, <2>3 DEF DoneStale
  <2>5. DoneStale(E, V, a) \cap rows = {}
    BY <1>2, <2>1 DEF DoneStale
  <2> QED
    BY <2>2, <2>4, <2>5
<1>6. \A p \in Pairs, d \in EventDims : Past(p, d)' <=> Past(p, d)
  BY <1>2, <1>3
<1>7. DoneDoomed(E, a)' = DoneDoomed(E, a)
  <2>1. \A x \in Doomed(E, a) : Past(x[1].pair, x[2])' <=> Past(x[1].pair, x[2])
    BY <1>6, RowFacts DEF Doomed
  <2> QED
    BY <1>4, <2>1 DEF DoneDoomed
<1>8. CASE Foretelling(E, V, a)
  <2>1. vectors = V /\ dry
    BY <1>8 DEF Foretelling
  <2>2. Cardinality(DoneStale(E, V, a)') = Cardinality(DoneStale(E, V, a)) + Cardinality(rows)
    <3>1. DoneStale(E, V, a) \in SUBSET Arrivals /\ rows \in SUBSET Arrivals
      BY <1>5 DEF DoneStale, Stale
    <3>2. /\ IsFiniteSet(DoneStale(E, V, a)) /\ IsFiniteSet(rows)
          /\ Cardinality(DoneStale(E, V, a)) \in Nat /\ Cardinality(rows) \in Nat
      BY <3>1, RowsFinite
    <3>3. Cardinality(DoneStale(E, V, a) \cup rows) =
            Cardinality(DoneStale(E, V, a)) + Cardinality(rows)
              - Cardinality(DoneStale(E, V, a) \cap rows)
      BY <3>2, FS_Union
    <3>4. Cardinality(DoneStale(E, V, a) \cap rows) = 0
      BY <1>5, FS_EmptySet
    <3> HIDE DEF rows
    <3> QED
      BY <1>5, <3>2, <3>3, <3>4
  <2>3. report'.vectors = report.vectors + Cardinality(rows) /\ report'.events = report.events
    BY <1>1, <2>1 DEF TypeOK
  <2>4. Foretelling(E, V, a)'
    <3> HIDE DEF rows
    <3> QED
      BY <1>1, <1>7, <1>8, <2>1, <2>2, <2>3 DEF Foretelling
  <2> QED
    BY <1>1, <2>4 DEF Story, Sweeping
<1>9. CASE Told(E, V, a)
  BY <1>1, <1>9 DEF Told
<1>10. CASE Fulfilling(E, V, a)
  <2>1. ~dry /\ vectors \in SUBSET V /\ V \ vectors = DoneStale(E, V, a)
    BY <1>10 DEF Fulfilling
  <2>2. Expired(vectors, a, q) = rows /\ rows \in SUBSET vectors
    <3>1. rows \subseteq V
      BY DEF Expired, OfPair
    <3>2. rows \subseteq vectors
      BY <2>1, <1>5, <3>1
    <3> QED
      BY <2>1, <3>2 DEF Expired, OfPair
  <2> HIDE DEF rows
  <2>3. /\ V \ vectors' = (V \ vectors) \cup rows
        /\ Cardinality(V \ vectors') = Cardinality(V \ vectors) + Cardinality(rows)
    BY <1>1, <2>1, <2>2, DropCount
  <2>4. V \ vectors' = DoneStale(E, V, a)'
    BY <1>5, <2>1, <2>3
  <2>5. report'.vectors = report.vectors + Cardinality(rows) /\ report'.events = report.events
    BY <1>1, <2>2 DEF TypeOK
  <2>6. report'.vectors = Cardinality(V \ vectors') /\ report'.events = Cardinality(E \ events')
    BY <1>1, <1>10, <2>3, <2>5 DEF Fulfilling
  <2>7. \A p \in Pairs : OneLimit(p)' =>
          \A r \in OfPair(E, p)' :
            r \notin events' <=> \E d \in EventDims : Condemns(E, a, r, d)' /\ Past(p, d)'
    BY <1>1, <1>4, <1>6, <1>10 DEF Fulfilling, OfPair
  <2>8. \A r \in E \ events' : \E d \in EventDims : Condemns(E, a, r, d)'
    BY <1>1, <1>4, <1>10 DEF Fulfilling
  <2>9. ~dry' /\ forecast' = Total(E, V, a)' /\ events' \subseteq E /\ vectors' \subseteq V
    BY <1>1, <1>4, <1>10, <2>1 DEF Fulfilling
  <2>10. Fulfilling(E, V, a)'
    BY <2>4, <2>6, <2>7, <2>8, <2>9 DEF Fulfilling
  <2> QED
    BY <1>1, <2>10 DEF Story, Sweeping
<1> QED
  BY <1>8, <1>9, <1>10 DEF Story


\* A dry-run that has come to every pair has counted all that is doomed.
LEMMA StoryFinish ==
  ASSUME TypeOK, [Next]_vars, NEW E \in SUBSET Arrivals, NEW V \in SUBSET Arrivals, NEW a,
         Story(E, V, a), Finish
  PROVE  Story(E, V, a)'
<1>1. /\ phase = "next" /\ phase' = "idle" /\ todo = {} /\ todo' = {}
      /\ UNCHANGED <<dry, at, now, events, vectors, report>>
      /\ forecast' = IF forecast = Awaited THEN report ELSE forecast
  BY DEF Finish, Stop, inputs
<1>2. \A p, d : Past(p, d) /\ Past(p, d)'
  BY <1>1 DEF Past, Sweeping
<1>3. /\ Stale(E, V, a)' = Stale(E, V, a) /\ Total(E, V, a)' = Total(E, V, a)
      /\ \A r, d : Condemns(E, a, r, d)' <=> Condemns(E, a, r, d)
      /\ \A p : OneLimit(p)' <=> OneLimit(p)
  BY FixedMeaning
<1>4. DoneStale(E, V, a) = Stale(E, V, a) /\ DoneDoomed(E, a) = Doomed(E, a)
  BY <1>2 DEF DoneStale, DoneDoomed
<1>5. CASE Foretelling(E, V, a)
  <2>1. report = Total(E, V, a)
    BY <1>4, <1>5 DEF Foretelling, Total, TypeOK
  <2>2. Told(E, V, a)'
    BY <1>1, <1>3, <1>5, <2>1 DEF Foretelling, Told
  <2> QED
    BY <1>1, <2>2 DEF Story, Sweeping
<1>6. CASE Told(E, V, a)
  BY <1>1, <1>6 DEF Told
<1>7. CASE Fulfilling(E, V, a)
  <2>1. forecast # Awaited
    <3>1. forecast.events \in Nat
      BY <1>7, DoomedFinite DEF Fulfilling, Total
    <3> QED
      BY <3>1 DEF Awaited
  <2>2. DoneStale(E, V, a)' = DoneStale(E, V, a)
    BY <1>2, <1>3 DEF DoneStale
  <2>3. \A p \in Pairs : OneLimit(p)' =>
          \A r \in OfPair(E, p)' :
            r \notin events' <=> \E d \in EventDims : Condemns(E, a, r, d)' /\ Past(p, d)'
    <3>1. \A p \in Pairs : OneLimit(p) =>
            \A r \in OfPair(E, p) :
              r \notin events <=> \E d \in EventDims : Condemns(E, a, r, d) /\ Past(p, d)
      BY <1>7 DEF Fulfilling
    <3> QED
      BY <1>1, <1>2, <1>3, <3>1 DEF OfPair
  <2>4. \A r \in E \ events' : \E d \in EventDims : Condemns(E, a, r, d)'
    BY <1>1, <1>3, <1>7 DEF Fulfilling
  <2>5. /\ ~dry' /\ forecast' = Total(E, V, a)' /\ events' \subseteq E /\ vectors' \subseteq V
        /\ report'.events = Cardinality(E \ events')
        /\ report'.vectors = Cardinality(V \ vectors')
        /\ V \ vectors' = DoneStale(E, V, a)'
    BY <1>1, <1>3, <1>7, <2>1, <2>2 DEF Fulfilling
  <2>6. Fulfilling(E, V, a)'
    BY <2>3, <2>4, <2>5 DEF Fulfilling
  <2> QED
    BY <1>1, <2>6 DEF Story, Sweeping
<1> QED
  BY <1>5, <1>6, <1>7 DEF Story

\* A dry-run begins with nothing counted.
LEMMA StoryDryBegin ==
  ASSUME TypeOK, LimitsInv, [Next]_vars, Begin(TRUE)
  PROVE  Story(events, vectors, now)'
<1>1. /\ phase' = "next" /\ dry' = TRUE /\ forecast' = Awaited /\ at' = now /\ now' = now
      /\ events' = events /\ vectors' = vectors /\ todo' = PairsOf(events)
      /\ report' = [events |-> 0, vectors |-> 0]
  BY DEF Begin, inputs
<1>2. /\ \A r \in events : \A d : ~Past(r.pair, d)'
  BY <1>1 DEF Past, PairsOf
<1>3. DoneDoomed(events, now)' = {}
  BY <1>1, <1>2 DEF DoneDoomed, Doomed
<1>4. DoneStale(events, vectors, now)' = {}
  BY <1>1 DEF DoneStale, Stale, Past
<1>5. Foretelling(events, vectors, now)'
  BY <1>1, <1>3, <1>4, FS_EmptySet DEF Foretelling
<1>6. UniqueIds(events)'
  BY <1>1 DEF LimitsInv, UniqueIds
<1> QED
  BY <1>1, <1>5, <1>6 DEF Story, Sweeping, PairsOf

\* A real pass begins with nothing dropped of what the dry-run saw.
LEMMA StoryRealBegin ==
  ASSUME TypeOK, [Next]_vars, NEW E \in SUBSET Arrivals, NEW V \in SUBSET Arrivals, NEW a,
         Story(E, V, a), dry, Begin(FALSE)
  PROVE  Story(E, V, a)'
<1>1. /\ phase = "idle" /\ phase' = "next" /\ dry' = FALSE /\ forecast' = forecast
      /\ at' = now /\ now' = now
      /\ events' = events /\ vectors' = vectors /\ todo' = PairsOf(events)
      /\ report' = [events |-> 0, vectors |-> 0]
  BY DEF Begin, inputs
<1>2. Told(E, V, a)
  BY <1>1 DEF Story, Foretelling, Fulfilling
<1>3. events = E /\ vectors = V /\ forecast = Total(E, V, a)
  BY <1>2 DEF Told
<1>4. /\ Total(E, V, a)' = Total(E, V, a) /\ Stale(E, V, a)' = Stale(E, V, a)
  BY FixedMeaning
<1>5. DoneStale(E, V, a)' = {}
  BY <1>1, <1>3 DEF DoneStale, Stale, Past
<1>6. \A r \in E : \A d : ~Past(r.pair, d)'
  BY <1>1, <1>3 DEF Past, PairsOf
<1>7. \A p \in Pairs : \A r \in OfPair(E, p)' :
        r \notin events' <=> \E d \in EventDims : Condemns(E, a, r, d)' /\ Past(p, d)'
  BY <1>1, <1>3, <1>6 DEF OfPair
<1>8. E \ events' = {} /\ V \ vectors' = {} /\ Cardinality({}) = 0
  BY <1>1, <1>3, FS_EmptySet
<1>9. Fulfilling(E, V, a)'
  BY <1>1, <1>3, <1>4, <1>5, <1>7, <1>8 DEF Fulfilling
<1> QED
  BY <1>1, <1>3, <1>9 DEF Story, Sweeping

LEMMA ForecastInit == Init => ForecastInv
  BY DEF Init, ForecastInv, Sweeping

LEMMA ForecastNext ==
  TypeOK /\ LimitsInv /\ EnforceInv /\ ForecastInv /\ [Next]_vars => ForecastInv'
<1> SUFFICES ASSUME TypeOK, LimitsInv, EnforceInv, ForecastInv, [Next]_vars
             PROVE  ForecastInv'
  OBVIOUS
<1> DEFINE Same(E, V, a) == Story(E, V, a) => Story(E, V, a)'
<1>1. phase' \in Sweeping => cur' \notin todo'
  <2>1. ASSUME NEW q \in todo, NextPair(q) PROVE cur' \notin todo'
    BY <2>1 DEF NextPair
  <2>2. ASSUME NEW e \in EventDims, NEW q \in Pairs, EventSweep(e, q) PROVE cur' \notin todo'
    BY <2>2 DEF EventSweep, DropEvents, ForecastInv, Sweeping, EventDims
  <2>3. \/ UNCHANGED <<phase, cur, todo>>
        \/ phase' \in {"next", "idle"}
        \/ \E q \in todo : NextPair(q)
        \/ \E e \in EventDims, q \in Pairs : EventSweep(e, q)
    BY StepCases DEF vars, Tick, Store, Embed, Begin, VectorSweep, Finish, Fail, Stop, pass
  <2> QED
    BY <2>1, <2>2, <2>3 DEF ForecastInv, Sweeping
<1>2. ASSUME forecast # NoReport,
             \A E, V \in SUBSET Arrivals : \A a \in 0 .. MaxNow : Same(E, V, a)
      PROVE  ForecastInv'
  <2>1. PICK E \in SUBSET Arrivals, V \in SUBSET Arrivals, a \in 0 .. MaxNow : Story(E, V, a)
    BY <1>2 DEF ForecastInv
  <2>2. Story(E, V, a)'
    BY <1>2, <2>1
  <2> QED
    BY <1>1, <2>1, <2>2 DEF ForecastInv
<1>3. CASE forecast' = NoReport
  BY <1>1, <1>3 DEF ForecastInv
<1>4. CASE UNCHANGED vars /\ forecast' # NoReport
  <2>1. ASSUME NEW E \in SUBSET Arrivals, NEW V \in SUBSET Arrivals, NEW a \in 0 .. MaxNow
        PROVE  Same(E, V, a)
    <3>1. \A p \in Pairs, d \in Sweeping : Past(p, d)' <=> Past(p, d)
      BY <1>4 DEF vars, Past
    <3> QED
      BY <1>4, <3>1, StorySame DEF vars, Story
  <2> HIDE DEF Same
  <2> QED
    BY <1>2, <1>4, <2>1 DEF vars
<1>5. CASE Begin(TRUE)
  <2>1. Story(events, vectors, now)'
    BY <1>5, StoryDryBegin
  <2>2. events' \in SUBSET Arrivals /\ vectors' \in SUBSET Arrivals /\ now' \in 0 .. MaxNow
    BY <1>5 DEF Begin, TypeOK, inputs
  <2>3. \E E, V \in SUBSET Arrivals : \E a \in 0 .. MaxNow : Story(E, V, a)'
    <3>1. PICK E, V, a : E = events' /\ V = vectors' /\ a = now'
      OBVIOUS
    <3>2. Story(E, V, a)'
      BY <2>1, <3>1, <1>5 DEF Begin, inputs
    <3> QED
      BY <2>2, <3>1, <3>2
  <2> QED
    BY <1>1, <2>3 DEF ForecastInv
<1>6. CASE Begin(FALSE) /\ forecast' # NoReport
  <2>1. dry /\ forecast # NoReport
    BY <1>6 DEF Begin
  <2>2. ASSUME NEW E \in SUBSET Arrivals, NEW V \in SUBSET Arrivals, NEW a \in 0 .. MaxNow
        PROVE  Same(E, V, a)
    BY <1>6, <2>1, StoryRealBegin
  <2> HIDE DEF Same
  <2> QED
    BY <1>2, <2>1, <2>2
<1>7. CASE forecast # NoReport /\ \E q \in todo : NextPair(q)
  <2>1. ASSUME NEW E \in SUBSET Arrivals, NEW V \in SUBSET Arrivals, NEW a \in 0 .. MaxNow
        PROVE  Same(E, V, a)
    BY <1>7, StoryNextPair
  <2> HIDE DEF Same
  <2> QED
    BY <1>2, <1>7, <2>1
<1>8. CASE forecast # NoReport /\ \E e \in EventDims, q \in Pairs : EventSweep(e, q)
  <2>1. PICK e \in EventDims, q \in Pairs : EventSweep(e, q)
    BY <1>8
  <2>2. ASSUME NEW E \in SUBSET Arrivals, NEW V \in SUBSET Arrivals, NEW a \in 0 .. MaxNow
        PROVE  Same(E, V, a)
    <3> SUFFICES ASSUME Story(E, V, a) PROVE Story(E, V, a)'
      OBVIOUS
    <3>1. phase \in Sweeping => cur \notin todo
      BY DEF ForecastInv
    <3>2. /\ phase = e /\ phase \in Sweeping /\ phase # "idle"
          /\ UNCHANGED <<at, now, todo, cur>>
      BY <2>1 DEF EventSweep, DropEvents, EventDims, Sweeping, inputs
    <3>3. Foretelling(E, V, a) \/ Fulfilling(E, V, a)
      BY <3>2 DEF Story, Told
    <3>4. Foretelling(E, V, a)' \/ Fulfilling(E, V, a)'
      BY <2>1, <3>1, <3>3, StoryForetells, StoryFulfils
    <3> QED
      BY <3>2, <3>4 DEF Story, PairsOf
  <2> HIDE DEF Same
  <2> QED
    BY <1>2, <1>8, <2>2
<1>9. CASE forecast # NoReport /\ \E q \in Pairs : VectorSweep(q)
  <2>1. ASSUME NEW E \in SUBSET Arrivals, NEW V \in SUBSET Arrivals, NEW a \in 0 .. MaxNow
        PROVE  Same(E, V, a)
    BY <1>9, StoryVectors DEF ForecastInv
  <2> HIDE DEF Same
  <2> QED
    BY <1>2, <1>9, <2>1
<1>10. CASE forecast # NoReport /\ Finish
  <2>1. ASSUME NEW E \in SUBSET Arrivals, NEW V \in SUBSET Arrivals, NEW a \in 0 .. MaxNow
        PROVE  Same(E, V, a)
    BY <1>10, StoryFinish
  <2> HIDE DEF Same
  <2> QED
    BY <1>2, <1>10, <2>1
<1>11. forecast' # NoReport =>
         \/ UNCHANGED vars \/ Begin(TRUE) \/ Begin(FALSE)
         \/ forecast # NoReport /\ \E q \in todo : NextPair(q)
         \/ forecast # NoReport /\ \E e \in EventDims, q \in Pairs : EventSweep(e, q)
         \/ forecast # NoReport /\ \E q \in Pairs : VectorSweep(q)
         \/ forecast # NoReport /\ Finish
  <2>1. NoReport # Awaited
    <3>1. NoReport.events # Awaited.events
      BY DEF NoReport, Awaited
    <3> QED
      BY <3>1
  <2>2. Finish /\ forecast = NoReport => forecast' = NoReport
    BY <2>1 DEF Finish
  <2>3. Tick \/ (\E r \in Arrivals : Store(r)) \/ (\E r \in Arrivals : Embed(r)) \/ Fail
          => forecast' = NoReport
    BY DEF Tick, Store, Embed, Fail
  <2>4. ASSUME \/ \E q \in todo : NextPair(q)
               \/ \E e \in EventDims, q \in Pairs : EventSweep(e, q)
               \/ \E q \in Pairs : VectorSweep(q)
        PROVE  forecast' = forecast
    BY <2>4 DEF NextPair, EventSweep, DropEvents, VectorSweep
  <2>5. CASE Finish
    BY <2>2, <2>5
  <2> QED
    BY <2>3, <2>4, <2>5, StepCases
<1> QED
  BY <1>3, <1>4, <1>5, <1>6, <1>7, <1>8, <1>9, <1>10, <1>11


\* Once the real pass is over, everything a pair with one limit had doomed is
\* gone.
LEMMA ForecastImplies == TypeOK /\ EnforceInv /\ ForecastInv => DryRunBounds
<1> SUFFICES ASSUME TypeOK, EnforceInv, ForecastInv, Foretold
             PROVE  /\ report.events <= forecast.events
                    /\ report.vectors = forecast.vectors
                    /\ (\A p \in Pairs : OneLimit(p)) => report = forecast
  BY DEF DryRunBounds, OneLimit
<1>1. phase = "idle" /\ ~dry /\ forecast # NoReport /\ \A p, d : Past(p, d)
  BY DEF Foretold, EnforceInv, Past, Sweeping
<1>2. PICK E \in SUBSET Arrivals, V \in SUBSET Arrivals, a \in 0 .. MaxNow : Story(E, V, a)
  BY <1>1 DEF ForecastInv
<1>3. Fulfilling(E, V, a)
  BY <1>1, <1>2 DEF Story, Foretelling, Told
<1> DEFINE gone == E \ events
           all == Doomed(E, a)
           reason == [r \in gone |-> CHOOSE d \in EventDims : Condemns(E, a, r, d)]
           f == [r \in gone |-> <<r, reason[r]>>]
<1>4. forecast = Total(E, V, a) /\ report.events = Cardinality(gone)
      /\ report.vectors = Cardinality(DoneStale(E, V, a))
  BY <1>3 DEF Fulfilling
<1>5. DoneStale(E, V, a) = Stale(E, V, a)
  BY <1>1 DEF DoneStale
<1>6. report.vectors = forecast.vectors
  BY <1>4, <1>5 DEF Total
<1>7. forecast.events = Cardinality(all)
  BY <1>4 DEF Total
<1>8. IsFiniteSet(all) /\ Cardinality(all) \in Nat
  BY DoomedFinite
<1>9. \A r \in gone : reason[r] \in EventDims /\ Condemns(E, a, r, reason[r])
  <2>1. \A r \in gone : \E d \in EventDims : Condemns(E, a, r, d)
    BY <1>3 DEF Fulfilling
  <2> QED
    BY <2>1
<1> HIDE DEF reason
<1>10. f \in Injection(gone, all)
  <2>1. ASSUME NEW r \in gone PROVE <<r, reason[r]>> \in all
    BY <1>9 DEF Doomed
  <2>2. f \in [gone -> all]
    BY <2>1
  <2>3. \A r, q \in gone : f[r] = f[q] => r = q
    OBVIOUS
  <2> QED
    BY <2>2, <2>3 DEF Injection, IsInjective
<1>11. Cardinality(gone) <= Cardinality(all)
  <2> HIDE DEF f, gone, all
  <2> QED
    BY <1>8, <1>10, FS_Injection
<1>12. ASSUME \A p \in Pairs : OneLimit(p) PROVE report = forecast
  <2>1. ASSUME NEW x \in all PROVE \E r \in gone : f[r] = x
    <3>1. PICK r \in E, d \in EventDims : x = <<r, d>> /\ Condemns(E, a, r, d)
      BY DEF Doomed
    <3>2. r.pair \in Pairs /\ r \in OfPair(E, r.pair)
      BY RowFacts DEF OfPair
    <3>3. r \notin events
      BY <1>1, <1>3, <1>12, <3>1, <3>2 DEF Fulfilling
    <3>4. reason[r] = d
      <4>1. Condemns(E, a, r, reason[r]) /\ reason[r] \in EventDims
        BY <1>9, <3>3
      <4>2. Governing(r.pair, d) # None /\ Governing(r.pair, reason[r]) # None
        BY <3>1, <4>1, CondemnsSet
      <4> QED
        BY <1>12, <3>2, <4>1, <4>2 DEF OneLimit
    <3> QED
      BY <3>1, <3>3, <3>4
  <2>2. f \in Surjection(gone, all)
    <3>1. f \in [gone -> all]
      BY <1>10 DEF Injection
    <3> HIDE DEF f, gone, all
    <3> QED
      BY <2>1, <3>1 DEF Surjection
  <2>3. Cardinality(gone) = Cardinality(all)
    <3> HIDE DEF f, gone, all
    <3> QED
      BY <1>8, <1>10, <2>2, FS_Injection
  <2>4. report.events = forecast.events
    BY <1>4, <1>7, <2>3
  <2> QED
    BY <1>4, <1>6, <2>4 DEF TypeOK, Total
<1>13. report.events <= forecast.events
  BY <1>4, <1>7, <1>11
<1> QED
  BY <1>6, <1>12, <1>13

\* If nothing comes in and no time passes in between, the pass drops no more
\* events than the dry-run promised and exactly the vectors; where no pair
\* has two limits for its events it drops exactly what was promised.
THEOREM DryRunForetells == Spec => []DryRunBounds
<1>1. Init => TypeOK /\ LimitsInv /\ EnforceInv /\ ForecastInv
  BY TypeInit, LimitsInit, EnforceInit, ForecastInit
<1>2. TypeOK /\ LimitsInv /\ EnforceInv /\ ForecastInv /\ [Next]_vars
        => (TypeOK /\ LimitsInv /\ EnforceInv /\ ForecastInv)'
  BY TypeNext, LimitsNext, EnforceNext, ForecastNext
<1> QED
  BY <1>1, <1>2, ForecastImplies, PTL DEF Spec
=============================================================================
