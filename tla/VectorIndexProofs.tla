------------------------- MODULE VectorIndexProofs -------------------------
(***************************************************************************)
(* What holds of the vector index for all batches, pairs, models and       *)
(* cut-offs.  The inductive invariant adds to the properties what each     *)
(* step relies on of the others: the rows an append has committed are      *)
(* still in the table when it comes to the mirror, because it keeps the    *)
(* connection locked, and a stopped index has no call under way.  The      *)
(* index behind the search tool is this index (IndexUnderSearch), and the  *)
(* second half is about the tool: what the top-k heap holds after each row *)
(* of the scan, what sorting makes of it, and what the lookups leave.      *)
(***************************************************************************)
EXTENDS Search, SequenceTheorems, FiniteSetTheorems, TLAPS

\* Every non-empty set of natural numbers has a least element.
LEMMA NatMin ==
  ASSUME NEW T \in SUBSET Nat, T # {}
  PROVE  \E x \in T : \A y \in T : x <= y
<1>1. PICK x \in T : \A y \in T : ~(<<y, x>> \in OpToRel(<, Nat))
  BY NatLessThanWellFounded, WFMin
<1>2. ASSUME NEW y \in T PROVE x <= y
  <2>1. y < x => <<y, x>> \in OpToRel(<, Nat)
    BY DEF OpToRel
  <2>2. ~(y < x)
    BY <2>1, <1>1, Zenon
  <2>3. x \in Nat /\ y \in Nat
    OBVIOUS
  <2> QED
    BY <2>2, <2>3, SMT
<1> QED
  BY <1>2

-----------------------------------------------------------------------------
(* Types                                                                   *)

\* What stamping a batch gives.
LEMMA StampedType ==
  ASSUME TypeOK, NEW b \in Batches
  PROVE  /\ Stamped(b) \in Seq(Row)
         /\ Stamped(b) # <<>>
         /\ \A i \in DOMAIN Stamped(b) : Stamped(b)[i].model = model
<1>1. b \in Seq(Vector) /\ b # <<>>
  BY VectorIndexAssumption
<1>2. DOMAIN b = 1 .. Len(b) /\ Len(b) \in Nat /\ \A i \in DOMAIN b : b[i] \in Vector
  BY <1>1
<1>3. \A i \in DOMAIN b : Stamped(b)[i] \in Row /\ Stamped(b)[i].model = model
  BY <1>2 DEF Stamped, Vector, Row, TypeOK
<1>4. DOMAIN Stamped(b) = 1 .. Len(b) /\ Stamped(b) = [i \in 1 .. Len(b) |-> Stamped(b)[i]]
  BY <1>2 DEF Stamped
<1>5. Stamped(b) \in [1 .. Len(b) -> Row]
  BY <1>2, <1>3, <1>4
<1>6. Stamped(b) \in Seq(Row)
  BY <1>2, <1>5
<1>7. Len(b) # 0
  BY <1>1
<1> QED
  BY <1>2, <1>3, <1>4, <1>6, <1>7

\* The rows a batch leaves are rows of the batch.
LEMMA LastOfRows ==
  ASSUME NEW batch \in Seq(Row)
  PROVE  /\ LastOf(batch) \subseteq Row
         /\ \A r \in LastOf(batch) : \E i \in DOMAIN batch : r = batch[i]
  BY DEF LastOf

\* ... and no two of them have one event_id.
LEMMA LastOfUnique ==
  ASSUME NEW batch \in Seq(Row), NEW r \in LastOf(batch), NEW s \in LastOf(batch),
         r.id = s.id
  PROVE  r = s
<1>1. PICK i \in DOMAIN batch : r = batch[i] /\ \A k \in DOMAIN batch : k > i => batch[k].id # r.id
  BY DEF LastOf
<1>2. PICK j \in DOMAIN batch : s = batch[j] /\ \A k \in DOMAIN batch : k > j => batch[k].id # s.id
  BY DEF LastOf
<1>3. i \in Int /\ j \in Int
  OBVIOUS
<1> QED
  BY <1>1, <1>2, <1>3

\* ... and every event_id of the batch is among them.
LEMMA LastOfHasAll ==
  ASSUME NEW batch \in Seq(Row), NEW i \in DOMAIN batch
  PROVE  \E r \in LastOf(batch) : r.id = batch[i].id
<1> DEFINE same == {j \in DOMAIN batch : batch[j].id = batch[i].id}
           back == {Len(batch) - j : j \in same}
<1>1. Len(batch) \in Nat /\ DOMAIN batch = 1 .. Len(batch)
  OBVIOUS
<1>2. \A j \in same : j \in Int /\ 1 <= j /\ j <= Len(batch)
  BY <1>1
<1>3. back \in SUBSET Nat /\ back # {}
  BY <1>1, <1>2
<1>4. PICK m \in back : \A y \in back : m <= y
  BY <1>3, NatMin
<1>5. PICK j \in same : m = Len(batch) - j
  BY <1>4
<1>6. ASSUME NEW k \in DOMAIN batch, k > j PROVE batch[k].id # batch[j].id
  <2> SUFFICES ASSUME k \in same PROVE FALSE
    BY <1>5
  <2>1. m <= Len(batch) - k
    BY <1>4
  <2>2. k \in Int /\ j \in Int
    BY <1>2, <1>5
  <2> HIDE DEF same, back
  <2> QED
    BY <2>1, <2>2, <1>1, <1>5, <1>6
<1>7. batch[j] \in LastOf(batch)
  BY <1>5, <1>6 DEF LastOf
<1> QED
  BY <1>5, <1>7

\* The empty batch is a sequence of rows.
LEMMA NoRows == <<>> \in Seq(Row)
  OBVIOUS

\* The types hold initially.
LEMMA TypeInit == Init => TypeOK
<1> SUFFICES ASSUME Init PROVE TypeOK
  OBVIOUS
<1>1. up \in BOOLEAN /\ pending \in Seq(Row)
  BY NoRows DEF Init
<1>2. horizon \in [Pairs -> Int]
  BY DEF Init
<1> QED
  BY <1>1, <1>2 DEF Init, TypeOK

\* Every action keeps them.
LEMMA TypeNext == TypeOK /\ [Next]_vars => TypeOK'
<1> SUFFICES ASSUME TypeOK, [Next]_vars PROVE TypeOK'
  OBVIOUS
<1>1. ASSUME NEW b \in Batches, AppendCommit(b) PROVE TypeOK'
  <2>1. Stamped(b) \in Seq(Row) /\ LastOf(Stamped(b)) \subseteq Row
    BY StampedType, LastOfRows
  <2> QED
    BY <2>1, <1>1 DEF AppendCommit, Put, TypeOK
<1>2. CASE AppendMirror
  <2>1. LastOf(pending) \subseteq Row
    BY LastOfRows DEF TypeOK
  <2> QED
    BY <2>1, <1>2 DEF AppendMirror, Put, TypeOK
<1>3. ASSUME NEW p \in Pairs, NEW c \in Cutoffs, SweepDelete(p, c) PROVE TypeOK'
  BY <1>3, VectorIndexAssumption DEF SweepDelete, TypeOK, Sweep
<1>4. CASE SweepRetain
  <2>1. sweep \in Sweep
    BY <1>4 DEF SweepRetain, TypeOK
  <2>2. horizon' \in [Pairs -> Int]
    BY <1>4, <2>1 DEF SweepRetain, TypeOK, Sweep
  <2> QED
    BY <1>4, <2>2 DEF SweepRetain, TypeOK
<1>5. CASE Stop
  BY <1>5, NoRows DEF Stop, TypeOK
<1>6. ASSUME NEW m \in Models, Open(m) PROVE TypeOK'
  BY <1>6 DEF Open, TypeOK
<1>7. CASE UNCHANGED vars
  BY <1>7 DEF vars, TypeOK
<1> QED
  BY <1>1, <1>2, <1>3, <1>4, <1>5, <1>6, <1>7 DEF Next, Embedder, Sweeper, Process

\* The type invariant.
THEOREM IndexTypeCorrect == Spec => []TypeOK
  BY TypeInit, TypeNext, PTL DEF Spec

-----------------------------------------------------------------------------
(* Models                                                                  *)

\* The models, with the rows under way and what a stopped index holds.
ModelInv ==
  /\ OneModel
  /\ up => \A i \in DOMAIN pending : pending[i].model = model
  /\ ~up => mirror = {} /\ pending = <<>> /\ sweep = NoSweep

\* Every action keeps the one model, a restart with another included.
LEMMA ModelNext == TypeOK /\ ModelInv /\ [Next]_vars => ModelInv'
<1> SUFFICES ASSUME TypeOK, ModelInv, [Next]_vars PROVE ModelInv'
  OBVIOUS
<1>1. ASSUME NEW b \in Batches, AppendCommit(b) PROVE ModelInv'
  <2> DEFINE rows == Stamped(b)
  <2>1. rows \in Seq(Row) /\ \A i \in DOMAIN rows : rows[i].model = model
    BY StampedType
  <2>2. \A r \in LastOf(rows) : r.model = model
    BY <2>1, LastOfRows
  <2>3. \A r \in disk' : r.model = model
    BY <2>2, <1>1 DEF AppendCommit, Put, ModelInv, OneModel
  <2> QED
    BY <2>1, <2>3, <1>1 DEF AppendCommit, ModelInv, OneModel
<1>2. CASE AppendMirror
  <2>0. up
    BY <1>2 DEF AppendMirror, ModelInv
  <2>1. \A r \in LastOf(pending) : r.model = model
    BY <2>0, LastOfRows DEF ModelInv, TypeOK
  <2>2. \A r \in mirror' : r.model = model
    BY <2>0, <2>1, <1>2 DEF AppendMirror, Put, ModelInv, OneModel
  <2> QED
    BY <2>0, <2>2, <1>2 DEF AppendMirror, ModelInv, OneModel
<1>3. ASSUME NEW p \in Pairs, NEW c \in Cutoffs, SweepDelete(p, c) PROVE ModelInv'
  BY <1>3 DEF SweepDelete, ModelInv, OneModel
<1>4. CASE SweepRetain
  BY <1>4 DEF SweepRetain, ModelInv, OneModel
<1>5. CASE Stop
  BY <1>5 DEF Stop, ModelInv, OneModel
<1>6. ASSUME NEW m \in Models, Open(m) PROVE ModelInv'
  <2>1. \A r \in disk : r.model = m
    BY <1>6 DEF Open, ModelInv, OneModel
  <2> QED
    BY <2>1, <1>6 DEF Open, ModelInv, OneModel
<1>7. CASE UNCHANGED vars
  BY <1>7 DEF vars, ModelInv, OneModel
<1> QED
  BY <1>1, <1>2, <1>3, <1>4, <1>5, <1>6, <1>7 DEF Next, Embedder, Sweeper, Process

\* The index never holds vectors of two models, over any number of restarts.
THEOREM ModelsNeverMix == Spec => []OneModel
<1>1. Init => ModelInv
  BY DEF Init, ModelInv, OneModel
<1>2. ModelInv => OneModel
  BY DEF ModelInv
<1> QED
  BY TypeInit, TypeNext, <1>1, ModelNext, <1>2, PTL DEF Spec

-----------------------------------------------------------------------------
(* One row per event                                                       *)

KeyInv ==
  /\ OneRowPerEvent
  /\ \A r, s \in disk : r.id = s.id => r = s

\* Replace-or-push keeps event_ids unique.
LEMMA PutUnique ==
  ASSUME NEW rows, NEW batch \in Seq(Row),
         \A r, s \in rows : r.id = s.id => r = s
  PROVE  \A r, s \in Put(rows, batch) : r.id = s.id => r = s
<1> SUFFICES ASSUME NEW r \in Put(rows, batch), NEW s \in Put(rows, batch), r.id = s.id
             PROVE  r = s
  OBVIOUS
<1>1. CASE r \in LastOf(batch) /\ s \in LastOf(batch)
  BY <1>1, LastOfUnique
<1>2. CASE r \notin LastOf(batch) /\ s \notin LastOf(batch)
  BY <1>2 DEF Put
<1>3. ASSUME NEW x \in LastOf(batch), NEW y \in Put(rows, batch), y \notin LastOf(batch)
      PROVE  x.id # y.id
  BY <1>3, LastOfRows DEF Put
<1> QED
  BY <1>1, <1>2, <1>3

\* event_id is a key of an empty index.
LEMMA KeyInit == Init => KeyInv
  BY DEF Init, KeyInv, OneRowPerEvent

\* Every action keeps it one, in the table and in the mirror.
LEMMA KeyNext == TypeOK /\ KeyInv /\ [Next]_vars => KeyInv'
<1> SUFFICES ASSUME TypeOK, KeyInv, [Next]_vars PROVE KeyInv'
  OBVIOUS
<1>1. ASSUME NEW b \in Batches, AppendCommit(b) PROVE KeyInv'
  <2>1. \A r, s \in Put(disk, Stamped(b)) : r.id = s.id => r = s
    BY StampedType, PutUnique DEF KeyInv
  <2> QED
    BY <2>1, <1>1 DEF AppendCommit, KeyInv, OneRowPerEvent
<1>2. CASE AppendMirror
  <2>1. \A r, s \in Put(mirror, pending) : r.id = s.id => r = s
    BY PutUnique DEF KeyInv, OneRowPerEvent, TypeOK
  <2> QED
    BY <2>1, <1>2 DEF AppendMirror, KeyInv, OneRowPerEvent
<1>3. ASSUME NEW p \in Pairs, NEW c \in Cutoffs, SweepDelete(p, c) PROVE KeyInv'
  BY <1>3 DEF SweepDelete, KeyInv, OneRowPerEvent
<1>4. CASE SweepRetain
  BY <1>4 DEF SweepRetain, KeyInv, OneRowPerEvent
<1>5. CASE Stop
  BY <1>5 DEF Stop, KeyInv, OneRowPerEvent
<1>6. ASSUME NEW m \in Models, Open(m) PROVE KeyInv'
  BY <1>6 DEF Open, KeyInv, OneRowPerEvent
<1>7. CASE UNCHANGED vars
  BY <1>7 DEF vars, KeyInv, OneRowPerEvent
<1> QED
  BY <1>1, <1>2, <1>3, <1>4, <1>5, <1>6, <1>7 DEF Next, Embedder, Sweeper, Process

\* search_kn returns an event at most once, whatever is appended again.
THEOREM HitsAreDistinct == Spec => []OneRowPerEvent
<1>1. KeyInv => OneRowPerEvent
  BY DEF KeyInv
<1> QED
  BY TypeInit, TypeNext, KeyInit, KeyNext, <1>1, PTL DEF Spec

-----------------------------------------------------------------------------
(* Table and mirror                                                        *)

\* The two differences between table and mirror, and what an append has
\* committed is there until it reaches the mirror.
MirrorInv ==
  /\ NoGhosts
  /\ MissingIsExpired
  /\ LastOf(pending) \subseteq disk
  /\ ~up => mirror = {} /\ pending = <<>> /\ sweep = NoSweep

\* The empty batch leaves no row.
LEMMA LastOfNone == LastOf(<<>>) = {}
  BY DEF LastOf

\* Every action keeps table and mirror as close as the calls under way
\* allow.
LEMMA MirrorNext == TypeOK /\ KeyInv /\ MirrorInv /\ [Next]_vars => MirrorInv'
<1> SUFFICES ASSUME TypeOK, KeyInv, MirrorInv, [Next]_vars PROVE MirrorInv'
  OBVIOUS
<1>1. ASSUME NEW b \in Batches, AppendCommit(b) PROVE MirrorInv'
  <2>1. LastOf(pending') \subseteq disk'
    BY <1>1 DEF AppendCommit, Put
  <2>2. NoGhosts'
    BY <1>1 DEF AppendCommit, Put, NoGhosts, MirrorInv, Swept
  <2>3. MissingIsExpired'
    BY <1>1, LastOfNone DEF AppendCommit, Put, MissingIsExpired, MirrorInv
  <2> QED
    BY <1>1, <2>1, <2>2, <2>3 DEF AppendCommit, MirrorInv
<1>2. CASE AppendMirror
  <2>1. LastOf(pending') = {}
    BY <1>2, LastOfNone DEF AppendMirror
  <2>2. NoGhosts'
    BY <1>2 DEF AppendMirror, Put, NoGhosts, MirrorInv, Swept
  <2>3. MissingIsExpired'
    <3> SUFFICES ASSUME up, NEW r \in disk, r \notin mirror'
                 PROVE  r.ts < horizon[r.pair]
      BY <1>2 DEF AppendMirror, MissingIsExpired
    <3>1. r \notin LastOf(pending)
      BY <1>2 DEF AppendMirror, Put
    <3>2. CASE r \notin mirror
      BY <3>1, <3>2 DEF MirrorInv, MissingIsExpired
    <3>3. CASE r \in mirror
      <4>1. PICK i \in DOMAIN pending : pending[i].id = r.id
        BY <3>3, <1>2 DEF AppendMirror, Put
      <4>2. PICK s \in LastOf(pending) : s.id = r.id
        BY <4>1, LastOfHasAll DEF TypeOK
      <4>3. s = r
        BY <4>2 DEF MirrorInv, KeyInv
      <4> QED
        BY <4>2, <4>3, <3>1
    <3> QED
      BY <3>2, <3>3
  <2> QED
    BY <1>2, <2>1, <2>2, <2>3 DEF AppendMirror, MirrorInv
<1>3. ASSUME NEW p \in Pairs, NEW c \in Cutoffs, SweepDelete(p, c) PROVE MirrorInv'
  <2>1. sweep' # NoSweep
    BY <1>3, VectorIndexAssumption DEF SweepDelete, NoSweep
  <2>2. NoGhosts'
    BY <1>3, <2>1 DEF SweepDelete, NoGhosts, MirrorInv, Swept
  <2>3. MissingIsExpired' /\ LastOf(pending') \subseteq disk'
    BY <1>3, LastOfNone DEF SweepDelete, MissingIsExpired, MirrorInv
  <2> QED
    BY <1>3, <2>2, <2>3 DEF SweepDelete, MirrorInv
<1>4. CASE SweepRetain
  <2>1. NoGhosts' /\ LastOf(pending') \subseteq disk'
    BY <1>4 DEF SweepRetain, NoGhosts, MirrorInv, Swept
  <2>2. MissingIsExpired'
    <3> SUFFICES ASSUME up, NEW r \in disk, r \notin mirror', r \notin LastOf(pending)
                 PROVE  r.ts < horizon'[r.pair]
      BY <1>4 DEF SweepRetain, MissingIsExpired
    <3>1. r.ts \in Int /\ r.pair \in Pairs
      BY DEF TypeOK, Row
    <3>2. sweep.pair \in Pairs /\ sweep.cutoff \in Int
      BY <1>4 DEF SweepRetain, TypeOK, Sweep
    <3>3. /\ horizon[r.pair] \in Int
          /\ horizon'[r.pair] \in Int
          /\ horizon'[r.pair] >= horizon[r.pair]
          /\ r.pair = sweep.pair => horizon'[r.pair] >= sweep.cutoff
      BY <1>4, <3>1, <3>2 DEF SweepRetain, TypeOK
    <3>4. CASE r \notin mirror
      <4>1. r.ts < horizon[r.pair]
        BY <3>4 DEF MirrorInv, MissingIsExpired
      <4> QED
        BY <4>1, <3>1, <3>3
    <3>5. CASE r \in mirror
      <4>1. r.pair = sweep.pair /\ r.ts < sweep.cutoff
        BY <3>5, <1>4 DEF SweepRetain, Swept
      <4> QED
        BY <4>1, <3>1, <3>2, <3>3
    <3> QED
      BY <3>4, <3>5
  <2> QED
    BY <1>4, <2>1, <2>2 DEF SweepRetain, MirrorInv
<1>5. CASE Stop
  BY <1>5, LastOfNone DEF Stop, MirrorInv, NoGhosts, MissingIsExpired
<1>6. ASSUME NEW m \in Models, Open(m) PROVE MirrorInv'
  BY <1>6 DEF Open, MirrorInv, NoGhosts, MissingIsExpired
<1>7. CASE UNCHANGED vars
  BY <1>7 DEF vars, MirrorInv, NoGhosts, MissingIsExpired
<1> QED
  BY <1>1, <1>2, <1>3, <1>4, <1>5, <1>6, <1>7 DEF Next, Embedder, Sweeper, Process

\* They agree initially.
LEMMA MirrorInit == Init => MirrorInv
  BY LastOfNone DEF Init, MirrorInv, NoGhosts, MissingIsExpired

\* search_kn never finds a vector that is not stored, but for the span of a
\* call that is about to remove it.
THEOREM SearchFindsNoGhosts == Spec => []NoGhosts
<1>1. MirrorInv => NoGhosts
  BY DEF MirrorInv
<1> QED
  BY TypeInit, TypeNext, KeyInit, KeyNext, MirrorInit, MirrorNext, <1>1, PTL DEF Spec

\* search_kn misses a stored vector only if it has expired or is being added.
THEOREM SearchMissesOnlyExpired == Spec => []MissingIsExpired
<1>1. MirrorInv => MissingIsExpired
  BY DEF MirrorInv
<1> QED
  BY TypeInit, TypeNext, KeyInit, KeyNext, MirrorInit, MirrorNext, <1>1, PTL DEF Spec

-----------------------------------------------------------------------------
(* The index under the search tool                                         *)

\* A step of the index, or none of it, is all that each step is to the index.
LEMMA IndexStep == [SearchNext]_allVars => [Next]_vars
<1> SUFFICES ASSUME [SearchNext]_allVars PROVE [Next]_vars
  OBVIOUS
<1>1. CASE Index
  BY <1>1 DEF Index
<1>2. CASE Tool
  BY <1>2, Zenon DEF Tool, SearchRefuse, SearchTop, Hydrate, SearchReturn
<1>3. CASE Cold
  BY <1>3, Zenon DEF Cold, ColdAppend, ColdSweep
<1>4. CASE UNCHANGED allVars
  BY <1>4, Zenon DEF allVars
<1> QED
  BY <1>1, <1>2, <1>3, <1>4 DEF SearchNext

\* search_events, the cold store's appends and the cold sweeps leave the index
\* alone: what the tool composes is the index of the theorems above, and they
\* hold while searches run.
THEOREM IndexUnderSearch == SearchSpec => Spec
<1>1. SearchInit => Init
  BY DEF SearchInit
<1> QED
  BY <1>1, IndexStep, PTL DEF SearchSpec, Spec

\* A search under way never ranks a ghost, misses only what has expired, ranks
\* an event once and compares vectors of one model.
THEOREM SearchSeesTheIndex ==
  SearchSpec => [](NoGhosts /\ MissingIsExpired /\ OneRowPerEvent /\ OneModel)
  BY IndexUnderSearch, SearchFindsNoGhosts, SearchMissesOnlyExpired, HitsAreDistinct,
     ModelsNeverMix, PTL

-----------------------------------------------------------------------------
(* Folds                                                                   *)

\* A non-empty set of numbers of 1 .. n has a greatest element.
LEMMA IntervalMax ==
  ASSUME NEW n \in Nat, NEW s \in SUBSET (1 .. n), s # {}
  PROVE  \E x \in s : \A y \in s : x >= y
<1> DEFINE T == {n - y : y \in s}
<1>1. \A y \in s : y \in Nat /\ n - y \in Nat
  OBVIOUS
<1>2. T \in SUBSET Nat /\ T # {}
  BY <1>1
<1>3. PICK z \in T : \A y \in T : z <= y
  BY <1>2, NatMin
<1>4. PICK x \in s : z = n - x
  OBVIOUS
<1>5. ASSUME NEW y \in s PROVE x >= y
  <2>1. n - x <= n - y
    BY <1>3, <1>4
  <2> QED
    BY <2>1, <1>1
<1> QED
  BY <1>5

\* ch takes an element of every subset of S but the empty one.
Picks(ch, S) == \A s \in SUBSET S : s # {} => ch[s] \in s

\* it folds the subsets of S: ch takes the next element, G combines it with
\* what the fold of the others gives.
IsFold(it, S, base, G, ch) ==
  \A s \in SUBSET S :
    it[s] = IF s = {} THEN base ELSE G[<<it[s \ {ch[s]}], ch[s]>>]

\* A finite set can be folded.
LEMMA FoldExists ==
  ASSUME NEW S, IsFiniteSet(S), NEW V, NEW base \in V, NEW G \in [V \X S -> V],
         NEW ch, Picks(ch, S)
  PROVE  \E it \in [SUBSET S -> V] : IsFold(it, S, base, G, ch)
<1> DEFINE D(n) == {s \in SUBSET S : Cardinality(s) <= n}
           Folds(it, n) == \A s \in D(n) :
             it[s] = IF s = {} THEN base ELSE G[<<it[s \ {ch[s]}], ch[s]>>]
           Bad == {n \in Nat : ~\E it \in [D(n) -> V] : Folds(it, n)}
<1>0. ASSUME NEW s \in SUBSET S
      PROVE  /\ IsFiniteSet(s) /\ Cardinality(s) \in Nat
             /\ Cardinality(s) <= Cardinality(S)
             /\ Cardinality(s) = 0 <=> s = {}
  BY FS_Subset, FS_CardinalityType, FS_EmptySet
<1>1. ASSUME NEW s \in SUBSET S, s # {}
      PROVE  /\ ch[s] \in s /\ ch[s] \in S /\ s \ {ch[s]} \in SUBSET S
             /\ Cardinality(s \ {ch[s]}) = Cardinality(s) - 1
  <2>1. ch[s] \in s
    BY <1>1 DEF Picks
  <2> QED
    BY <1>0, <2>1, FS_RemoveElement
<1>2. Bad = {}
  <2>1. SUFFICES ASSUME Bad # {} PROVE FALSE
    OBVIOUS
  <2>2. PICK m \in Bad : \A k \in Bad : m <= k
    BY <2>1, NatMin
  <2>3. m \in Nat
    OBVIOUS
  <2>4. CASE m = 0
    <3> DEFINE it == [s \in D(m) |-> base]
    <3>1. \A s \in D(m) : s = {}
      BY <1>0, <2>4
    <3>2. it \in [D(m) -> V] /\ Folds(it, m)
      BY <3>1
    <3> HIDE DEF it
    <3> QED
      BY <3>2
  <2>5. CASE m # 0
    <3>1. m - 1 \in Nat /\ m - 1 \notin Bad
      <4> HIDE DEF Bad
      <4> QED
        BY <2>2, <2>3, <2>5
    <3>2. PICK it \in [D(m - 1) -> V] : Folds(it, m - 1)
      BY <3>1
    <3> DEFINE jt == [s \in D(m) |-> IF s = {} THEN base ELSE G[<<it[s \ {ch[s]}], ch[s]>>]]
    <3>3. ASSUME NEW s \in D(m), s # {}
          PROVE  s \ {ch[s]} \in D(m - 1) /\ s \ {ch[s]} \in D(m) /\ ch[s] \in S
      BY <1>0, <1>1, <2>3, <3>3
    <3>4. ASSUME NEW u \in D(m - 1) PROVE jt[u] = it[u]
      <4>1. u \in D(m)
        BY <1>0, <2>3
      <4> QED
        BY <4>1, <3>2
    <3>5. jt \in [D(m) -> V]
      <4>1. ASSUME NEW s \in D(m), s # {}
            PROVE  G[<<it[s \ {ch[s]}], ch[s]>>] \in V
        BY <3>3, <4>1, <3>2
      <4> QED
        BY <4>1
    <3>6. Folds(jt, m)
      <4> HIDE DEF jt
      <4>1. ASSUME NEW s \in D(m), s # {}
            PROVE  jt[s] = G[<<jt[s \ {ch[s]}], ch[s]>>]
        <5>1. jt[s \ {ch[s]}] = it[s \ {ch[s]}]
          BY <3>3, <3>4, <4>1
        <5> QED
          BY <5>1, <4>1 DEF jt
      <4>2. ASSUME NEW s \in D(m), s = {} PROVE jt[s] = base
        BY <4>2 DEF jt
      <4> QED
        BY <4>1, <4>2
    <3> QED
      BY <3>5, <3>6
  <2> QED
    BY <2>4, <2>5
<1>3. Cardinality(S) \in Nat
  BY FS_CardinalityType
<1>4. PICK it \in [D(Cardinality(S)) -> V] : Folds(it, Cardinality(S))
  BY <1>2, <1>3
<1>5. D(Cardinality(S)) = SUBSET S
  BY <1>0
<1> QED
  BY <1>4, <1>5 DEF IsFold

\* g folds the subsets of S as long as it has values in V.
FoldsWithin(g, V, S, base, G, ch) ==
  /\ g[{}] = base
  /\ \A s \in SUBSET S : s # {} /\ g[s \ {ch[s]}] \in V =>
       g[s] = G[<<g[s \ {ch[s]}], ch[s]>>]

\* Such a function has no other values.
LEMMA FoldValues ==
  ASSUME NEW S, IsFiniteSet(S), NEW V, NEW base \in V, NEW G \in [V \X S -> V],
         NEW ch, Picks(ch, S), NEW g, FoldsWithin(g, V, S, base, G, ch)
  PROVE  \A s \in SUBSET S : g[s] \in V
<1> DEFINE Bad == {s \in SUBSET S : g[s] \notin V}
           T == {Cardinality(s) : s \in Bad}
<1>0. \A s \in SUBSET S : IsFiniteSet(s) /\ Cardinality(s) \in Nat
  BY FS_Subset, FS_CardinalityType
<1>1. SUFFICES ASSUME Bad # {} PROVE FALSE
  OBVIOUS
<1>2. T \in SUBSET Nat /\ T # {}
  BY <1>0, <1>1
<1>3. PICK n \in T : \A k \in T : n <= k
  BY <1>2, NatMin
<1>4. PICK s \in Bad : n = Cardinality(s)
  OBVIOUS
<1>5. s # {} /\ ch[s] \in s
  BY DEF Picks, FoldsWithin
<1> DEFINE u == s \ {ch[s]}
<1>6. Cardinality(u) = n - 1 /\ n \in Nat
  BY <1>0, <1>4, <1>5, FS_RemoveElement
<1>7. u \in SUBSET S /\ u \notin Bad
  BY <1>3, <1>6
<1>8. g[s] = G[<<g[u], ch[s]>>] /\ g[u] \in V
  BY <1>5, <1>7 DEF FoldsWithin
<1> QED
  BY <1>5, <1>8


-----------------------------------------------------------------------------
(* Ranking                                                                 *)

Hit == [id : Ids, score : Int]

HitOf(r, q) == [id |-> r.id, score |-> q[r.id]]

\* Rows with an event_id of the model.
KnownRows == {r \in Row : r.id \in Ids}

\* f[i] is the heap after the first i rows of the scan.
HeapRun(f, order, q, k) ==
  /\ f[0] = <<>>
  /\ \A i \in 1 .. Len(order) : f[i] = InsertTopK(f[i - 1], HitOf(order[i], q), k)
  /\ SearchKn(order, q, k) = Ranked(f[Len(order)])

\* A row's hit.
LEMMA HitType ==
  ASSUME NEW r \in KnownRows, NEW q \in [Ids -> Int]
  PROVE  HitOf(r, q) \in Hit
  BY DEF KnownRows, HitOf, Hit

\* A heap with one more row in it is a sequence of hits.
LEMMA InsertType ==
  ASSUME NEW heap \in Seq(Hit), NEW hit \in Hit, NEW k
  PROVE  InsertTopK(heap, hit, k) \in Seq(Hit)
<1>1. Append(heap, hit) \in Seq(Hit)
  BY AppendProperties
<1>2. [heap EXCEPT ![Worst(heap)] = hit] \in Seq(Hit)
  <2>1. heap \in [1 .. Len(heap) -> Hit] /\ Len(heap) \in Nat
    BY LenProperties
  <2>2. [heap EXCEPT ![Worst(heap)] = hit] \in [1 .. Len(heap) -> Hit]
    BY <2>1
  <2> QED
    BY <2>1, <2>2
<1> QED
  BY <1>1, <1>2 DEF InsertTopK

\* The scan goes through the rows from the first to the last.
LEMMA HeapSteps ==
  ASSUME NEW order \in Seq(KnownRows), NEW q \in [Ids -> Int], NEW k
  PROVE  \E f \in [0 .. Len(order) -> Seq(Hit)] : HeapRun(f, order, q, k)
<1> DEFINE n == Len(order)
           S == 1 .. n
           V == Seq(Hit)
           Step(x, i) == InsertTopK(x, HitOf(order[i], q), k)
           G == [y \in V \X S |-> Step(y[1], y[2])]
           ch == [s \in SUBSET S |-> Max(s)]
           Eqn(it) == it = [s \in SUBSET S |->
                              IF s = {} THEN <<>> ELSE Step(it[s \ {Max(s)}], Max(s))]
           g == CHOOSE it : Eqn(it)
<1>1. n \in Nat /\ DOMAIN order = S /\ IsFiniteSet(S) /\ \A i \in S : order[i] \in KnownRows
  BY LenProperties, FS_Interval
<1>2. ASSUME NEW x \in V, NEW i \in S PROVE Step(x, i) \in V
  <2>1. HitOf(order[i], q) \in Hit
    BY <1>1, HitType
  <2> QED
    BY <2>1, InsertType
<1>3. G \in [V \X S -> V]
  <2> HIDE DEF V, Step
  <2> QED
    BY <1>2
<1>4. ASSUME NEW s \in SUBSET S, s # {}
      PROVE  Max(s) \in s /\ \A y \in s : Max(s) >= y
  <2>1. \E x \in s : \A y \in s : x >= y
    BY <1>1, <1>4, IntervalMax
  <2> QED
    BY <2>1 DEF Max
<1>5. Picks(ch, S)
  BY <1>4 DEF Picks
<1>0. <<>> \in V
  OBVIOUS
<1>6. \E it : Eqn(it)
  <2> HIDE DEF G, ch, S, V
  <2>1. PICK it \in [SUBSET S -> V] : IsFold(it, S, <<>>, G, ch)
    BY <1>0, <1>1, <1>3, <1>5, FoldExists
  <2>2. ASSUME NEW s \in SUBSET S, s # {}
        PROVE  it[s] = Step(it[s \ {Max(s)}], Max(s))
    <3>1. ch[s] = Max(s) /\ Max(s) \in S /\ it[s \ {Max(s)}] \in V
      BY <1>4, <2>1, <2>2 DEF ch
    <3>2. it[s] = G[<<it[s \ {Max(s)}], Max(s)>>]
      BY <2>1, <2>2, <3>1 DEF IsFold
    <3> HIDE DEF Step
    <3> QED
      BY <3>1, <3>2 DEF G
  <2>3. ASSUME NEW s \in SUBSET S
        PROVE  it[s] = IF s = {} THEN <<>> ELSE Step(it[s \ {Max(s)}], Max(s))
    BY <2>1, <2>2 DEF IsFold
  <2> HIDE DEF Step
  <2>4. Eqn(it)
    BY <2>1, <2>3
  <2> QED
    BY <2>4
<1>7. Eqn(g)
  BY <1>6
<1>8. SearchKn(order, q, k) = Ranked(g[S])
  BY <1>1 DEF SearchKn, FoldLeft, MapThenFoldSet, HitOf
<1> HIDE DEF g
<1>9. ASSUME NEW s \in SUBSET S, s # {}
      PROVE  g[s] = Step(g[s \ {Max(s)}], Max(s))
  <2> HIDE DEF Step
  <2> QED
    BY <1>7, <1>9
<1>10. g[{}] = <<>>
  <2> HIDE DEF Step
  <2> QED
    BY <1>7
<1>11. \A s \in SUBSET S : g[s] \in V
  <2> HIDE DEF Step
  <2>1. ASSUME NEW s \in SUBSET S, s # {}, g[s \ {ch[s]}] \in V
        PROVE  g[s] = G[<<g[s \ {ch[s]}], ch[s]>>]
    <3> HIDE DEF V
    <3> QED
      BY <1>4, <1>9, <2>1
  <2> HIDE DEF G, ch, S, V
  <2>2. FoldsWithin(g, V, S, <<>>, G, ch)
    BY <2>1, <1>10 DEF FoldsWithin
  <2> QED
    BY <2>2, <1>0, <1>1, <1>3, <1>5, FoldValues
<1> DEFINE f == [i \in 0 .. n |-> g[1 .. i]]
<1>12. f \in [0 .. n -> V] /\ f[0] = <<>> /\ f[n] = g[S]
  <2>1. \A i \in 0 .. n : 1 .. i \in SUBSET S
    BY <1>1
  <2>2. 1 .. 0 = {}
    OBVIOUS
  <2> HIDE DEF V
  <2> QED
    BY <1>1, <1>10, <1>11, <2>1, <2>2
<1>13. ASSUME NEW i \in S PROVE f[i] = Step(f[i - 1], i)
  <2>0. i \in Nat /\ i >= 1 /\ i <= n
    BY <1>1
  <2>1. 1 .. i \in SUBSET S /\ 1 .. i # {} /\ i \in 1 .. i
    <3> HIDE DEF n
    <3>1. i \in 1 .. i
      BY <2>0
    <3>2. \A j \in 1 .. i : j \in 1 .. n
      BY <1>1, <2>0
    <3> QED
      BY <3>1, <3>2
  <2>2. Max(1 .. i) = i
    BY <1>4, <2>1
  <2>3. (1 .. i) \ {i} = 1 .. (i - 1)
    BY <1>1
  <2>4. g[1 .. i] = Step(g[1 .. (i - 1)], i)
    BY <1>9, <2>1, <2>2, <2>3
  <2>5. f[i] = g[1 .. i] /\ f[i - 1] = g[1 .. (i - 1)]
    BY <1>1
  <2> HIDE DEF Step, f
  <2> QED
    BY <2>4, <2>5
<1> HIDE DEF f
<1> QED
  BY <1>8, <1>12, <1>13 DEF HeapRun

\* Of numbers in a row, the first of the least.
LEMMA FirstLeast ==
  ASSUME NEW n \in Nat, n >= 1, NEW sc \in [1 .. n -> Int]
  PROVE  \E i \in 1 .. n : \A j \in 1 .. n : sc[i] < sc[j] \/ (sc[i] = sc[j] /\ i <= j)
<1> DEFINE Least(i, m) ==
             /\ i \in 1 .. m
             /\ \A j \in 1 .. m : sc[i] < sc[j] \/ (sc[i] = sc[j] /\ i <= j)
           Bad == {m \in 1 .. n : ~\E i \in 1 .. m : Least(i, m)}
<1>1. Bad = {}
  <2>1. SUFFICES ASSUME Bad # {} PROVE FALSE
    OBVIOUS
  <2>2. Bad \in SUBSET Nat
    OBVIOUS
  <2>3. PICK m \in Bad : \A x \in Bad : m <= x
    BY <2>1, <2>2, NatMin
  <2>4. m \in Nat /\ m >= 1 /\ m <= n /\ ~\E i \in 1 .. m : Least(i, m)
    OBVIOUS
  <2>5. CASE m = 1
    <3>1. Least(1, 1)
      OBVIOUS
    <3> HIDE DEF Least
    <3> QED
      BY <2>4, <2>5, <3>1
  <2>6. CASE m # 1
    <3>1. m - 1 \in 1 .. n /\ ~(m <= m - 1)
      BY <2>4, <2>6
    <3>2. m - 1 \notin Bad
      <4> HIDE DEF Bad
      <4> QED
        BY <2>3, <3>1
    <3>3. PICK i \in 1 .. (m - 1) : Least(i, m - 1)
      BY <3>1, <3>2
    <3>4. \A j \in 1 .. m : j = m \/ j \in 1 .. (m - 1)
      BY <2>4
    <3>5. sc[m] \in Int /\ sc[i] \in Int /\ i \in Nat /\ i <= m /\ i \in 1 .. m /\ m \in 1 .. m
      BY <2>4, <3>3
    <3>6. CASE sc[m] < sc[i]
      <4>1. ASSUME NEW j \in 1 .. m
            PROVE  sc[m] < sc[j] \/ (sc[m] = sc[j] /\ m <= j)
        <5>1. sc[j] \in Int
          BY <2>4
        <5> QED
          BY <3>3, <3>4, <3>5, <3>6, <5>1
      <4>2. Least(m, m)
        BY <3>5, <4>1
      <4> HIDE DEF Least
      <4> QED
        BY <2>4, <3>5, <4>2
    <3>7. CASE ~(sc[m] < sc[i])
      <4>1. ASSUME NEW j \in 1 .. m
            PROVE  sc[i] < sc[j] \/ (sc[i] = sc[j] /\ i <= j)
        BY <3>3, <3>4, <3>5, <3>7
      <4>2. Least(i, m)
        BY <3>5, <4>1
      <4> HIDE DEF Least
      <4> QED
        BY <2>4, <3>5, <4>2
    <3> QED
      BY <3>6, <3>7
  <2> QED
    BY <2>5, <2>6
<1>2. n \in 1 .. n
  OBVIOUS
<1>3. \E i \in 1 .. n : Least(i, n)
  <2> HIDE DEF Least
  <2> QED
    BY <1>1, <1>2
<1> QED
  BY <1>3

\* A heap that is not empty has a worst hit.
LEMMA WorstHit ==
  ASSUME NEW heap \in Seq(Hit), heap # <<>>
  PROVE  /\ Worst(heap) \in DOMAIN heap
         /\ \A j \in DOMAIN heap : heap[Worst(heap)].score <= heap[j].score
<1> DEFINE n == Len(heap)
           sc == [i \in 1 .. n |-> heap[i].score]
<1>1. n \in Nat /\ n >= 1 /\ DOMAIN heap = 1 .. n
  BY LenProperties, EmptySeq
<1>2. \A i \in 1 .. n : heap[i] \in Hit
  BY <1>1, ElementOfSeq
<1>3. sc \in [1 .. n -> Int]
  BY <1>2 DEF Hit
<1>4. \E i \in 1 .. n : \A j \in 1 .. n : sc[i] < sc[j] \/ (sc[i] = sc[j] /\ i <= j)
  <2> HIDE DEF n, sc
  <2> QED
    BY <1>1, <1>3, FirstLeast
<1>5. /\ Worst(heap) \in 1 .. n
      /\ \A j \in 1 .. n : sc[Worst(heap)] < sc[j]
                           \/ (sc[Worst(heap)] = sc[j] /\ Worst(heap) <= j)
  BY <1>1, <1>4 DEF Worst
<1>6. \A j \in 1 .. n : sc[Worst(heap)] <= sc[j]
  <2> HIDE DEF sc
  <2> QED
    BY <1>3, <1>5
<1> QED
  BY <1>1, <1>5, <1>6

\* No hit is twice in a sequence.
Distinct(s) == \A i, j \in DOMAIN s : s[i] = s[j] => i = j

\* The heap holds the best k of the hits seen.
Top(heap, seen, k) ==
  /\ Distinct(heap)
  /\ ToSet(heap) \subseteq seen
  /\ Len(heap) <= k
  /\ Len(heap) < k => ToSet(heap) = seen
  /\ \A m \in seen \ ToSet(heap) : \A h \in ToSet(heap) : h.score >= m.score

\* What is inserted keeps it so.
LEMMA InsertTop ==
  ASSUME NEW heap \in Seq(Hit), NEW seen \in SUBSET Hit, NEW k \in Nat \ {0},
         NEW hit \in Hit, hit \notin seen, Top(heap, seen, k)
  PROVE  Top(InsertTopK(heap, hit, k), seen \cup {hit}, k)
<1>1. Len(heap) \in Nat /\ DOMAIN heap = 1 .. Len(heap) /\ \A i \in DOMAIN heap : heap[i] \in Hit
  BY LenProperties, ElementOfSeq
<1>2. \A h \in Hit : h.score \in Int
  BY DEF Hit
<1>3. \A i \in DOMAIN heap : heap[i] \in seen /\ heap[i] # hit
  BY DEF Top, ToSet
<1>4. CASE Len(heap) < k
  <2> DEFINE new == Append(heap, hit)
  <2>1. InsertTopK(heap, hit, k) = new
    BY <1>4 DEF InsertTopK
  <2>2. /\ DOMAIN new = 1 .. Len(heap) + 1 /\ Len(new) = Len(heap) + 1
        /\ \A i \in DOMAIN heap : new[i] = heap[i]
        /\ new[Len(heap) + 1] = hit
    BY <1>1, AppendProperties
  <2> HIDE DEF new
  <2>3. ToSet(new) = ToSet(heap) \cup {hit}
    BY <1>1, <2>2 DEF ToSet
  <2>4. Distinct(new)
    BY <1>1, <1>3, <2>2 DEF Distinct, Top
  <2>5. ToSet(heap) = seen
    BY <1>4 DEF Top
  <2> QED
    BY <1>1, <1>4, <2>1, <2>2, <2>3, <2>4, <2>5 DEF Top
<1>5. CASE ~(Len(heap) < k)
  <2> DEFINE w == Worst(heap)
  <2>1. Len(heap) = k
    <3>1. Len(heap) <= k
      BY Zenon DEF Top
    <3>2. \A x \in Nat : x <= k /\ ~(x < k) => x = k
      OBVIOUS
    <3> QED
      BY <1>1, <1>5, <3>1, <3>2, Zenon
  <2>2. heap # <<>>
    <3>1. Len(<<>>) = 0 /\ k # 0
      OBVIOUS
    <3> QED
      BY <2>1, <3>1, Zenon
  <2>3. w \in DOMAIN heap /\ \A j \in DOMAIN heap : heap[w].score <= heap[j].score
    BY <2>2, WorstHit
  <2> HIDE DEF w
  <2>4. CASE hit.score > heap[w].score
    <3> DEFINE new == [heap EXCEPT ![w] = hit]
    <3>1. InsertTopK(heap, hit, k) = new
      BY <1>5, <2>4 DEF InsertTopK, w
    <3>2. /\ DOMAIN new = DOMAIN heap /\ Len(new) = Len(heap)
          /\ new[w] = hit /\ \A i \in DOMAIN heap : i # w => new[i] = heap[i]
      BY <1>1, <2>3
    <3> HIDE DEF new
    <3>3. Distinct(new)
      BY <1>3, <2>3, <3>2 DEF Distinct, Top
    <3>4. ToSet(new) = {hit} \cup (ToSet(heap) \ {heap[w]})
      <4>1. \A i \in DOMAIN heap : i # w => heap[i] # heap[w]
        BY <2>3 DEF Top, Distinct
      <4> QED
        BY <2>3, <3>2, <4>1 DEF ToSet
    <3>5. ASSUME NEW m \in (seen \cup {hit}) \ ToSet(new), NEW h \in ToSet(new)
          PROVE  h.score >= m.score
      <4>1. m \in seen /\ m \in Hit
        BY <3>4
      <4>2. heap[w] \in Hit /\ heap[w] \in ToSet(heap)
        BY <1>1, <2>3 DEF ToSet
      <4>3. h \in Hit /\ h.score >= heap[w].score
        <5>1. CASE h = hit
          BY <1>2, <4>2, <5>1, <2>4
        <5>2. CASE h # hit
          <6>1. PICK i \in DOMAIN heap : h = heap[i]
            BY <3>4, <5>2 DEF ToSet
          <6> QED
            BY <1>1, <1>2, <2>3, <6>1, <4>2
        <5> QED
          BY <5>1, <5>2
      <4>4. heap[w].score >= m.score
        <5>1. CASE m = heap[w]
          BY <1>2, <4>2, <5>1
        <5>2. CASE m # heap[w]
          <6>1. m \in seen \ ToSet(heap)
            BY <4>1, <3>4, <5>2
          <6> QED
            BY <6>1, <4>2 DEF Top
        <5> QED
          BY <5>1, <5>2
      <4> QED
        BY <1>2, <4>1, <4>2, <4>3, <4>4
    <3>6. ToSet(new) \subseteq seen \cup {hit}
      BY <3>4 DEF Top
    <3> QED
      BY <2>1, <3>1, <3>2, <3>3, <3>5, <3>6 DEF Top
  <2>5. CASE ~(hit.score > heap[w].score)
    <3>1. InsertTopK(heap, hit, k) = heap
      BY <1>5, <2>5 DEF InsertTopK, w
    <3>2. ASSUME NEW h \in ToSet(heap) PROVE h.score >= hit.score
      <4>1. PICK i \in DOMAIN heap : h = heap[i]
        BY DEF ToSet
      <4>2. heap[w].score \in Int /\ hit.score \in Int /\ h.score \in Int
        BY <1>1, <1>2, <2>3, <4>1
      <4> QED
        BY <2>3, <2>5, <4>1, <4>2
    <3>3. \A m \in (seen \cup {hit}) \ ToSet(heap) : \A h \in ToSet(heap) : h.score >= m.score
      BY <3>2 DEF Top
    <3> QED
      BY <2>1, <3>1, <3>3 DEF Top
  <2> QED
    BY <2>4, <2>5
<1> QED
  BY <1>4, <1>5

\* The scan ends with the best k of the rows' hits.
LEMMA ScanTop ==
  ASSUME NEW order \in Seq(KnownRows), NEW q \in [Ids -> Int], NEW k \in Nat \ {0},
         \A i, j \in DOMAIN order : order[i].id = order[j].id => i = j
  PROVE  \E heap \in Seq(Hit) :
           /\ SearchKn(order, q, k) = Ranked(heap)
           /\ Top(heap, {HitOf(order[i], q) : i \in DOMAIN order}, k)
<1> DEFINE n == Len(order)
           Seen(m) == {HitOf(order[i], q) : i \in 1 .. m}
<1>0. n \in Nat /\ DOMAIN order = 1 .. n /\ \A i \in 1 .. n : order[i] \in KnownRows
  BY LenProperties, ElementOfSeq
<1>1. PICK f \in [0 .. n -> Seq(Hit)] : HeapRun(f, order, q, k)
  BY HeapSteps
<1>2. /\ f[0] = <<>>
      /\ \A i \in 1 .. n : f[i] = InsertTopK(f[i - 1], HitOf(order[i], q), k)
      /\ SearchKn(order, q, k) = Ranked(f[n])
  BY <1>1 DEF HeapRun
<1>3. \A i \in 1 .. n : HitOf(order[i], q) \in Hit
  BY <1>0, HitType
<1>4. \A i, j \in 1 .. n : HitOf(order[i], q) = HitOf(order[j], q) => i = j
  BY <1>0 DEF HitOf
<1> DEFINE Bad == {m \in 0 .. n : ~Top(f[m], Seen(m), k)}
<1>5. Bad = {}
  <2>1. SUFFICES ASSUME Bad # {} PROVE FALSE
    OBVIOUS
  <2>2. Bad \in SUBSET Nat
    BY <1>0
  <2>3. PICK m \in Bad : \A x \in Bad : m <= x
    BY <2>1, <2>2, NatMin
  <2>4. m \in 0 .. n /\ ~Top(f[m], Seen(m), k)
    OBVIOUS
  <2>5. CASE m = 0
    <3>1. Seen(0) = {}
      <4>1. 1 .. 0 = {}
        OBVIOUS
      <4> QED
        BY <4>1
    <3>2. Top(<<>>, {}, k)
      BY DEF Top, Distinct, ToSet
    <3> HIDE DEF Seen
    <3> QED
      BY <1>2, <2>4, <2>5, <3>1, <3>2
  <2>6. CASE m # 0
    <3>1. m \in 1 .. n /\ m - 1 \in 0 .. n /\ ~(m <= m - 1)
      BY <1>0, <2>4, <2>6
    <3>2. Top(f[m - 1], Seen(m - 1), k)
      <4>1. m - 1 \notin Bad
        <5> HIDE DEF Bad
        <5> QED
          BY <2>3, <3>1
      <4> QED
        BY <4>1, <3>1
    <3>3. 1 .. m = (1 .. (m - 1)) \cup {m} /\ m \notin 1 .. (m - 1) /\ 1 .. (m - 1) \subseteq 1 .. n
      BY <1>0, <3>1
    <3>4. Seen(m) = Seen(m - 1) \cup {HitOf(order[m], q)}
      BY <3>3, Zenon
    <3>5. HitOf(order[m], q) \notin Seen(m - 1)
      <4>1. \A i \in 1 .. (m - 1) : i \in 1 .. n /\ i # m
        BY <3>3, Zenon
      <4>2. \A i \in 1 .. (m - 1) : HitOf(order[m], q) # HitOf(order[i], q)
        BY <4>1, <3>1, <1>4, Zenon
      <4> QED
        BY <4>2, Zenon
    <3>6. Seen(m - 1) \in SUBSET Hit /\ HitOf(order[m], q) \in Hit
      BY <3>1, <3>3, <1>3, Zenon
    <3>7. f[m - 1] \in Seq(Hit) /\ f[m] = InsertTopK(f[m - 1], HitOf(order[m], q), k)
      BY <1>2, <3>1
    <3> HIDE DEF Seen
    <3> QED
      BY <2>4, <3>2, <3>4, <3>5, <3>6, <3>7, InsertTop
  <2> QED
    BY <2>5, <2>6
<1>6. n \in 0 .. n
  BY <1>0
<1> QED
  BY <1>0, <1>2, <1>5, <1>6

\* The hits ranked before the one at position j.
Above(heap, j) ==
  {k \in DOMAIN heap : \/ heap[k].score > heap[j].score
                       \/ heap[k].score = heap[j].score /\ k < j}

\* Every position has a rank of its own, and a better hit a better one.
LEMMA Ranks ==
  ASSUME NEW heap \in Seq(Hit)
  PROVE  \E rank \in Bijection(DOMAIN heap, DOMAIN heap) :
           /\ \A j \in DOMAIN heap : rank[j] = 1 + Cardinality(Above(heap, j))
           /\ \A i, j \in DOMAIN heap : rank[i] < rank[j] => heap[i].score >= heap[j].score
<1> DEFINE n == Len(heap)
           D == 1 .. n
           sc == [i \in D |-> heap[i].score]
           A(j) == {k \in D : sc[k] > sc[j] \/ (sc[k] = sc[j] /\ k < j)}
           rank == [j \in D |-> 1 + Cardinality(A(j))]
<1>1. n \in Nat /\ DOMAIN heap = D /\ IsFiniteSet(D) /\ Cardinality(D) = n
  <2>1. n \in Nat /\ DOMAIN heap = D
    BY LenProperties
  <2>2. IsFiniteSet(1 .. n) /\ Cardinality(1 .. n) = IF 1 > n THEN 0 ELSE n - 1 + 1
    <3> HIDE DEF n
    <3> QED
      BY <2>1, FS_Interval
  <2>3. (IF 1 > n THEN 0 ELSE n - 1 + 1) = n
    BY <2>1
  <2> HIDE DEF n
  <2> QED
    BY <2>1, <2>2, <2>3
<1>2. sc \in [D -> Int]
  <2>1. \A i \in D : heap[i] \in Hit
    BY <1>1, ElementOfSeq
  <2> QED
    BY <2>1 DEF Hit
<1>3. \A j \in D : A(j) = Above(heap, j)
  BY <1>1 DEF Above
<1> HIDE DEF sc
<1>4. \A j \in D : A(j) \in SUBSET (D \ {j})
  BY <1>1, <1>2
<1>5. ASSUME NEW i \in D, NEW j \in D
      PROVE  i = j \/ i \in A(j) \/ j \in A(i)
  <2>1. sc[i] \in Int /\ sc[j] \in Int /\ i \in Int /\ j \in Int
    BY <1>1, <1>2
  <2> QED
    BY <2>1
<1>6. ASSUME NEW i \in D, NEW j \in D, i \in A(j) PROVE A(i) \in SUBSET (A(j) \ {i})
  <2>1. ASSUME NEW x \in A(i) PROVE x \in A(j) /\ x # i
    <3>1. /\ sc[i] \in Int /\ sc[j] \in Int /\ sc[x] \in Int
          /\ i \in Int /\ j \in Int /\ x \in Int /\ x \in D
      BY <1>1, <1>2
    <3>2. sc[x] > sc[i] \/ (sc[x] = sc[i] /\ x < i)
      BY <2>1
    <3>3. sc[i] > sc[j] \/ (sc[i] = sc[j] /\ i < j)
      BY <1>6
    <3> QED
      BY <3>1, <3>2, <3>3
  <2> QED
    BY <2>1
<1> HIDE DEF A, D
<1>7. \A j \in D : /\ IsFiniteSet(A(j)) /\ Cardinality(A(j)) \in Nat
                   /\ Cardinality(A(j)) <= n - 1
  <2> TAKE j \in D
  <2>1. IsFiniteSet(D \ {j}) /\ Cardinality(D \ {j}) = n - 1
    BY <1>1, FS_RemoveElement
  <2>2. IsFiniteSet(A(j)) /\ Cardinality(A(j)) <= Cardinality(D \ {j})
    BY <2>1, <1>4, FS_Subset
  <2>3. Cardinality(A(j)) \in Nat
    BY <2>2, FS_CardinalityType
  <2> QED
    BY <2>1, <2>2, <2>3
<1>8. ASSUME NEW i \in D, NEW j \in D, i \in A(j)
      PROVE  Cardinality(A(i)) < Cardinality(A(j))
  <2>1. IsFiniteSet(A(j) \ {i}) /\ Cardinality(A(j) \ {i}) = Cardinality(A(j)) - 1
    BY <1>7, <1>8, FS_RemoveElement
  <2>2. Cardinality(A(i)) <= Cardinality(A(j) \ {i})
    BY <2>1, <1>6, <1>8, FS_Subset
  <2> QED
    BY <1>7, <2>1, <2>2
<1>9. rank \in [D -> D]
  <2>1. \A j \in D : 1 + Cardinality(A(j)) \in D
    BY <1>1, <1>7 DEF D
  <2> QED
    BY <2>1
<1>10. \A i, j \in D : i \in A(j) => rank[i] < rank[j]
  BY <1>7, <1>8
<1>11. \A j \in D : rank[j] \in Int
  BY <1>7
<1>12. ASSUME NEW i \in D, NEW j \in D, rank[i] = rank[j] PROVE i = j
  <2> HIDE DEF rank
  <2> QED
    BY <1>5, <1>10, <1>11, <1>12
<1>13. rank \in Injection(D, D)
  BY <1>9, <1>12 DEF Injection, IsInjective
<1>14. rank \in Bijection(D, D)
  <2> HIDE DEF rank
  <2> QED
    BY <1>1, <1>13, FS_Injection DEF Bijection
<1>15. \A j \in D : rank[j] = 1 + Cardinality(Above(heap, j))
  BY <1>3
<1>16. ASSUME NEW i \in D, NEW j \in D, rank[i] < rank[j]
       PROVE  heap[i].score >= heap[j].score
  <2>1. i \in A(j)
    <3> HIDE DEF rank
    <3> QED
      BY <1>5, <1>10, <1>11, <1>16
  <2>2. sc[i] >= sc[j]
    BY <2>1, <1>2 DEF A
  <2>3. sc[i] = heap[i].score /\ sc[j] = heap[j].score
    BY DEF sc
  <2> QED
    BY <2>2, <2>3
<1> HIDE DEF rank
<1> QED
  BY <1>1, <1>14, <1>15, <1>16

\* The ranked hits are the heap's, from the best to the worst.
LEMMA RankedHits ==
  ASSUME NEW heap \in Seq(Hit), Distinct(heap)
  PROVE  LET s == Ranked(heap)
         IN  /\ s \in Seq(Hit)
             /\ Len(s) = Len(heap)
             /\ Distinct(s)
             /\ ToSet(s) = ToSet(heap)
             /\ \A i, j \in DOMAIN s : i < j => s[i].score >= s[j].score
<1> DEFINE D == DOMAIN heap
           s == Ranked(heap)
           at(i) == CHOOSE j \in D : i = 1 + Cardinality(Above(heap, j))
<1>1. Len(heap) \in Nat /\ D = 1 .. Len(heap) /\ \A i \in D : heap[i] \in Hit
  BY LenProperties, ElementOfSeq
<1>2. PICK rank \in Bijection(D, D) :
        /\ \A j \in D : rank[j] = 1 + Cardinality(Above(heap, j))
        /\ \A i, j \in D : rank[i] < rank[j] => heap[i].score >= heap[j].score
  BY Ranks
<1>3. /\ rank \in [D -> D]
      /\ \A i, j \in D : rank[i] = rank[j] => i = j
      /\ \A i \in D : \E j \in D : rank[j] = i
  BY <1>2 DEF Bijection, Injection, Surjection, IsInjective
<1>4. s = [i \in D |-> heap[at(i)]]
  BY DEF Ranked, Above
<1>5. ASSUME NEW i \in D PROVE at(i) \in D /\ rank[at(i)] = i
  <2>1. \E j \in D : i = 1 + Cardinality(Above(heap, j))
    BY <1>2, <1>3
  <2>2. at(i) \in D /\ i = 1 + Cardinality(Above(heap, at(i)))
    BY <2>1
  <2> HIDE DEF at
  <2> QED
    BY <2>2, <1>2
<1> HIDE DEF at, D
<1>6. ASSUME NEW j \in D PROVE rank[j] \in D /\ at(rank[j]) = j
  BY <1>3, <1>5
<1> HIDE DEF s
<1>7. DOMAIN s = D /\ \A i \in D : s[i] = heap[at(i)] /\ s[i] \in Hit
  BY <1>1, <1>4, <1>5
<1>8. s \in Seq(Hit) /\ Len(s) = Len(heap)
  <2>1. s \in [1 .. Len(heap) -> Hit]
    BY <1>1, <1>4, <1>7
  <2> QED
    BY <1>1, <2>1
<1>9. Distinct(s)
  <2>1. ASSUME NEW i \in D, NEW j \in D, s[i] = s[j] PROVE i = j
    <3>1. at(i) = at(j)
      BY <1>5, <1>7, <2>1 DEF Distinct, D
    <3> QED
      BY <1>5, <3>1
  <2> QED
    BY <1>7, <2>1 DEF Distinct
<1>10. ToSet(s) = ToSet(heap)
  <2>1. ASSUME NEW i \in D PROVE s[i] \in ToSet(heap)
    BY <1>5, <1>7 DEF ToSet, D
  <2>2. ASSUME NEW j \in D PROVE heap[j] \in ToSet(s)
    <3>1. rank[j] \in D /\ s[rank[j]] = heap[j]
      BY <1>6, <1>7
    <3> QED
      BY <1>7, <3>1 DEF ToSet
  <2> QED
    BY <1>7, <2>1, <2>2 DEF ToSet, D
<1>11. ASSUME NEW i \in D, NEW j \in D, i < j PROVE s[i].score >= s[j].score
  BY <1>2, <1>5, <1>7, <1>11
<1> QED
  BY <1>7, <1>8, <1>9, <1>10, <1>11 DEF s

\* A set has as many elements as a sequence of them without repetitions.
LEMMA CountDistinct ==
  ASSUME NEW S, NEW s \in Seq(S), Distinct(s)
  PROVE  Cardinality(ToSet(s)) = Len(s) /\ IsFiniteSet(ToSet(s))
<1>1. Len(s) \in Nat /\ DOMAIN s = 1 .. Len(s)
  BY LenProperties
<1>2. s \in Bijection(1 .. Len(s), ToSet(s))
  <2>1. s \in [1 .. Len(s) -> ToSet(s)]
    BY <1>1 DEF ToSet
  <2>2. \A x \in ToSet(s) : \E i \in 1 .. Len(s) : s[i] = x
    BY <1>1 DEF ToSet
  <2> QED
    BY <1>1, <2>1, <2>2 DEF Bijection, Injection, Surjection, IsInjective, Distinct
<1>3. ExistsBijection(1 .. Len(s), ToSet(s))
  BY <1>2 DEF ExistsBijection
<1> QED
  BY <1>1, <1>3, FS_CountingElements, FS_Interval, FS_Bijection

\* The hits of a scan of distinct rows.
Scanned(order, q) == {HitOf(order[i], q) : i \in DOMAIN order}

\* ... of which a search keeps the best.
LEMMA BestOf ==
  ASSUME NEW order \in Seq(KnownRows), NEW q \in [Ids -> Int], NEW k \in Nat \ {0},
         \A i, j \in DOMAIN order : order[i].id = order[j].id => i = j
  PROVE  LET hits == SearchKn(order, q, k)
             n == Cardinality(Scanned(order, q))
         IN  /\ hits \in Seq(Hit)
             /\ Distinct(hits)
             /\ ToSet(hits) \subseteq Scanned(order, q)
             /\ Cardinality(ToSet(hits)) = Len(hits)
             /\ Len(hits) = IF n < k THEN n ELSE k
             /\ \A i, j \in DOMAIN hits : i < j => hits[i].score >= hits[j].score
             /\ \A m \in Scanned(order, q) \ ToSet(hits) : \A h \in ToSet(hits) : h.score >= m.score
<1> DEFINE hits == SearchKn(order, q, k)
           seen == Scanned(order, q)
           all == [i \in DOMAIN order |-> HitOf(order[i], q)]
<1>1. PICK heap \in Seq(Hit) : hits = Ranked(heap) /\ Top(heap, seen, k)
  BY ScanTop DEF Scanned
<1>2. Distinct(heap)
  BY <1>1 DEF Top
<1>3. /\ hits \in Seq(Hit) /\ Len(hits) = Len(heap) /\ Distinct(hits)
      /\ ToSet(hits) = ToSet(heap)
      /\ \A i, j \in DOMAIN hits : i < j => hits[i].score >= hits[j].score
  BY <1>1, <1>2, RankedHits
<1>4. Cardinality(ToSet(hits)) = Len(hits) /\ Len(hits) \in Nat
  <2> HIDE DEF hits
  <2> QED
    BY <1>3, CountDistinct, LenProperties
<1>5. all \in Seq(Hit) /\ ToSet(all) = seen /\ Distinct(all)
  <2>1. Len(order) \in Nat /\ DOMAIN order = 1 .. Len(order)
        /\ \A i \in DOMAIN order : order[i] \in KnownRows
    BY LenProperties, ElementOfSeq
  <2>2. \A i \in DOMAIN order : HitOf(order[i], q) \in Hit
    BY <2>1, HitType
  <2>3. all \in [1 .. Len(order) -> Hit]
    BY <2>1, <2>2
  <2>4. all \in Seq(Hit)
    <3>1. ASSUME NEW m \in Nat PROVE [1 .. m -> Hit] \subseteq Seq(Hit)
      OBVIOUS
    <3> HIDE DEF all
    <3> QED
      BY <2>1, <2>3, <3>1, Zenon
  <2>5. Distinct(all)
    BY DEF Distinct, HitOf
  <2> QED
    BY <2>4, <2>5 DEF ToSet, Scanned
<1>6. IsFiniteSet(seen) /\ Cardinality(seen) \in Nat
  <2> HIDE DEF all, seen
  <2> QED
    BY <1>5, CountDistinct, FS_CardinalityType
<1>7. Cardinality(ToSet(hits)) <= Cardinality(seen)
  BY <1>1, <1>3, <1>6, FS_Subset DEF Top
<1> HIDE DEF hits, seen
<1>8. Len(hits) = IF Cardinality(seen) < k THEN Cardinality(seen) ELSE k
  <2>1. Len(hits) <= k /\ (Len(hits) < k => ToSet(hits) = seen)
    BY <1>1, <1>3 DEF Top
  <2> QED
    BY <2>1, <1>4, <1>6, <1>7
<1> QED
  BY <1>1, <1>3, <1>4, <1>8 DEF Top, hits, seen

-----------------------------------------------------------------------------
(* A search                                                                *)

\* The index is finite and knows every event_id it has.
RowsInv ==
  /\ IsFiniteSet(disk) /\ IsFiniteSet(mirror)
  /\ \A r \in disk \cup mirror : r.id \in Ids
  /\ \A i \in DOMAIN pending : pending[i].id \in Ids

SearchTypeOK ==
  search \in [st : {"idle", "refused", "hydrate"}, hits : Seq(Hit), out : Seq(Hit)]

\* The hits that have been looked up.
Done == 1 .. (Len(found.hits) - Len(search.hits))

\* The hits still to look up are the last ones found; of the others those
\* answered are in their order and the rest were absent; and what is missing
\* now is known to be.
HydrationInv ==
  /\ Len(search.hits) <= Len(found.hits)
  /\ \A i \in DOMAIN search.hits :
       search.hits[i] = found.hits[Len(found.hits) - Len(search.hits) + i]
  /\ \E pos \in [DOMAIN search.out -> Done] :
       /\ \A i \in DOMAIN search.out : search.out[i] = found.hits[pos[i]]
       /\ \A i, j \in DOMAIN search.out : i < j => pos[i] < pos[j]
  /\ \A i \in Done : found.hits[i] \in ToSet(search.out) \/ found.hits[i].id \in absent
  /\ \A h \in ToSet(found.hits) : h.id \in cold \cup absent

SearchInv ==
  /\ SearchTypeOK
  /\ search.st = "hydrate" => found.hits \in Seq(Hit) /\ BestHits /\ HydrationInv


\* A sequence has finitely many elements.
LEMMA ElementsFinite ==
  ASSUME NEW S, NEW s \in Seq(S)
  PROVE  IsFiniteSet(ToSet(s))
<1>1. Len(s) \in Nat /\ DOMAIN s = 1 .. Len(s)
  BY LenProperties
<1>2. s \in Surjection(1 .. Len(s), ToSet(s))
  <2>1. s \in [1 .. Len(s) -> ToSet(s)]
    BY <1>1 DEF ToSet
  <2>2. \A x \in ToSet(s) : \E i \in 1 .. Len(s) : s[i] = x
    BY <1>1 DEF ToSet
  <2> QED
    BY <2>1, <2>2 DEF Surjection
<1>3. IsFiniteSet(1 .. Len(s))
  BY <1>1, FS_Interval
<1> QED
  BY <1>2, <1>3, FS_Surjection

\* A batch leaves finitely many rows, with event_ids of its own.
LEMMA PutRows ==
  ASSUME NEW rows, IsFiniteSet(rows), NEW batch \in Seq(Row),
         \A r \in rows : r.id \in Ids, \A i \in DOMAIN batch : batch[i].id \in Ids
  PROVE  IsFiniteSet(Put(rows, batch)) /\ \A r \in Put(rows, batch) : r.id \in Ids
<1>1. LastOf(batch) \subseteq ToSet(batch) /\ \A r \in LastOf(batch) : r.id \in Ids
  BY DEF LastOf, ToSet
<1>2. IsFiniteSet(LastOf(batch))
  BY <1>1, ElementsFinite, FS_Subset
<1>3. IsFiniteSet(rows \cup LastOf(batch))
  BY <1>2, FS_Union
<1>4. Put(rows, batch) \in SUBSET (rows \cup LastOf(batch))
  BY DEF Put
<1> QED
  BY <1>1, <1>3, <1>4, FS_Subset

\* Every action keeps the index finite.
LEMMA RowsNext == TypeOK /\ RowsInv /\ [Next]_vars => RowsInv'
<1> SUFFICES ASSUME TypeOK, RowsInv, [Next]_vars PROVE RowsInv'
  OBVIOUS
<1>1. ASSUME NEW b \in Batches, AppendCommit(b) PROVE RowsInv'
  <2>1. Stamped(b) \in Seq(Row)
    BY StampedType
  <2>2. \A i \in DOMAIN Stamped(b) : Stamped(b)[i].id \in Ids
    BY SearchAssumption DEF Stamped
  <2>3. IsFiniteSet(Put(disk, Stamped(b))) /\ \A r \in Put(disk, Stamped(b)) : r.id \in Ids
    BY <2>1, <2>2, PutRows DEF RowsInv
  <2> QED
    BY <1>1, <2>2, <2>3 DEF AppendCommit, RowsInv
<1>2. CASE AppendMirror
  <2>1. IsFiniteSet(Put(mirror, pending)) /\ \A r \in Put(mirror, pending) : r.id \in Ids
    BY PutRows DEF RowsInv, TypeOK
  <2> QED
    BY <1>2, <2>1 DEF AppendMirror, RowsInv
<1>3. ASSUME NEW p \in Pairs, NEW c \in Cutoffs, SweepDelete(p, c) PROVE RowsInv'
  <2>1. disk' \in SUBSET disk
    BY <1>3 DEF SweepDelete
  <2>2. IsFiniteSet(disk')
    BY <2>1, FS_Subset DEF RowsInv
  <2> QED
    BY <1>3, <2>1, <2>2 DEF SweepDelete, RowsInv
<1>4. CASE SweepRetain
  <2>1. mirror' \in SUBSET mirror
    BY <1>4 DEF SweepRetain
  <2>2. IsFiniteSet(mirror')
    BY <2>1, FS_Subset DEF RowsInv
  <2> QED
    BY <1>4, <2>1, <2>2 DEF SweepRetain, RowsInv
<1>5. CASE Stop
  BY <1>5, FS_EmptySet DEF Stop, RowsInv
<1>6. ASSUME NEW m \in Models, Open(m) PROVE RowsInv'
  BY <1>6 DEF Open, RowsInv
<1>7. CASE UNCHANGED vars
  BY <1>7 DEF vars, RowsInv
<1> QED
  BY <1>1, <1>2, <1>3, <1>4, <1>5, <1>6, <1>7 DEF Next, Embedder, Sweeper, Process

\* search_kn, on a mirror with one row per event: the best of the rows that
\* match.
LEMMA SearchTopBest ==
  ASSUME TypeOK, KeyInv, RowsInv, NEW req \in Requests, NEW q \in Queries,
         SearchTop(req, q)
  PROVE  found'.hits \in Seq(Hit) /\ BestHits'
<1> DEFINE matching == {r \in mirror : Matches(r, req)}
           k == TopK(req)
<1>1. PICK order \in SetToSeqs(matching) :
        /\ search' = [st |-> "hydrate", hits |-> SearchKn(order, q, k), out |-> <<>>]
        /\ found' = [matching |-> {[id |-> r.id, score |-> q[r.id]] : r \in matching},
                     hits |-> search'.hits, limit |-> k]
  BY DEF SearchTop
<1>2. q \in [Ids -> Int]
  BY SearchAssumption
<1>3. k \in Nat \ {0}
  BY SearchAssumption DEF TopK
<1> HIDE DEF k
<1>4. matching \in SUBSET mirror /\ IsFiniteSet(matching)
  BY FS_Subset DEF RowsInv
<1>5. Cardinality(matching) \in Nat
  BY <1>4, FS_CardinalityType
<1>6. matching \subseteq KnownRows
  BY <1>4 DEF KnownRows, RowsInv, TypeOK
<1>7. \A r, s \in matching : r.id = s.id => r = s
  BY <1>4 DEF KeyInv, OneRowPerEvent
<1> HIDE DEF matching
<1>8. /\ order \in [1 .. Cardinality(matching) -> matching]
      /\ \A i, j \in 1 .. Cardinality(matching) : i # j => order[i] # order[j]
  BY DEF SetToSeqs
<1>9. order \in Seq(KnownRows) /\ Len(order) = Cardinality(matching)
      /\ DOMAIN order = 1 .. Cardinality(matching)
  <2>1. order \in [1 .. Cardinality(matching) -> KnownRows]
    BY <1>6, <1>8
  <2> QED
    BY <1>5, <2>1
<1>10. \A i, j \in DOMAIN order : order[i].id = order[j].id => i = j
  BY <1>7, <1>8, <1>9
<1>11. \A r \in matching : \E i \in DOMAIN order : order[i] = r
  <2>1. order \in Injection(1 .. Cardinality(matching), matching)
    BY <1>8 DEF Injection, IsInjective
  <2>2. IsFiniteSet(1 .. Cardinality(matching))
        /\ Cardinality(1 .. Cardinality(matching)) = Cardinality(matching)
    <3>1. /\ IsFiniteSet(1 .. Cardinality(matching))
          /\ Cardinality(1 .. Cardinality(matching)) =
               IF 1 > Cardinality(matching) THEN 0 ELSE Cardinality(matching) - 1 + 1
      BY <1>5, FS_Interval
    <3> QED
      BY <1>5, <3>1
  <2>3. order \in Surjection(1 .. Cardinality(matching), matching)
    BY <1>4, <2>1, <2>2, FS_Injection
  <2> QED
    BY <1>9, <2>3 DEF Surjection
<1>12. found'.matching = Scanned(order, q)
  <2>1. found'.matching = {HitOf(r, q) : r \in matching}
    BY <1>1 DEF HitOf
  <2>2. \A i \in DOMAIN order : order[i] \in matching
    BY <1>8, <1>9
  <2> QED
    BY <1>11, <2>1, <2>2 DEF Scanned
<1>13. found'.hits = SearchKn(order, q, k) /\ found'.limit = k
  BY <1>1
<1> HIDE DEF matching
<1> DEFINE hits == SearchKn(order, q, k)
           n == Cardinality(Scanned(order, q))
<1>14. /\ hits \in Seq(Hit)
       /\ ToSet(hits) \subseteq Scanned(order, q)
       /\ Cardinality(ToSet(hits)) = Len(hits)
       /\ Len(hits) = IF n < k THEN n ELSE k
       /\ \A i, j \in DOMAIN hits : i < j => hits[i].score >= hits[j].score
       /\ \A m \in Scanned(order, q) \ ToSet(hits) : \A h \in ToSet(hits) : h.score >= m.score
  BY <1>2, <1>3, <1>9, <1>10, BestOf
<1> HIDE DEF hits, n
<1> QED
  BY <1>12, <1>13, <1>14 DEF BestHits, hits, n

\* The call starts with nothing looked up.
LEMMA SearchTopInv ==
  ASSUME TypeOK, KeyInv, RowsInv, NEW req \in Requests, NEW q \in Queries,
         SearchTop(req, q)
  PROVE  SearchInv'
<1>1. found'.hits \in Seq(Hit) /\ BestHits'
  BY SearchTopBest
<1>2. /\ search'.hits = found'.hits /\ search'.out = <<>> /\ search'.st = "hydrate"
      /\ search' = [st |-> "hydrate", hits |-> found'.hits, out |-> <<>>]
      /\ absent' = {h.id : h \in ToSet(search'.hits)} \ cold /\ cold' = cold
  <2> DEFINE matching == {r \in mirror : Matches(r, req)}
  <2>1. PICK order \in SetToSeqs(matching) :
          /\ search' = [st |-> "hydrate", hits |-> SearchKn(order, q, TopK(req)), out |-> <<>>]
          /\ found' = [matching |-> {[id |-> r.id, score |-> q[r.id]] : r \in matching},
                       hits |-> search'.hits, limit |-> TopK(req)]
    BY DEF SearchTop
  <2>2. absent' = {h.id : h \in ToSet(search'.hits)} \ cold /\ cold' = cold
    BY Zenon DEF SearchTop
  <2> QED
    BY <2>1, <2>2
<1>3. Len(found'.hits) \in Nat
  BY <1>1, LenProperties
<1>4. SearchTypeOK'
  <2>1. <<>> \in Seq(Hit)
    OBVIOUS
  <2> QED
    BY <1>1, <1>2, <2>1 DEF SearchTypeOK
<1>5. Done' = {}
  BY <1>2, <1>3 DEF Done
<1>6. \E pos \in [DOMAIN search'.out -> Done'] :
        /\ \A i \in DOMAIN search'.out : search'.out[i] = found'.hits[pos[i]]
        /\ \A i, j \in DOMAIN search'.out : i < j => pos[i] < pos[j]
  <2>1. DOMAIN search'.out = {}
    BY <1>2
  <2>2. [i \in {} |-> 0] \in [{} -> Done']
    OBVIOUS
  <2> QED
    BY <2>1, <2>2
<1>7. \A i \in DOMAIN search'.hits :
        search'.hits[i] = found'.hits[Len(found'.hits) - Len(search'.hits) + i]
  <2>1. \A i \in DOMAIN found'.hits : i \in Int
    BY <1>1, LenProperties
  <2> QED
    BY <1>2, <1>3, <2>1
<1>8. \A h \in ToSet(found'.hits) : h.id \in cold' \cup absent'
  BY <1>2
<1>9. HydrationInv'
  <2>1. Len(search'.hits) <= Len(found'.hits)
    BY <1>2, <1>3
  <2>2. \A i \in Done' : found'.hits[i] \in ToSet(search'.out) \/ found'.hits[i].id \in absent'
    BY <1>5
  <2> QED
    BY <2>1, <2>2, <1>6, <1>7, <1>8, Zenon DEF HydrationInv
<1> QED
  BY <1>1, <1>4, <1>9 DEF SearchInv

\* Looking up the next hit.
LEMMA HydrateInv ==
  ASSUME SearchInv, Hydrate
  PROVE  SearchInv'
<1> DEFINE hits == search.hits
           out == search.out
           all == found.hits
           n == Len(all) - Len(hits)
           h == Head(hits)
<1>1. /\ search.st = "hydrate" /\ hits # <<>> /\ found' = found
      /\ cold' = cold /\ absent' = absent
      /\ hits \in Seq(Hit) /\ out \in Seq(Hit) /\ all \in Seq(Hit)
      /\ BestHits /\ HydrationInv
  BY DEF Hydrate, SearchInv, SearchTypeOK
<1>2. search' = [st |-> "hydrate", hits |-> Tail(hits),
                 out |-> IF h.id \in cold THEN Append(out, h) ELSE out]
  BY <1>1 DEF Hydrate, SearchInv, SearchTypeOK
<1> DEFINE new == IF h.id \in cold THEN Append(out, h) ELSE out
<1>3. /\ Len(hits) \in Nat /\ Len(hits) >= 1 /\ DOMAIN hits = 1 .. Len(hits)
      /\ h \in Hit /\ h = hits[1]
      /\ Tail(hits) \in Seq(Hit) /\ Len(Tail(hits)) = Len(hits) - 1
      /\ \A i \in 1 .. Len(hits) - 1 : Tail(hits)[i] = hits[i + 1]
      /\ DOMAIN Tail(hits) = 1 .. Len(hits) - 1
  BY <1>1, LenProperties, HeadTailProperties, EmptySeq
<1>4. /\ Len(out) \in Nat /\ DOMAIN out = 1 .. Len(out)
      /\ Append(out, h) \in Seq(Hit) /\ DOMAIN Append(out, h) = 1 .. Len(out) + 1
      /\ \A i \in 1 .. Len(out) : Append(out, h)[i] = out[i]
      /\ Append(out, h)[Len(out) + 1] = h
  BY <1>1, <1>3, LenProperties, AppendProperties
<1>5. Len(all) \in Nat /\ DOMAIN all = 1 .. Len(all)
  BY <1>1, LenProperties
<1>6. /\ Len(hits) <= Len(all)
      /\ \A i \in DOMAIN hits : hits[i] = all[n + i]
      /\ \E pos \in [DOMAIN out -> Done] :
           /\ \A i \in DOMAIN out : out[i] = all[pos[i]]
           /\ \A i, j \in DOMAIN out : i < j => pos[i] < pos[j]
      /\ \A i \in Done : all[i] \in ToSet(out) \/ all[i].id \in absent
      /\ \A x \in ToSet(all) : x.id \in cold \cup absent
  BY <1>1 DEF HydrationInv
<1>7. Done = 1 .. n /\ n \in Nat /\ n + 1 \in 1 .. Len(all)
      /\ Len(all) - (Len(hits) - 1) = n + 1 /\ Len(hits) - 1 <= Len(all)
  <2>1. Len(hits) \in Nat /\ Len(hits) >= 1 /\ Len(all) \in Nat /\ Len(hits) <= Len(all)
    BY <1>3, <1>5, <1>6
  <2>2. ASSUME NEW a \in Nat, NEW b \in Nat, b >= 1, b <= a
        PROVE  /\ a - b \in Nat /\ a - b + 1 \in 1 .. a
               /\ a - (b - 1) = a - b + 1 /\ b - 1 <= a
    BY <2>2
  <2>3. Done = 1 .. n
    BY DEF Done
  <2> QED
    BY <2>1, <2>2, <2>3, Zenon
<1>8. /\ search'.hits = Tail(hits) /\ search'.out = new /\ search'.st = "hydrate"
  BY <1>2
<1>9. SearchTypeOK'
  BY <1>1, <1>2, <1>3, <1>4 DEF SearchTypeOK
<1>10. BestHits'
  BY <1>1 DEF BestHits
<1>11. h = all[n + 1] /\ h \in ToSet(all)
  <2>1. 1 \in DOMAIN hits
    BY <1>3
  <2>2. n + 1 \in DOMAIN all
    BY <1>5, <1>7
  <2> HIDE DEF n
  <2> QED
    BY <1>3, <1>6, <2>1, <2>2 DEF ToSet
<1>12. Len(all) - Len(Tail(hits)) = n + 1 /\ Len(Tail(hits)) <= Len(all)
  BY <1>3, <1>7
<1>13. Done' = 1 .. n + 1
  BY <1>1, <1>8, <1>12 DEF Done
<1>14. \A i \in DOMAIN Tail(hits) : Tail(hits)[i] = all[n + 1 + i]
  <2> TAKE i \in DOMAIN Tail(hits)
  <2>0. i \in 1 .. Len(hits) - 1
    BY <1>3
  <2> HIDE DEF n, hits
  <2>1. i \in 1 .. Len(hits) - 1 /\ i + 1 \in DOMAIN hits /\ n + (i + 1) = n + 1 + i
    BY <2>0, <1>3, <1>7
  <2> QED
    BY <1>3, <1>6, <2>1
<1> HIDE DEF hits, out, all, n, h
<1>15. \E pos \in [DOMAIN new -> 1 .. n + 1] :
         /\ \A i \in DOMAIN new : new[i] = all[pos[i]]
         /\ \A i, j \in DOMAIN new : i < j => pos[i] < pos[j]
  <2>1. PICK pos \in [1 .. Len(out) -> 1 .. n] :
          /\ \A i \in 1 .. Len(out) : out[i] = all[pos[i]]
          /\ \A i, j \in 1 .. Len(out) : i < j => pos[i] < pos[j]
    BY <1>4, <1>6, <1>7
  <2>2. CASE h.id \in cold
    <3> DEFINE more == [i \in 1 .. Len(out) + 1 |-> IF i = Len(out) + 1 THEN n + 1 ELSE pos[i]]
    <3>1. DOMAIN new = 1 .. Len(out) + 1
      BY <1>4, <2>2
    <3>2. more \in [1 .. Len(out) + 1 -> 1 .. n + 1]
      BY <1>4, <1>7, <2>1
    <3>3. ASSUME NEW i \in 1 .. Len(out) + 1 PROVE new[i] = all[more[i]]
      <4>1. CASE i = Len(out) + 1
        BY <1>4, <1>11, <2>2, <4>1
      <4>2. CASE i # Len(out) + 1
        <5>1. i \in 1 .. Len(out)
          BY <1>4, <4>2
        <5> QED
          BY <1>4, <2>1, <2>2, <4>2, <5>1
      <4> QED
        BY <4>1, <4>2
    <3>4. ASSUME NEW i \in 1 .. Len(out) + 1, NEW j \in 1 .. Len(out) + 1, i < j
          PROVE  more[i] < more[j]
      <4>1. i \in 1 .. Len(out)
        BY <1>4, <3>4
      <4>2. more[i] = pos[i] /\ pos[i] \in 1 .. n
        BY <1>4, <2>1, <4>1
      <4>3. CASE j = Len(out) + 1
        BY <1>7, <4>2, <4>3
      <4>4. CASE j # Len(out) + 1
        <5>1. j \in 1 .. Len(out)
          BY <1>4, <4>4
        <5>2. more[j] = pos[j]
          BY <1>4, <4>4
        <5> QED
          BY <2>1, <3>4, <4>1, <4>2, <5>1, <5>2
      <4> QED
        BY <4>3, <4>4
    <3> HIDE DEF more, new
    <3> QED
      BY <3>1, <3>2, <3>3, <3>4
  <2>3. CASE h.id \notin cold
    <3>1. new = out
      BY <2>3
    <3>2. pos \in [1 .. Len(out) -> 1 .. n + 1]
      BY <1>4, <1>7, <2>1
    <3> HIDE DEF new
    <3> QED
      BY <1>4, <2>1, <3>1, <3>2
  <2> QED
    BY <2>2, <2>3
<1>16. ASSUME NEW i \in 1 .. n + 1
       PROVE  all[i] \in ToSet(new) \/ all[i].id \in absent
  <2>1. ToSet(out) \subseteq ToSet(new) /\ (h.id \in cold => h \in ToSet(new))
    BY <1>4 DEF ToSet
  <2>2. CASE i = n + 1
    BY <1>6, <1>11, <2>1, <2>2
  <2>3. CASE i # n + 1
    <3>1. i \in Done
      BY <1>7, <2>3
    <3> HIDE DEF new
    <3> QED
      BY <1>6, <2>1, <3>1
  <2> QED
    BY <2>2, <2>3
<1> HIDE DEF new
<1>17. found'.hits = all
  BY <1>1 DEF all
<1>18. HydrationInv'
  <2>1. /\ Len(search'.hits) <= Len(found'.hits)
        /\ Len(found'.hits) - Len(search'.hits) = n + 1
    BY <1>8, <1>12, <1>17
  <2>2. \A i \in DOMAIN search'.hits :
          search'.hits[i] = found'.hits[Len(found'.hits) - Len(search'.hits) + i]
    BY <1>8, <1>14, <1>17, <2>1
  <2>3. \E pos \in [DOMAIN search'.out -> Done'] :
          /\ \A i \in DOMAIN search'.out : search'.out[i] = found'.hits[pos[i]]
          /\ \A i, j \in DOMAIN search'.out : i < j => pos[i] < pos[j]
    BY <1>8, <1>13, <1>15, <1>17
  <2>4. \A i \in Done' : found'.hits[i] \in ToSet(search'.out) \/ found'.hits[i].id \in absent'
    BY <1>1, <1>8, <1>13, <1>16, <1>17
  <2>5. \A x \in ToSet(found'.hits) : x.id \in cold' \cup absent'
    BY <1>1, <1>6, <1>17
  <2> QED
    BY <2>1, <2>2, <2>3, <2>4, <2>5, Zenon DEF HydrationInv
<1> QED
  BY <1>1, <1>9, <1>10, <1>17, <1>18 DEF SearchInv

\* An invariant of a search depends on nothing else.
LEMMA SearchSame ==
  ASSUME SearchInv, search' = search, found' = found,
         \A h \in ToSet(found.hits) : h.id \in absent => h.id \in absent',
         \A h \in ToSet(found.hits) : h.id \in cold \cup absent => h.id \in cold' \cup absent'
  PROVE  SearchInv'
<1>1. SearchTypeOK'
  BY DEF SearchInv, SearchTypeOK
<1> SUFFICES ASSUME search.st = "hydrate"
             PROVE  found'.hits \in Seq(Hit) /\ BestHits' /\ HydrationInv'
  BY <1>1 DEF SearchInv
<1>2. found.hits \in Seq(Hit) /\ BestHits /\ HydrationInv /\ search.hits \in Seq(Hit)
  BY DEF SearchInv, SearchTypeOK
<1>3. BestHits'
  BY <1>2 DEF BestHits
<1>4. Done' = Done
  BY DEF Done
<1>5. Done \subseteq DOMAIN found.hits
  <2>1. Len(found.hits) \in Nat /\ Len(search.hits) \in Nat
        /\ DOMAIN found.hits = 1 .. Len(found.hits)
    BY <1>2, LenProperties
  <2>2. ASSUME NEW m \in Nat, NEW n \in Nat PROVE 1 .. m - n \subseteq 1 .. m
    OBVIOUS
  <2> QED
    BY <2>1, <2>2, Zenon DEF Done
<1>6. \A i \in Done : found'.hits[i] \in ToSet(search'.out) \/ found'.hits[i].id \in absent'
  <2> TAKE i \in Done
  <2>1. found.hits[i] \in ToSet(found.hits)
    BY <1>5 DEF ToSet
  <2>2. found.hits[i] \in ToSet(search.out) \/ found.hits[i].id \in absent
    BY <1>2 DEF HydrationInv
  <2> QED
    BY <2>1, <2>2
<1>7. \A h \in ToSet(found'.hits) : h.id \in cold' \cup absent'
  BY <1>2 DEF HydrationInv
<1>8. /\ Len(search.hits) <= Len(found.hits)
      /\ \A i \in DOMAIN search.hits :
           search.hits[i] = found.hits[Len(found.hits) - Len(search.hits) + i]
      /\ \E pos \in [DOMAIN search.out -> Done] :
           /\ \A i \in DOMAIN search.out : search.out[i] = found.hits[pos[i]]
           /\ \A i, j \in DOMAIN search.out : i < j => pos[i] < pos[j]
  BY <1>2 DEF HydrationInv
<1>9. HydrationInv'
  <2>1. /\ Len(search'.hits) <= Len(found'.hits)
        /\ \A i \in DOMAIN search'.hits :
             search'.hits[i] = found'.hits[Len(found'.hits) - Len(search'.hits) + i]
        /\ \E pos \in [DOMAIN search'.out -> Done'] :
             /\ \A i \in DOMAIN search'.out : search'.out[i] = found'.hits[pos[i]]
             /\ \A i, j \in DOMAIN search'.out : i < j => pos[i] < pos[j]
    BY <1>4, <1>8
  <2>2. \A i \in Done' : found'.hits[i] \in ToSet(search'.out) \/ found'.hits[i].id \in absent'
    BY <1>4, <1>6
  <2> QED
    BY <2>1, <2>2, <1>7, Zenon DEF HydrationInv
<1> QED
  BY <1>2, <1>3, <1>9

\* No call is under way.
LEMMA SearchNone ==
  ASSUME search' = NoSearch
  PROVE  SearchInv'
<1>1. <<>> \in Seq(Hit)
  OBVIOUS
<1>2. SearchTypeOK' /\ search'.st # "hydrate"
  BY <1>1 DEF NoSearch, SearchTypeOK
<1> QED
  BY <1>2 DEF SearchInv

\* Every step of the tool, of the cold store and of the index keeps a search
\* right.
LEMMA SearchStep ==
  TypeOK /\ KeyInv /\ RowsInv /\ SearchInv /\ [SearchNext]_allVars => SearchInv'
<1> SUFFICES ASSUME TypeOK, KeyInv, RowsInv, SearchInv, [SearchNext]_allVars
             PROVE  SearchInv'
  OBVIOUS
<1>1. CASE Index
  <2>1. CASE up'
    <3>1. search' = search /\ found' = found /\ absent' = absent /\ cold' = cold
      BY <1>1, <2>1 DEF Index
    <3> QED
      BY <3>1, SearchSame
  <2>2. CASE ~up'
    <3>1. search' = NoSearch
      BY <1>1, <2>2 DEF Index
    <3> QED
      BY <3>1, SearchNone
  <2> QED
    BY <2>1, <2>2
<1>2. ASSUME NEW req \in Requests, SearchRefuse(req) PROVE SearchInv'
  <2>1. search' = [search EXCEPT !.st = "refused"]
    BY <1>2 DEF SearchRefuse
  <2>2. SearchTypeOK' /\ search'.st # "hydrate"
    BY <2>1 DEF SearchInv, SearchTypeOK
  <2> QED
    BY <2>2 DEF SearchInv
<1>3. ASSUME NEW req \in Requests, NEW q \in Queries, SearchTop(req, q) PROVE SearchInv'
  BY <1>3, SearchTopInv
<1>4. CASE Hydrate
  BY <1>4, HydrateInv
<1>5. CASE SearchReturn
  BY <1>5, SearchNone DEF SearchReturn
<1>6. ASSUME NEW i \in Ids, ColdAppend(i) PROVE SearchInv'
  <2>1. search' = search /\ found' = found /\ absent' = absent /\ cold' = cold \cup {i}
    BY <1>6 DEF ColdAppend
  <2> QED
    BY <2>1, SearchSame
<1>7. ASSUME NEW i \in Ids, ColdSweep(i) PROVE SearchInv'
  <2>1. /\ search' = search /\ found' = found /\ cold' = cold \ {i}
        /\ absent' = IF \E h \in ToSet(found.hits) : h.id = i THEN absent \cup {i} ELSE absent
    BY <1>7 DEF ColdSweep
  <2>2. \A h \in ToSet(found.hits) : h.id \in absent => h.id \in absent'
    BY <2>1
  <2>3. \A h \in ToSet(found.hits) : h.id \in cold \cup absent => h.id \in cold' \cup absent'
    BY <2>1
  <2> QED
    BY <2>1, <2>2, <2>3, SearchSame
<1>8. CASE UNCHANGED allVars
  <2>1. search' = search /\ found' = found /\ absent' = absent /\ cold' = cold
    BY <1>8 DEF allVars, searchVars
  <2> QED
    BY <2>1, SearchSame
<1> QED
  BY <1>1, <1>2, <1>3, <1>4, <1>5, <1>6, <1>7, <1>8 DEF SearchNext, Tool, Cold

\* When the last hit is looked up, the answer is what it should be.
LEMMA SearchRight == SearchInv => SearchFaithful
<1> SUFFICES ASSUME SearchInv, search.st = "hydrate", search.hits = <<>>
             PROVE  /\ BestHits
                    /\ Subsequence(search.out, found.hits)
                    /\ \A h \in ToSet(found.hits) \ ToSet(search.out) : h.id \in absent
  BY DEF SearchFaithful
<1>1. found.hits \in Seq(Hit) /\ BestHits /\ HydrationInv
  BY DEF SearchInv
<1>2. Done = DOMAIN found.hits
  <2>1. Len(found.hits) \in Nat /\ DOMAIN found.hits = 1 .. Len(found.hits)
    BY <1>1, LenProperties
  <2>2. Len(search.hits) = 0
    OBVIOUS
  <2> QED
    BY <2>1, <2>2 DEF Done
<1>3. Subsequence(search.out, found.hits)
  BY <1>1, <1>2 DEF HydrationInv, Subsequence
<1>4. \A h \in ToSet(found.hits) \ ToSet(search.out) : h.id \in absent
  BY <1>1, <1>2 DEF HydrationInv, ToSet
<1> QED
  BY <1>1, <1>3, <1>4

\* search_events answers with the best matches in order of similarity, and
\* leaves out only those whose events the cold store lacked meanwhile, whatever
\* the limit and however appends and sweeps interleave with the call.
THEOREM SearchesAreFaithful == SearchSpec => []SearchFaithful
<1>1. SearchInit => TypeOK /\ KeyInv
  BY TypeInit, KeyInit DEF SearchInit
<1>2. SearchInit => RowsInv
  BY FS_EmptySet DEF SearchInit, Init, RowsInv
<1>3. SearchInit => SearchInv
  <2>1. <<>> \in Seq(Hit)
    OBVIOUS
  <2>2. SearchInit => SearchTypeOK /\ search.st # "hydrate"
    BY <2>1 DEF SearchInit, NoSearch, SearchTypeOK
  <2> QED
    BY <2>2 DEF SearchInv
<1> QED
  BY <1>1, <1>2, <1>3, IndexStep, TypeNext, KeyNext, RowsNext, SearchStep, SearchRight,
     PTL DEF SearchSpec
=============================================================================
