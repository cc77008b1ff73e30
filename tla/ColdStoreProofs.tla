-------------------------- MODULE ColdStoreProofs --------------------------
(***************************************************************************)
(* Theorems about ColdStore, for any rows, batches, window requests and    *)
(* retention limits.                                                       *)
(***************************************************************************)
EXTENDS ColdStore, FiniteSetTheorems, TLAPS

\* Every non-empty set of natural numbers has a least element.
LEMMA NatMin ==
  ASSUME NEW T \in SUBSET Nat, T # {}
  PROVE  \E x \in T : \A y \in T : x <= y
<1>1. PICK x \in T : \A y \in T : ~(<<y, x>> \in OpToRel(<, Nat))
  BY NatLessThanWellFounded, WFMin
<1>2. ASSUME NEW y \in T PROVE x <= y
  <2>1. y < x => <<y, x>> \in OpToRel(<, Nat)
    BY DEF OpToRel
  <2>2. ~(y < x)
    BY <2>1, <1>1, Zenon
  <2>3. x \in Nat /\ y \in Nat
    OBVIOUS
  <2> QED
    BY <2>2, <2>3, SMT
<1> QED
  BY <1>2

\* The fields of a row.
LEMMA RowFacts ==
  ASSUME NEW r \in Row
  PROVE  r.id \in Nat /\ r.ts \in Int /\ r.ts >= 0 /\ r.ts <= MaxTs /\ r.pair \in Pairs
  BY MaxTsAssumption DEF Row, Ts

\* A batch is a sequence of rows.
LEMMA BatchFacts ==
  ASSUME NEW batch \in Batches
  PROVE  /\ batch \in Seq(Row) /\ DOMAIN batch \in SUBSET Nat
         /\ DOMAIN batch = 1 .. Len(batch) /\ Len(batch) \in Nat
         /\ \A i \in DOMAIN batch : batch[i] \in Row
<1>1. batch \in Seq(Row)
  BY ColdStoreAssumption
<1> QED
  BY <1>1

-----------------------------------------------------------------------------
(* Types                                                                   *)

\* No two stored rows have one event_id: the primary key.
UniqueIds == \A r, q \in events : r.id = q.id => r = q

TableInv == TypeOK /\ UniqueIds

\* INSERT OR IGNORE of a batch leaves a finite set of rows and removes
\* none.
LEMMA InsertType ==
  ASSUME NEW E \in SUBSET Row, IsFiniteSet(E), NEW batch \in Batches
  PROVE  /\ InsertOrIgnore(E, batch) \in SUBSET Row
         /\ IsFiniteSet(InsertOrIgnore(E, batch))
         /\ E \subseteq InsertOrIgnore(E, batch)
<1> DEFINE I == {j \in DOMAIN batch : /\ \A r \in E : r.id # batch[j].id
                                      /\ \A k \in 1 .. j - 1 : batch[k].id # batch[j].id}
           N == {batch[i] : i \in I}
<1>1. N \in SUBSET Row
  BY BatchFacts
<1>2. IsFiniteSet(N)
  <2>1. IsFiniteSet(1 .. Len(batch))
    BY BatchFacts, FS_Interval
  <2>2. IsFiniteSet(I)
    BY <2>1, BatchFacts, FS_Subset
  <2>3. [i \in I |-> batch[i]] \in Surjection(I, N)
    BY DEF Surjection
  <2> QED
    BY <2>2, <2>3, FS_Surjection, Zenon
<1>3. IsFiniteSet(E \cup N)
  BY <1>2, FS_Union
<1> QED
  BY <1>1, <1>3 DEF InsertOrIgnore

\* INSERT OR IGNORE keeps event_id a key of the table.
LEMMA InsertUnique ==
  ASSUME NEW E \in SUBSET Row, \A r, q \in E : r.id = q.id => r = q,
         NEW batch \in Batches,
         NEW r \in InsertOrIgnore(E, batch), NEW q \in InsertOrIgnore(E, batch),
         r.id = q.id
  PROVE  r = q
<1> DEFINE I == {j \in DOMAIN batch : /\ \A x \in E : x.id # batch[j].id
                                      /\ \A k \in 1 .. j - 1 : batch[k].id # batch[j].id}
<1>1. r \in E \/ \E i \in I : r = batch[i]
  BY DEF InsertOrIgnore
<1>2. q \in E \/ \E i \in I : q = batch[i]
  BY DEF InsertOrIgnore
<1>3. CASE r \in E /\ q \in E
  BY <1>3
<1>4. CASE \E i \in I : r = batch[i] \/ q = batch[i]
  <2>1. CASE r \in E \/ q \in E
    BY <1>1, <1>2, <1>4, <2>1
  <2>2. CASE r \notin E /\ q \notin E
    <3>1. PICK i \in I : r = batch[i]
      BY <1>1, <2>2
    <3>2. PICK j \in I : q = batch[j]
      BY <1>2, <2>2
    <3>3. i \in Nat /\ j \in Nat /\ i >= 1 /\ j >= 1
      BY BatchFacts
    <3>4. ~(i < j) /\ ~(j < i)
      BY <3>1, <3>2, <3>3
    <3> QED
      BY <3>1, <3>2, <3>3, <3>4
  <2> QED
    BY <2>1, <2>2
<1> QED
  BY <1>1, <1>2, <1>3, <1>4

\* The upsert leaves a row or none per pair.
LEMMA UpsertType ==
  ASSUME NEW L \in [Pairs -> Row \cup {NoRow}], NEW batch \in Batches
  PROVE  Upsert(L, batch) \in [Pairs -> Row \cup {NoRow}]
<1> SUFFICES ASSUME NEW p \in Pairs
             PROVE  Upsert(L, batch)[p] \in Row \cup {NoRow}
  BY DEF Upsert
<1> DEFINE new == {i \in DOMAIN batch : /\ batch[i].pair = p
                                        /\ IsNewest(batch, i)
                                        /\ batch[i].ts > L[p].ts}
<1>1. CASE new = {}
  BY <1>1 DEF Upsert
<1>2. CASE new # {}
  <2>1. (CHOOSE i \in new : TRUE) \in DOMAIN batch
    BY <1>2
  <2> QED
    BY <1>2, <2>1, BatchFacts DEF Upsert
<1> QED
  BY <1>1, <1>2

\* A page, its cursor and its reply have their types.
LEMMA AnswerType ==
  ASSUME NEW q \in Requests, NEW M, M \in SUBSET Row, NEW S \in SUBSET M,
         Answer(S, M, q)
  PROVE  /\ page' \in SUBSET Row /\ reply' \in Replies
         /\ cursor' \in Cursor \cup {NoCursor}
<1>1. q \in Request
  BY ColdStoreAssumption
<1> QED
  BY <1>1 DEF Answer, Replies, Cursor, Row

\* Every step keeps the types and the key.
LEMMA TableNext == TableInv /\ [Next]_vars => TableInv'
<1> SUFFICES ASSUME TableInv, [Next]_vars PROVE TableInv'
  OBVIOUS
<1> USE DEF TableInv
<1>1. ASSUME NEW b \in Batches, DoAppend(b) PROVE TableInv'
  <2>1. events' \subseteq Row /\ IsFiniteSet(events') /\ events \subseteq events'
    BY <1>1, InsertType DEF DoAppend, TypeOK
  <2>2. UniqueIds'
    BY <1>1, InsertUnique DEF DoAppend, UniqueIds, TypeOK
  <2>3. latest' \in [Pairs -> Row \cup {NoRow}]
    BY <1>1, UpsertType DEF DoAppend, TypeOK
  <2>4. seen' \subseteq Row
    BY <1>1, BatchFacts DEF DoAppend, TypeOK
  <2> QED
    BY <1>1, <2>1, <2>2, <2>3, <2>4 DEF DoAppend, TypeOK, scan
<1>2. ASSUME NEW rows, Delete(rows) PROVE TableInv'
  <2>1. IsFiniteSet(events')
    BY <1>2, FS_Subset DEF Delete, TypeOK
  <2> QED
    BY <1>2, <2>1 DEF Delete, TypeOK, UniqueIds
<1>3. ASSUME NEW q \in Requests, OpenWindow(q) PROVE TableInv'
  <2>1. CASE q.end <= q.start
    BY <1>3, <2>1, ColdStoreAssumption DEF OpenWindow, Refuse, TypeOK, UniqueIds, tables, Replies, Request
  <2>2. CASE \E S \in SUBSET Matching(q) :
               Answer(S, Matching(q), q) /\ opened' = q /\ earlier' = {}
               /\ due' = Matching(q) /\ UNCHANGED tables
    <3>1. Matching(q) \in SUBSET Row /\ Matching(q) \subseteq events
      BY DEF Matching, TypeOK
    <3>2. page' \in SUBSET Row /\ reply' \in Replies /\ cursor' \in Cursor \cup {NoCursor}
      BY <2>2, <3>1, AnswerType
    <3> QED
      BY <2>2, <3>1, <3>2, ColdStoreAssumption DEF TypeOK, UniqueIds, tables
  <2> QED
    BY <1>3, <2>1, <2>2 DEF OpenWindow, Refuse
<1>4. ASSUME NEW q \in Requests, ResumeWindow(q) PROVE TableInv'
  <2> DEFINE M == {r \in Matching(q) : AfterAnchor(r, cursor)}
  <2>1. CASE \E why \in Replies : Refuse(why)
    BY <2>1 DEF Refuse, TypeOK, UniqueIds, tables, Replies
  <2>2. CASE \E S \in SUBSET M :
               Answer(S, M, q) /\ earlier' = earlier \cup page
               /\ UNCHANGED <<tables, opened, due>>
    <3>1. M \in SUBSET Row
      BY DEF Matching, TypeOK
    <3>2. page' \in SUBSET Row /\ reply' \in Replies /\ cursor' \in Cursor \cup {NoCursor}
      BY <2>2, <3>1, AnswerType
    <3> QED
      BY <2>2, <3>2 DEF TypeOK, UniqueIds, tables
  <2> QED
    BY <1>4, <2>1, <2>2 DEF ResumeWindow, Replies
<1>5. CASE UNCHANGED vars
  BY <1>5 DEF vars, tables, scan, TypeOK, UniqueIds
<1> QED
  BY <1>1, <1>2, <1>3, <1>4, <1>5
  DEF Next, Writer, Sweeper, Client, SweepMaxAge, SweepMaxCount, SweepMaxBytes

\* They hold of an empty store.
LEMMA TableInit == Init => TableInv
  BY FS_EmptySet
  DEF Init, TableInv, TypeOK, UniqueIds, Replies

\* The type invariant: in particular what the client still has to see is in
\* the table.
THEOREM ColdTypeCorrect == Spec => []TypeOK
<1>1. TableInv => TypeOK
  BY DEF TableInv
<1> QED
  BY TableInit, TableNext, <1>1, PTL DEF Spec

-----------------------------------------------------------------------------
(* Window scans                                                            *)

\* Where a scan stands: with a cursor in hand everything returned so far lies
\* at or before the anchor, and every due row behind it has been returned.
Progress ==
  /\ opened \in Request
  /\ cursor.hash = opened
  /\ \A r \in earlier \cup page : ~AfterAnchor(r, cursor)
  /\ \A r \in due : AfterAnchor(r, cursor) \/ r \in earlier \cup page

ScanInv ==
  /\ opened = NoScan => /\ cursor = NoCursor
                        /\ earlier = {} /\ page = {} /\ due = {}
  /\ \A r \in due : Matches(r, opened)
  /\ cursor # NoCursor => Progress
  /\ ScanOrdered
  /\ ScanMatching
  /\ ScanComplete

\* A page of M: either it ends M, or the new anchor separates it from the
\* rest of M.
LEMMA AnswerSplits ==
  ASSUME TableInv, NEW q \in Requests, NEW M \in SUBSET events, NEW S \in SUBSET M,
         Answer(S, M, q)
  PROVE  /\ page' = S
         /\ \/ cursor' = NoCursor /\ S = M
            \/ /\ cursor' # NoCursor
               /\ cursor'.hash = q
               /\ \E last \in S : cursor'.ts = last.ts /\ cursor'.id = last.id
               /\ \A r \in S : ~AfterAnchor(r, cursor')
               /\ \A r \in M : AfterAnchor(r, cursor') \/ r \in S
<1>0. /\ M \in SUBSET Row /\ S \in SUBSET Row /\ IsFiniteSet(M) /\ q \in Request
      /\ IsFiniteSet(S)
  BY FS_Subset, ColdStoreAssumption DEF TableInv, TypeOK
<1>1. CASE Cardinality(S) < q.limit
  <2>1. Cardinality(S) \in Nat /\ Cardinality(M) \in Nat /\ q.limit \in Nat
    BY <1>0, FS_CardinalityType DEF Request
  <2>2. Cardinality(S) = Cardinality(M)
    BY <1>1, <2>1 DEF Answer, IsFirst
  <2>3. S = M
    BY <2>2, <1>0, FS_Subset
  <2> QED
    BY <1>1, <2>1, <2>3 DEF Answer
<1>2. CASE ~(Cardinality(S) < q.limit)
  <2>1. PICK last \in S : /\ \A r \in S : r = last \/ Before(r, last)
                          /\ cursor' = [ts |-> last.ts, id |-> last.id, hash |-> q]
    BY <1>2 DEF Answer
  <2>2. cursor'.ts = last.ts /\ cursor'.id = last.id /\ cursor'.hash = q
    BY <2>1
  <2>3. last.ts \in Int /\ last.ts >= 0 /\ last.id \in Nat /\ last \in M
    BY <1>0, RowFacts
  <2>4. cursor' # NoCursor
    BY <2>2, <2>3 DEF NoCursor
  <2>5. ASSUME NEW r \in S PROVE ~AfterAnchor(r, cursor')
    <3>1. r.ts \in Int /\ r.id \in Nat
      BY <1>0, RowFacts
    <3> QED
      BY <2>1, <2>2, <2>3, <3>1 DEF Before, AfterAnchor
  <2>6. ASSUME NEW r \in M, ~AfterAnchor(r, cursor') PROVE r \in S
    <3>1. r.ts \in Int /\ r.id \in Nat
      BY <1>0, RowFacts
    <3>2. CASE r.ts = last.ts /\ r.id = last.id
      <4>1. r = last
        BY <3>2, <2>3 DEF TableInv, UniqueIds
      <4> QED
        BY <4>1
    <3>3. CASE ~(r.ts = last.ts /\ r.id = last.id)
      <4>1. Before(r, last)
        BY <3>1, <3>3, <2>2, <2>3, <2>6 DEF AfterAnchor, Before
      <4> QED
        BY <4>1 DEF Answer, IsFirst
    <3> QED
      BY <3>2, <3>3
  <2>7. page' = S
    BY DEF Answer
  <2> QED
    BY <2>1, <2>2, <2>4, <2>5, <2>6, <2>7
<1> QED
  BY <1>1, <1>2

\* Moving the anchor forward keeps what was at or before it there.
LEMMA AnchorMoves ==
  ASSUME NEW r, r.ts \in Int, r.id \in Int, NEW a, a.ts \in Int, a.id \in Int,
         NEW b, b.ts \in Int, b.id \in Int,
         ~AfterAnchor(r, a), AfterAnchor(b, a)
  PROVE  ~AfterAnchor(r, b) /\ Before(r, b)
  BY DEF AfterAnchor, Before

\* The first page of a scan establishes the scan invariant.
LEMMA ScanOpen ==
  ASSUME TableInv, NEW q \in Requests, q.end > q.start,
         NEW S \in SUBSET Matching(q), Answer(S, Matching(q), q),
         opened' = q, earlier' = {}, due' = Matching(q)
  PROVE  ScanInv'
<1>0. Matching(q) \in SUBSET events /\ q \in Request
  BY ColdStoreAssumption DEF Matching
<1>1. q # NoScan
  BY <1>0 DEF Request, NoScan
<1>2. /\ page' = S
      /\ \/ cursor' = NoCursor /\ S = Matching(q)
         \/ /\ cursor' # NoCursor /\ cursor'.hash = q
            /\ \A r \in S : ~AfterAnchor(r, cursor')
            /\ \A r \in Matching(q) : AfterAnchor(r, cursor') \/ r \in S
  BY <1>0, AnswerSplits
<1>3. \A r \in Matching(q) : Matches(r, q)
  BY DEF Matching
<1>4. (cursor # NoCursor => Progress)'
  BY <1>0, <1>2 DEF Progress
<1>5. ScanOrdered' /\ ScanComplete'
  BY <1>2 DEF ScanOrdered, ScanComplete
<1>6. ScanMatching' /\ (\A r \in due : Matches(r, opened))'
  BY <1>2, <1>3 DEF ScanMatching, Matches
<1> QED
  BY <1>1, <1>4, <1>5, <1>6 DEF ScanInv

\* A further page keeps it.
LEMMA ScanResume ==
  ASSUME TableInv, ScanInv, NEW q \in Requests, cursor # NoCursor, Accepts(cursor, q),
         NEW M, M = {r \in Matching(q) : AfterAnchor(r, cursor)},
         NEW S \in SUBSET M, Answer(S, M, q),
         earlier' = earlier \cup page, UNCHANGED <<tables, opened, due>>
  PROVE  ScanInv'
<1>0. M \in SUBSET events /\ q = opened /\ Progress
  BY DEF Matching, Accepts, ScanInv, Progress
<1>1. /\ page' = S
      /\ \/ cursor' = NoCursor /\ S = M
         \/ /\ cursor' # NoCursor /\ cursor'.hash = q
            /\ \E last \in S : cursor'.ts = last.ts /\ cursor'.id = last.id
            /\ \A r \in S : ~AfterAnchor(r, cursor')
            /\ \A r \in M : AfterAnchor(r, cursor') \/ r \in S
  BY <1>0, AnswerSplits
<1>2. /\ \A r \in earlier \cup page \cup S \cup due : r.ts \in Int /\ r.id \in Int
      /\ cursor.ts \in Int /\ cursor.id \in Int
  <2>1. earlier \cup page \cup S \cup due \subseteq Row
    BY <1>0 DEF TableInv, TypeOK
  <2>2. cursor \in Cursor
    BY DEF TableInv, TypeOK
  <2> QED
    BY <2>1, <2>2, RowFacts, MaxTsAssumption DEF Cursor, Ts
<1>3. \A r \in S : AfterAnchor(r, cursor) /\ Matches(r, opened)
  BY <1>0 DEF Matching
<1>4. \A a \in earlier \cup page : \A b \in S : ~AfterAnchor(a, b) /\ Before(a, b)
  BY <1>0, <1>2, <1>3, AnchorMoves DEF Progress
<1>5. ScanOrdered'
  BY <1>1, <1>4 DEF ScanOrdered, Before
<1>6. ScanMatching' /\ (\A r \in due : Matches(r, opened))'
  BY <1>1, <1>3 DEF ScanInv, ScanMatching, Matches
<1>7. \A r \in due : r \in M \/ r \in earlier \cup page
  <2>1. \A r \in due : r \in events /\ Matches(r, q)
    BY <1>0 DEF ScanInv, TableInv, TypeOK
  <2> QED
    BY <2>1, <1>0 DEF Progress, Matching
<1>8. ScanComplete'
  BY <1>1, <1>7 DEF ScanComplete
<1>9. (cursor # NoCursor => Progress)'
  <2> SUFFICES ASSUME cursor' # NoCursor PROVE Progress'
    OBVIOUS
  <2>1. PICK last \in S : cursor'.ts = last.ts /\ cursor'.id = last.id
    BY <1>1
  <2>2. \A r \in earlier \cup page : ~AfterAnchor(r, cursor')
    BY <2>1, <1>4 DEF AfterAnchor
  <2>3. \A r \in (earlier \cup page)' : ~AfterAnchor(r, cursor')
    BY <2>2, <1>1
  <2>4. \A r \in due : AfterAnchor(r, cursor') \/ r \in (earlier \cup page)'
    BY <1>1, <1>7
  <2>5. opened' \in Request /\ cursor'.hash = opened'
    BY <1>0, <1>1 DEF Progress
  <2> QED
    BY <2>3, <2>4, <2>5 DEF Progress
<1>10. opened' # NoScan
  BY <1>0 DEF Progress, Request, NoScan
<1> QED
  BY <1>5, <1>6, <1>8, <1>9, <1>10 DEF ScanInv

\* Every step keeps it, also an append or a sweep between two pages.
LEMMA ScanNext == TableInv /\ ScanInv /\ [Next]_vars => ScanInv'
<1> SUFFICES ASSUME TableInv, ScanInv, [Next]_vars PROVE ScanInv'
  OBVIOUS
<1>1. ASSUME UNCHANGED <<opened, cursor, earlier, page>>, due' \subseteq due
      PROVE  ScanInv'
  BY <1>1 DEF ScanInv, Progress, ScanOrdered, ScanMatching, ScanComplete, Matches,
              AfterAnchor, Before
<1>2. ASSUME NEW q \in Requests, OpenWindow(q) PROVE ScanInv'
  <2>1. CASE Refuse("invalid_range")
    BY <1>1, <2>1 DEF Refuse
  <2>2. CASE q.end > q.start /\ ~Refuse("invalid_range")
    BY <1>2, <2>2, ScanOpen DEF OpenWindow
  <2> QED
    BY <1>2, <2>1, <2>2 DEF OpenWindow
<1>3. ASSUME NEW q \in Requests, ResumeWindow(q) PROVE ScanInv'
  <2>1. CASE \E why \in Replies : Refuse(why)
    BY <1>1, <2>1 DEF Refuse
  <2>2. CASE ~\E why \in Replies : Refuse(why)
    BY <1>3, <2>2, ScanResume DEF ResumeWindow, Replies
  <2> QED
    BY <2>1, <2>2
<1> QED
  BY <1>1, <1>2, <1>3
  DEF Next, Writer, Sweeper, Client, DoAppend, SweepMaxAge, SweepMaxCount,
      SweepMaxBytes, Delete, vars, scan

\* It holds without a scan.
LEMMA ScanInit == Init => ScanInv
  BY DEF Init, ScanInv, ScanOrdered, ScanMatching, ScanComplete

\* Paging through a window returns disjoint, ordered pages although rows
\* come and go between them, and the filter hash keeps a scan to the window
\* it was opened with.
THEOREM ScansSound == Spec => []ScanSound
<1>1. ScanInv => ScanSound
  BY DEF ScanInv, ScanSound
<1> QED
  BY TableInit, TableNext, ScanInit, ScanNext, <1>1, PTL DEF Spec

\* A scan that ends has returned every row that was there all along.
THEOREM ScansComplete == Spec => []ScanComplete
<1>1. ScanInv => ScanComplete
  BY DEF ScanInv
<1> QED
  BY TableInit, TableNext, ScanInit, ScanNext, <1>1, PTL DEF Spec

-----------------------------------------------------------------------------
(* The two tables                                                          *)

\* The collapse of a batch finds a row for each of its pairs.
LEMMA NewestExists ==
  ASSUME NEW batch \in Batches, NEW j \in DOMAIN batch
  PROVE  \E i \in DOMAIN batch : batch[i].pair = batch[j].pair /\ IsNewest(batch, i)
<1> DEFINE P == {i \in DOMAIN batch : batch[i].pair = batch[j].pair}
           T == {MaxTs - batch[i].ts : i \in P}
<1>0. \A i \in DOMAIN batch : batch[i] \in Row /\ i \in Nat
  BY BatchFacts
<1>1. \A i \in DOMAIN batch : /\ batch[i].ts \in Int /\ batch[i].ts <= MaxTs
                              /\ batch[i].ts >= 0
  BY <1>0, RowFacts
<1>2. T \in SUBSET Nat /\ T # {}
  BY <1>1, MaxTsAssumption
<1>3. PICK m \in T : \A y \in T : m <= y
  BY <1>2, NatMin
<1>4. PICK k \in P : m = MaxTs - batch[k].ts
  BY <1>3
<1>5. \A i \in P : batch[i].ts <= batch[k].ts
  <2> TAKE i \in P
  <2>1. MaxTs - batch[i].ts \in T
    OBVIOUS
  <2>2. m <= MaxTs - batch[i].ts
    BY <2>1, <1>3
  <2>3. batch[i].ts \in Int /\ batch[k].ts \in Int
    BY <1>1, <1>4
  <2> HIDE DEF T, P
  <2> QED
    BY <2>2, <2>3, <1>4, MaxTsAssumption
<1> DEFINE F == {i \in P : batch[i].ts = batch[k].ts}
<1>6. F \in SUBSET Nat /\ F # {}
  BY <1>0, <1>4
<1>7. PICK f \in F : \A y \in F : f <= y
  BY <1>6, NatMin
<1>8. IsNewest(batch, f)
  BY <1>1, <1>5, <1>7 DEF IsNewest
<1> QED
  BY <1>7, <1>8

\* Every step keeps the latest row the newest.
LEMMA LatestNext == TableInv /\ LatestIsNewest /\ [Next]_vars => LatestIsNewest'
<1> SUFFICES ASSUME TableInv, LatestIsNewest, [Next]_vars PROVE LatestIsNewest'
  OBVIOUS
<1>1. ASSUME NEW b \in Batches, DoAppend(b) PROVE LatestIsNewest'
  <2> SUFFICES ASSUME NEW p \in Pairs
               PROVE  /\ latest'[p] = NoRow \/ latest'[p] \in OfPair(seen', p)
                      /\ \A r \in OfPair(seen', p) : r.ts <= latest'[p].ts
    BY DEF LatestIsNewest, OfPair
  <2> DEFINE new == {i \in DOMAIN b : /\ b[i].pair = p
                                      /\ IsNewest(b, i)
                                      /\ b[i].ts > latest[p].ts}
  <2>0. /\ seen' = seen \cup {b[i] : i \in DOMAIN b}
        /\ latest'[p] = IF new = {} THEN latest[p] ELSE b[CHOOSE i \in new : TRUE]
    BY <1>1 DEF DoAppend, Upsert
  <2>1. \A i \in DOMAIN b : b[i].ts \in Int
    BY BatchFacts, RowFacts
  <2>2. latest[p].ts \in Int /\ \A r \in seen : r.ts \in Int
    BY RowFacts DEF TableInv, TypeOK, NoRow
  <2>3. \A r \in OfPair(seen, p) : r.ts <= latest[p].ts
    BY DEF LatestIsNewest
  <2>4. CASE new = {}
    <3>1. ASSUME NEW j \in DOMAIN b, b[j].pair = p PROVE b[j].ts <= latest[p].ts
      <4>1. PICK i \in DOMAIN b : b[i].pair = p /\ IsNewest(b, i)
        BY <3>1, NewestExists
      <4>2. b[j].ts <= b[i].ts
        BY <4>1, <3>1, <2>1 DEF IsNewest
      <4>3. ~(b[i].ts > latest[p].ts)
        BY <4>1, <2>4
      <4> QED
        BY <4>2, <4>3, <2>1, <2>2
    <3> QED
      BY <3>1, <2>0, <2>3, <2>4 DEF OfPair, LatestIsNewest
  <2>5. CASE new # {}
    <3> DEFINE i == CHOOSE x \in new : TRUE
    <3>1. i \in new
      BY <2>5
    <3> HIDE DEF i
    <3>a. latest'[p] = b[i]
      BY <2>0, <2>5 DEF i
    <3>b. b[i] \in seen' /\ b[i].pair = p
      BY <2>0, <3>1
    <3>2. latest'[p] = b[i] /\ b[i] \in OfPair(seen', p)
      BY <3>a, <3>b DEF OfPair
    <3>3. ASSUME NEW j \in DOMAIN b, b[j].pair = p PROVE b[j].ts <= b[i].ts
      BY <3>1, <3>3, <2>1 DEF IsNewest
    <3>4. \A r \in OfPair(seen, p) : r.ts <= b[i].ts
      BY <3>1, <2>1, <2>2, <2>3 DEF OfPair
    <3> QED
      BY <3>2, <3>3, <3>4, <2>0 DEF OfPair
  <2> QED
    BY <2>4, <2>5
<1>2. ASSUME UNCHANGED <<latest, seen>> PROVE LatestIsNewest'
  BY <1>2 DEF LatestIsNewest, OfPair
<1> QED
  BY <1>1, <1>2
  DEF Next, Writer, Sweeper, Client, SweepMaxAge, SweepMaxCount,
      SweepMaxBytes, Delete, OpenWindow, ResumeWindow, Refuse, vars, tables

\* The latest table holds the newest row ever appended, whatever the order
\* of arrival, the batching and the sweeps.
THEOREM LatestNewest == Spec => []LatestIsNewest
<1>1. Init => LatestIsNewest
  BY DEF Init, LatestIsNewest, OfPair
<1> QED
  BY TableInit, TableNext, <1>1, LatestNext, PTL DEF Spec

\* A stored event is never overwritten.
THEOREM EventsImmutable == Spec => NoOverwrite
<1>1. TableInv /\ [Next]_vars => \A r \in events : \A q \in events' : r.id = q.id => r = q
  <2> SUFFICES ASSUME TableInv, [Next]_vars, NEW r \in events, NEW q \in events',
                      r.id = q.id
               PROVE  r = q
    OBVIOUS
  <2>1. CASE events' \subseteq events
    BY <2>1 DEF TableInv, UniqueIds
  <2>2. ASSUME NEW b \in Batches, DoAppend(b) PROVE r \in events'
    BY <2>2 DEF DoAppend, InsertOrIgnore
  <2>3. UniqueIds'
    BY TableNext DEF TableInv
  <2>4. CASE \E b \in Batches : DoAppend(b)
    BY <2>2, <2>3, <2>4 DEF UniqueIds
  <2> QED
    BY <2>1, <2>4
    DEF Next, Writer, Sweeper, Client, SweepMaxAge, SweepMaxCount,
        SweepMaxBytes, Delete, OpenWindow, ResumeWindow, Refuse, vars, tables
<1> QED
  BY TableInit, TableNext, <1>1, PTL DEF Spec, NoOverwrite
=============================================================================
