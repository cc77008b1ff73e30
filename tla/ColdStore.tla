----------------------------- MODULE ColdStore -----------------------------
(***************************************************************************)
(* The cold store at work: the cold writer appends batches, the retention  *)
(* sweeper deletes, and an MCP client pages through a time window with     *)
(* get_window (crates/percept/src/mcp/tools.rs) while both go on.  The     *)
(* connection mutex makes each call one atomic step; between two pages of  *)
(* a scan anything can happen.  A call that fails in SQLite rolls its      *)
(* transaction back and changes nothing.                                   *)
(***************************************************************************)
EXTENDS ColdTables

CONSTANTS
  Batches,   \* batches the cold writer may append
  Requests,  \* get_window arguments: [start, end, pairs, limit]
  Cutoffs,   \* cut-off times of max_age sweeps
  Keeps,     \* max_count values
  Budgets    \* max_bytes values

\* The pairs a request's source and kind globs select stand for the globs.
\* limit is what min(limit, MAX_WINDOW_LIMIT) leaves; the tool's input schema
\* says it is at least 1.
Request == [start : Int, end : Int, pairs : SUBSET Pairs, limit : Nat \ {0}]

ASSUME ColdStoreAssumption ==
  /\ Batches \subseteq Seq(Row) \ {<<>>}
  /\ Requests \subseteq Request
  /\ Cutoffs \subseteq Int
  /\ Keeps \subseteq Nat
  /\ Budgets \subseteq Nat

VARIABLES
  events,    \* table events
  latest,    \* table latest: [Pairs -> Row, or NoRow]
  seen,      \* every row ever appended (history)
  opened,    \* the request that opened the client's scan, or NoScan
  cursor,    \* the cursor the client got with the last page, or NoCursor
  earlier,   \* rows of the scan's earlier pages
  page,      \* rows of its last page
  due,       \* rows that matched when the scan was opened and have not been
             \* deleted since (history)
  reply      \* outcome of the last get_window call

tables == <<events, latest, seen>>
scan == <<opened, cursor, earlier, page, due, reply>>
vars == <<tables, scan>>

\* Outside of Request and of Cursor.
NoScan == [start |-> 0, end |-> 0, pairs |-> {}, limit |-> 0]
NoCursor == [ts |-> -1, id |-> 0, hash |-> NoScan]
Cursor == [ts : Ts, id : Nat, hash : Request]
Replies == {"none", "ok", "invalid_range", "cursor_malformed",
            "cursor_filter_mismatch"}

TypeOK ==
  /\ events \subseteq Row /\ IsFiniteSet(events)
  /\ latest \in [Pairs -> Row \cup {NoRow}]
  /\ seen \subseteq Row
  /\ opened \in Request \cup {NoScan}
  /\ cursor \in Cursor \cup {NoCursor}
  /\ earlier \subseteq Row
  /\ page \subseteq Row
  /\ due \subseteq events
  /\ reply \in Replies

Init ==
  /\ events = {}
  /\ latest = [p \in Pairs |-> NoRow]
  /\ seen = {}
  /\ opened = NoScan
  /\ cursor = NoCursor
  /\ earlier = {}
  /\ page = {}
  /\ due = {}
  /\ reply = "none"

-----------------------------------------------------------------------------
(* Writer and sweeper                                                      *)

\* ColdStore::append, one transaction.
DoAppend(batch) ==
  /\ events' = InsertOrIgnore(events, batch)
  /\ latest' = Upsert(latest, batch)
  /\ seen' = seen \cup {batch[i] : i \in DOMAIN batch}
  /\ UNCHANGED scan

\* A DELETE of these rows; `latest' is left alone.
Delete(rows) ==
  /\ events' = events \ rows
  /\ due' = due \ rows
  /\ UNCHANGED <<latest, seen, opened, cursor, earlier, page, reply>>

SweepMaxAge(p, cutoff) == Delete(TooOld(events, p, cutoff))

\* The oldest rows over the count.
SweepMaxCount(p, keep) ==
  \E rows \in SUBSET OfPair(events, p) :
    /\ IsFirst(rows, OfPair(events, p), ExcessCount(events, p, keep))
    /\ Delete(rows)

SweepMaxBytes(p, budget) == Delete(TooBig(events, p, budget))

-----------------------------------------------------------------------------
(* get_window                                                              *)

\* The WHERE clause without the cursor part; end is exclusive.
Matches(r, q) == r.ts >= q.start /\ r.ts < q.end /\ r.pair \in q.pairs

Matching(q) == {r \in events : Matches(r, q)}

\* Mutant: the hash in the cursor is not compared.
Accepts_Any(c, q) == TRUE

\* Cursor::decode: the hash covers range, filters and limit.
Accepts(c, q) == c.hash = q

\* query_window over M answers with the rows S; a page that is not short
\* carries a cursor anchored at its last row, a short one none.
Answer(S, M, q) ==
  /\ IsFirst(S, M, q.limit)
  /\ page' = S
  /\ reply' = "ok"
  /\ \/ /\ Cardinality(S) >= q.limit
        /\ \E last \in S : /\ \A r \in S : r = last \/ Before(r, last)
                           /\ cursor' = [ts |-> last.ts, id |-> last.id, hash |-> q]
     \/ /\ Cardinality(S) < q.limit
        /\ cursor' = NoCursor

Refuse(why) == /\ reply' = why
               /\ UNCHANGED <<tables, opened, cursor, earlier, page, due>>

\* A call without a cursor opens a scan.
OpenWindow(q) ==
  \/ /\ q.end <= q.start
     /\ Refuse("invalid_range")
  \/ /\ q.end > q.start
     /\ \E S \in SUBSET Matching(q) : Answer(S, Matching(q), q)
     /\ opened' = q
     /\ earlier' = {}
     /\ due' = Matching(q)
     /\ UNCHANGED tables

\* A call with the cursor of the last page, intact or garbled on the way, and
\* not necessarily with the arguments that page was asked for with.
ResumeWindow(q) ==
  /\ cursor # NoCursor
  /\ \/ /\ q.end <= q.start
        /\ Refuse("invalid_range")
     \/ /\ q.end > q.start
        /\ Refuse("cursor_malformed")
     \/ /\ q.end > q.start
        /\ ~Accepts(cursor, q)
        /\ Refuse("cursor_filter_mismatch")
     \/ /\ q.end > q.start
        /\ Accepts(cursor, q)
        /\ LET M == {r \in Matching(q) : AfterAnchor(r, cursor)}
           IN  \E S \in SUBSET M : Answer(S, M, q)
        /\ earlier' = earlier \cup page
        /\ UNCHANGED <<tables, opened, due>>

-----------------------------------------------------------------------------
Writer == \E b \in Batches : DoAppend(b)

Sweeper == \E p \in Pairs :
  \/ \E c \in Cutoffs : SweepMaxAge(p, c)
  \/ \E k \in Keeps : SweepMaxCount(p, k)
  \/ \E b \in Budgets : SweepMaxBytes(p, b)

Client == \E q \in Requests : OpenWindow(q) \/ ResumeWindow(q)

Next == Writer \/ Sweeper \/ Client

Spec == Init /\ [][Next]_vars

-----------------------------------------------------------------------------
(* Window scans                                                            *)

ScanOrdered == \A a \in earlier : \A b \in page : Before(a, b)

ScanMatching == \A r \in earlier \cup page : Matches(r, opened)

\* "Cursor resume returns disjoint, ordered results" (docs/PLAN.md), with
\* rows inserted before and after the anchor and deleted, the anchor's row
\* included, between the pages; and a scan whose pages were asked for with
\* varying arguments returns rows of one window and one filter only: those
\* it was opened with.
ScanSound == ScanOrdered /\ ScanMatching

\* A page without a cursor ends the scan: every row that matched when the
\* scan was opened and was not deleted meanwhile has been returned, ties in
\* ts included.
ScanComplete ==
  opened # NoScan /\ cursor = NoCursor => due \subseteq earlier \cup page

-----------------------------------------------------------------------------
(* Tables                                                                  *)

\* `latest' holds, for each pair, a row with the largest ts ever appended,
\* in whatever order and batches the rows came and whatever was swept.
LatestIsNewest ==
  \A p \in Pairs :
    /\ latest[p] = NoRow \/ latest[p] \in OfPair(seen, p)
    /\ \A r \in OfPair(seen, p) : r.ts <= latest[p].ts

\* An event, once stored, is never replaced by another with its event_id: a
\* retried or forwarded duplicate is ignored.
NoOverwrite ==
  [][\A r \in events : \A q \in events' : r.id = q.id => r = q]_vars
=============================================================================
