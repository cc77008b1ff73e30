----------------------------- MODULE ColdTables -----------------------------
(***************************************************************************)
(* The two SQLite tables of the cold store and the statements run on them  *)
(* (crates/store/src/cold/store.rs), as operators on sets of rows.         *)
(*                                                                         *)
(* A row is [id, pair, ts, size]: the event_id (a ULID, whose text order   *)
(* is a total order, here that of numbers), the (source_id, kind) pair,    *)
(* ts_ms_utc and LENGTH(semantic).  The other columns are copied around    *)
(* and never looked at.                                                    *)
(***************************************************************************)
EXTENDS Integers, Sequences, FiniteSetsExt

CONSTANTS Pairs, MaxTs

ASSUME MaxTsAssumption == MaxTs \in Nat

\* ts_ms_utc is an i64; MaxTs stands for its largest value.
Ts == 0 .. MaxTs

Row == [id : Nat, pair : Pairs, ts : Ts, size : Nat]

\* The value of `latest' for a pair that has no row there.
NoRow == [id |-> 0, ts |-> -1]

OfPair(events, p) == {r \in events : r.pair = p}

-----------------------------------------------------------------------------
(* Order                                                                   *)

\* ORDER BY ts_ms_utc ASC, event_id ASC.
Before(a, b) == a.ts < b.ts \/ (a.ts = b.ts /\ a.id < b.id)

\* Mutant: the tie-breaker is missing.
AfterAnchor_TsOnly(r, a) == r.ts > a.ts

\* ts_ms_utc > ? OR (ts_ms_utc = ? AND event_id > ?)
AfterAnchor(r, a) == r.ts > a.ts \/ (r.ts = a.ts /\ r.id > a.id)

\* S is what ORDER BY ... LIMIT n takes of M: its first n rows.
IsFirst(S, M, n) ==
  /\ S \subseteq M
  /\ \A a \in S : \A b \in M : Before(b, a) => b \in S
  /\ Cardinality(S) = IF Cardinality(M) < n THEN Cardinality(M) ELSE n

-----------------------------------------------------------------------------
(* append                                                                  *)

\* Mutant: INSERT OR REPLACE.
InsertOrIgnore_Replace(events, batch) ==
  LET new == {i \in DOMAIN batch :
                \A j \in DOMAIN batch : j > i => batch[j].id # batch[i].id}
      ids == {batch[i].id : i \in new}
  IN  {r \in events : r.id \notin ids} \cup {batch[i] : i \in new}

\* INSERT OR IGNORE row by row: of rows with one event_id the first stays.
InsertOrIgnore(events, batch) ==
  events \cup {batch[i] : i \in {j \in DOMAIN batch :
                 /\ \A r \in events : r.id # batch[j].id
                 /\ \A k \in 1 .. j - 1 : batch[k].id # batch[j].id}}

\* latest_in_batch holds batch[i]: the first of its pair with the pair's
\* largest ts.
IsNewest(batch, i) ==
  \A j \in DOMAIN batch :
    batch[j].pair = batch[i].pair =>
      batch[j].ts < batch[i].ts \/ (batch[j].ts = batch[i].ts /\ i <= j)

\* Mutant: the upsert without its WHERE clause.
Upsert_Always(latest, batch) ==
  [p \in Pairs |->
     LET new == {i \in DOMAIN batch : batch[i].pair = p /\ IsNewest(batch, i)}
     IN  IF new = {} THEN latest[p] ELSE batch[CHOOSE i \in new : TRUE]]

\* INSERT ... ON CONFLICT DO UPDATE ... WHERE excluded.ts > latest.ts, once
\* per pair of the batch; rows that were ignored as duplicates take part.
Upsert(latest, batch) ==
  [p \in Pairs |->
     LET new == {i \in DOMAIN batch : /\ batch[i].pair = p
                                      /\ IsNewest(batch, i)
                                      /\ batch[i].ts > latest[p].ts}
     IN  IF new = {} THEN latest[p] ELSE batch[CHOOSE i \in new : TRUE]]

-----------------------------------------------------------------------------
(* Retention sweeps: the rows each statement deletes                       *)

\* DELETE ... WHERE ts_ms_utc < cutoff.
TooOld(events, p, cutoff) == {r \in OfPair(events, p) : r.ts < cutoff}

\* How many rows sweep_max_count drops.
ExcessCount(events, p, keep) ==
  Max({Cardinality(OfPair(events, p)) - keep, 0})

\* The bytes of r and of every newer row of its pair.
BytesDownTo(events, r) ==
  MapThenSumSet(LAMBDA q : q.size,
                {q \in OfPair(events, r.pair) : q = r \/ Before(r, q)})

\* Walking from the newest row to the oldest, every row at which the running
\* total exceeds the budget.
TooBig(events, p, budget) ==
  {r \in OfPair(events, p) : BytesDownTo(events, r) > budget}
=============================================================================
