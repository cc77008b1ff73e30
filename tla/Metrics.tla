------------------------------ MODULE Metrics ------------------------------
(***************************************************************************)
(* The shared counters (crates/ingest/src/metrics.rs): atomics in hash     *)
(* maps, each map behind a reader-writer lock, bumped from every handler   *)
(* and task at once and read by describe_sources (recent_errors).          *)
(*                                                                         *)
(* A call looks its counter up under the read lock and bumps it there; if  *)
(* the counter is new it lets go of the lock, takes the write lock and     *)
(* inserts, by when another call may have done so.  Two of the maps are    *)
(* modelled, per_source_errors (whose entries also hold the time of the    *)
(* last error) and per_token_accepted.  inc_mcp_call takes the steps of    *)
(* the first, with a latency for its second write; the other maps are      *)
(* bumped by inc_in_map, as the second is.                                 *)
(***************************************************************************)
EXTENDS Integers, FiniteSets

CONSTANTS
  Calls,    \* the calls that are made, each once
  Sources, Reasons, Tokens,
  MaxClock  \* bound on the clock

ASSUME MetricsAssumption == IsFiniteSet(Calls) /\ MaxClock \in Nat

Errors == [map : {"per_source_errors"}, of : Sources, key : Reasons]
Accepts == [map : {"per_token_accepted"}, key : Tokens]
Counters == Errors \cup Accepts

VARIABLES
  clock,
  accepted_total,
  known,   \* counters that are in their map
  count,   \* [Counters -> value]
  last,    \* [Sources -> last_error_ts_ms_utc], -1 when there is no entry
  pc,      \* [Calls -> "new", "lookup", "insert", "store" or "done"]
  job,     \* [Calls -> the counter it bumps, or NoJob]
  now,     \* [Calls -> its reading of the clock]
  after,   \* [Calls -> the calls that were over when it began] (history)
  digest   \* the recent_errors call: its state, source, counters and time,
           \* and the counts when it began (history)

vars == <<clock, accepted_total, known, count, last, pc, job, now, after, digest>>

NoJob == [map |-> "none"]
NoDigest == [st |-> "none"]

Done == {c \in Calls : pc[c] = "done"}
KnownOf(s) == {e \in Errors \cap known : e.of = s}

\* Who holds the read lock of a map: calls between the two atomic writes of
\* the fast path, and the digest.
Readers(map) ==
  \/ \E c \in Calls : pc[c] = "store" /\ job[c].map = map
  \/ map = "per_source_errors" /\ digest.st = "reading"

Init ==
  /\ clock = 0
  /\ accepted_total = 0
  /\ known = {}
  /\ count = [j \in Counters |-> 0]
  /\ last = [s \in Sources |-> -1]
  /\ pc = [c \in Calls |-> "new"]
  /\ job = [c \in Calls |-> NoJob]
  /\ now = [c \in Calls |-> 0]
  /\ after = [c \in Calls |-> {}]
  /\ digest = NoDigest

Tick ==
  /\ clock < MaxClock
  /\ clock' = clock + 1
  /\ UNCHANGED <<accepted_total, known, count, last, pc, job, now, after, digest>>

-----------------------------------------------------------------------------
(* inc_source_error, inc_accepted                                          *)

\* The caller has read the clock; inc_accepted bumps the total first.
Begin(c, j) ==
  /\ pc[c] = "new"
  /\ pc' = [pc EXCEPT ![c] = "lookup"]
  /\ job' = [job EXCEPT ![c] = j]
  /\ now' = [now EXCEPT ![c] = clock]
  /\ after' = [after EXCEPT ![c] = Done]
  /\ accepted_total' = accepted_total + IF j \in Accepts THEN 1 ELSE 0
  /\ UNCHANGED <<clock, known, count, last, digest>>

\* Fast path, under the read lock: the counter is there.
Bump(c) ==
  /\ pc[c] = "lookup"
  /\ job[c] \in known
  /\ count' = [count EXCEPT ![job[c]] = @ + 1]
  /\ pc' = [pc EXCEPT ![c] = IF job[c] \in Errors THEN "store" ELSE "done"]
  /\ UNCHANGED <<clock, accepted_total, known, last, job, now, after, digest>>

\* The second write of the fast path of inc_source_error.
Store(c) ==
  /\ pc[c] = "store"
  /\ last' = [last EXCEPT ![job[c].of] = now[c]]
  /\ pc' = [pc EXCEPT ![c] = "done"]
  /\ UNCHANGED <<clock, accepted_total, known, count, job, now, after, digest>>

\* The counter is not there: release the read lock.
Miss(c) ==
  /\ pc[c] = "lookup"
  /\ job[c] \notin known
  /\ pc' = [pc EXCEPT ![c] = "insert"]
  /\ UNCHANGED <<clock, accepted_total, known, count, last, job, now, after,
                 digest>>

\* The time that inserting job j leaves in the entries of the sources.
Stamped(c) ==
  IF job[c] \in Errors THEN [last EXCEPT ![job[c].of] = now[c]] ELSE last

\* Mutants: a fresh counter whatever the map holds by now; the time is only
\* set by the fast path.
Insert_Fresh(c) ==
  /\ pc[c] = "insert"
  /\ ~Readers(job[c].map)
  /\ known' = known \cup {job[c]}
  /\ count' = [count EXCEPT ![job[c]] = 1]
  /\ last' = Stamped(c)
  /\ pc' = [pc EXCEPT ![c] = "done"]
  /\ UNCHANGED <<clock, accepted_total, job, now, after, digest>>
Insert_NoTime(c) ==
  /\ pc[c] = "insert"
  /\ ~Readers(job[c].map)
  /\ known' = known \cup {job[c]}
  /\ count' = [count EXCEPT ![job[c]] = @ + 1]
  /\ last' = IF job[c] \in Errors /\ last[job[c].of] = -1
             THEN [last EXCEPT ![job[c].of] = 0] ELSE last
  /\ pc' = [pc EXCEPT ![c] = "done"]
  /\ UNCHANGED <<clock, accepted_total, job, now, after, digest>>

\* Slow path, under the write lock: insert if it is still missing, then bump.
Insert(c) ==
  /\ pc[c] = "insert"
  /\ ~Readers(job[c].map)
  /\ known' = known \cup {job[c]}
  /\ count' = [count EXCEPT ![job[c]] = @ + 1]
  /\ last' = Stamped(c)
  /\ pc' = [pc EXCEPT ![c] = "done"]
  /\ UNCHANGED <<clock, accepted_total, job, now, after, digest>>

-----------------------------------------------------------------------------
(* recent_errors                                                           *)

\* Takes the read lock; a source without an entry has no digest.
DigestBegin(s) ==
  /\ digest.st # "reading"
  /\ KnownOf(s) # {}
  /\ digest' = [st |-> "reading", of |-> s, counters |-> <<>>, from |-> count,
                left |-> KnownOf(s)]
  /\ UNCHANGED <<clock, accepted_total, known, count, last, pc, job, now, after>>

\* Loads one counter after the other; those that are 0 are left out.
DigestLoad(j) ==
  /\ digest.st = "reading"
  /\ j \in digest.left
  /\ digest' = [digest EXCEPT
       !.left = @ \ {j},
       !.counters = IF count[j] = 0 THEN @
                    ELSE [k \in DOMAIN @ \cup {j} |->
                            IF k = j THEN count[j] ELSE @[k]]]
  /\ UNCHANGED <<clock, accepted_total, known, count, last, pc, job, now, after>>

\* The time comes last; without counters there is no digest.
DigestEnd ==
  /\ digest.st = "reading"
  /\ digest.left = {}
  /\ digest' = IF digest.counters = <<>> THEN NoDigest
               ELSE [st |-> "done", of |-> digest.of,
                     counters |-> digest.counters, from |-> digest.from,
                     last |-> last[digest.of]]
  /\ UNCHANGED <<clock, accepted_total, known, count, last, pc, job, now, after>>

-----------------------------------------------------------------------------
Call(c) ==
  (\E j \in Counters : Begin(c, j)) \/ Bump(c) \/ Store(c) \/ Miss(c) \/ Insert(c)

Digest ==
  \/ \E s \in Sources : DigestBegin(s)
  \/ \E j \in Errors : DigestLoad(j)
  \/ DigestEnd

Next == Tick \/ (\E c \in Calls : Call(c)) \/ Digest

Spec == Init /\ [][Next]_vars

-----------------------------------------------------------------------------
(* Properties                                                              *)

\* No increment is lost or made twice when calls race to insert a counter,
\* and the per-token counters never run ahead of accepted_total.
CountsExact ==
  /\ \A j \in Counters :
       count[j] = Cardinality({c \in Calls : job[c] = j /\ pc[c] \in {"store", "done"}})
  /\ accepted_total = Cardinality({c \in Calls : job[c] \in Accepts})

\* A digest counts every error recorded before it was asked for and none that
\* was not recorded by now, and its time is that of an error it could know
\* of; an earlier time than some recorded error's is left only by a call that
\* overlapped that one's.
DigestSound ==
  digest.st = "done" =>
    LET errors == {c \in Done : job[c] \in Errors /\ job[c].of = digest.of}
    IN  /\ \A j \in Errors :
             (j.of = digest.of /\ digest.from[j] > 0) => j \in DOMAIN digest.counters
        /\ \A j \in DOMAIN digest.counters :
             digest.counters[j] \in digest.from[j] .. count[j]
        /\ \E c \in errors : now[c] = digest.last
        /\ \A c \in errors : last[digest.of] < now[c] =>
             \E w \in errors : now[w] = last[digest.of] /\ c \notin after[w]
=============================================================================
