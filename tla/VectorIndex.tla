---------------------------- MODULE VectorIndex ----------------------------
(***************************************************************************)
(* The vector index (crates/store/src/vector/index.rs): a SQLite table     *)
(* behind a connection mutex and the in-memory mirror that search_kn reads,*)
(* behind a lock of its own.  The embedder task appends and the retention  *)
(* sweeper deletes, each in two steps: one on the table, one on the        *)
(* mirror.  `append' keeps the connection locked over both;                *)
(* `sweep_max_age' releases it in between.  The process can stop between   *)
(* any two steps; `open' then rebuilds the mirror from the table.          *)
(*                                                                         *)
(* A row is [id, pair, ts, model]: event_id, (source_id, kind), ts_ms_utc  *)
(* and the pair (model_id, dimension) of the embedder that made the        *)
(* vector.  Two versions of an event_id differ in pair or ts.              *)
(***************************************************************************)
EXTENDS Integers, Sequences

CONSTANTS
  Pairs,
  Models,   \* embedders a build may run with
  Batches,  \* batches the embedder task may append: sequences of [id, pair, ts]
  Cutoffs   \* cut-off times of sweeps

Vector == [id : Nat, pair : Pairs, ts : Int]
Row == [id : Nat, pair : Pairs, ts : Int, model : Models]
Sweep == [pair : Pairs, cutoff : Int]

ASSUME VectorIndexAssumption ==
  /\ Batches \subseteq Seq(Vector) \ {<<>>}
  /\ Cutoffs \subseteq Nat

VARIABLES
  disk,     \* table vectors
  mirror,   \* Inner.rows
  up,       \* the index is open
  model,    \* the embedder of the running process
  pending,  \* rows committed by the append that holds the connection and not
            \* yet in the mirror; <<>> when no append is under way
  sweep,    \* the sweep that has deleted and not yet retained, if any
  horizon   \* per pair, the largest cut-off swept since the index was opened
            \* (history)

vars == <<disk, mirror, up, model, pending, sweep, horizon>>

NoSweep == [pair |-> 0, cutoff |-> -1]

TypeOK ==
  /\ disk \subseteq Row
  /\ mirror \subseteq Row
  /\ up \in BOOLEAN
  /\ model \in Models
  /\ pending \in Seq(Row)
  /\ sweep \in Sweep \cup {NoSweep}
  /\ horizon \in [Pairs -> Int]

Init ==
  /\ disk = {}
  /\ mirror = {}
  /\ up = FALSE
  /\ model \in Models
  /\ pending = <<>>
  /\ sweep = NoSweep
  /\ horizon = [p \in Pairs |-> -1]

-----------------------------------------------------------------------------
(* append                                                                  *)

\* The rows a batch leaves: of those with one event_id the last.
LastOf(batch) ==
  {batch[i] : i \in {j \in DOMAIN batch :
     \A k \in DOMAIN batch : k > j => batch[k].id # batch[j].id}}

\* Mutant: rows are pushed without looking for their event_id.
Put_Push(rows, batch) == rows \cup LastOf(batch)

\* INSERT OR REPLACE row by row; the mirror's replace-or-push does the same.
Put(rows, batch) ==
  {r \in rows : \A i \in DOMAIN batch : batch[i].id # r.id} \cup LastOf(batch)

\* Mutant: the model is left out.
Stamped_Not(batch) == batch

\* build_record stamps the embedder's model on every row.
Stamped(batch) ==
  [i \in DOMAIN batch |->
     [id |-> batch[i].id, pair |-> batch[i].pair, ts |-> batch[i].ts,
      model |-> model]]

\* The transaction, under the connection lock.  One that fails changes
\* nothing, and the task drops the batch.
AppendCommit(batch) ==
  /\ up
  /\ pending = <<>>
  /\ disk' = Put(disk, Stamped(batch))
  /\ pending' = Stamped(batch)
  /\ UNCHANGED <<mirror, up, model, sweep, horizon>>

\* The mirror's update; the connection is released on return.
AppendMirror ==
  /\ pending # <<>>
  /\ mirror' = Put(mirror, pending)
  /\ pending' = <<>>
  /\ UNCHANGED <<disk, up, model, sweep, horizon>>

-----------------------------------------------------------------------------
(* sweep_max_age                                                           *)

Swept(r, s) == r.pair = s.pair /\ r.ts < s.cutoff

\* Mutant: the delete does not wait for the append that holds the connection.
SweepDelete_NoLock(p, cutoff) ==
  /\ up
  /\ sweep = NoSweep
  /\ sweep' = [pair |-> p, cutoff |-> cutoff]
  /\ disk' = {r \in disk : ~Swept(r, sweep')}
  /\ UNCHANGED <<mirror, up, model, pending, horizon>>

\* The DELETE, under the connection lock, released at its end.  There is one
\* sweeper and it waits for each pass.
SweepDelete(p, cutoff) ==
  /\ up
  /\ sweep = NoSweep
  /\ pending = <<>>
  /\ sweep' = [pair |-> p, cutoff |-> cutoff]
  /\ disk' = {r \in disk : ~Swept(r, sweep')}
  /\ UNCHANGED <<mirror, up, model, pending, horizon>>

\* Mutant: retain forgets the pair.
SweepRetain_AnyPair ==
  /\ sweep # NoSweep
  /\ mirror' = {r \in mirror : ~(r.ts < sweep.cutoff)}
  /\ horizon' = [horizon EXCEPT ![sweep.pair] =
                   IF sweep.cutoff > @ THEN sweep.cutoff ELSE @]
  /\ sweep' = NoSweep
  /\ UNCHANGED <<disk, up, model, pending>>

\* The same delete in the mirror, under its write lock only.
SweepRetain ==
  /\ sweep # NoSweep
  /\ mirror' = {r \in mirror : ~Swept(r, sweep)}
  /\ horizon' = [horizon EXCEPT ![sweep.pair] =
                   IF sweep.cutoff > @ THEN sweep.cutoff ELSE @]
  /\ sweep' = NoSweep
  /\ UNCHANGED <<disk, up, model, pending>>

-----------------------------------------------------------------------------
(* Stop and restart                                                        *)

\* The process ends, between any two steps.
Stop ==
  /\ up
  /\ up' = FALSE
  /\ mirror' = {}
  /\ pending' = <<>>
  /\ sweep' = NoSweep
  /\ UNCHANGED <<disk, model, horizon>>

\* Mutant: the stored model is not compared with the embedder's.
Open_AnyModel(m) ==
  /\ ~up
  /\ mirror' = disk
  /\ up' = TRUE
  /\ model' = m
  /\ horizon' = [p \in Pairs |-> -1]
  /\ UNCHANGED <<disk, pending, sweep>>

\* load_rows compares the model of the first row the scan meets; on a
\* mismatch the server does not start.
Open(m) ==
  /\ ~up
  /\ disk # {} => \E first \in disk : first.model = m
  /\ mirror' = disk
  /\ up' = TRUE
  /\ model' = m
  /\ horizon' = [p \in Pairs |-> -1]
  /\ UNCHANGED <<disk, pending, sweep>>

-----------------------------------------------------------------------------
Embedder == (\E b \in Batches : AppendCommit(b)) \/ AppendMirror

Sweeper == (\E p \in Pairs, c \in Cutoffs : SweepDelete(p, c)) \/ SweepRetain

Process == Stop \/ \E m \in Models : Open(m)

Next == Embedder \/ Sweeper \/ Process

Spec == Init /\ [][Next]_vars

-----------------------------------------------------------------------------
(* Properties                                                              *)

\* search_kn finds no vector that is not stored, or not stored in that form
\* any more, however appends, replacements and sweeps of the two locks
\* interleave: what the mirror has over the table, a call under way removes.
NoGhosts ==
  \A r \in mirror \ disk :
    \/ sweep # NoSweep /\ Swept(r, sweep)
    \/ \E i \in DOMAIN pending : pending[i].id = r.id

\* A stored vector that search_kn does not find is one whose append is under
\* way or one that a sweep since the last restart has declared expired.  (An
\* expired row appended between the two steps of a sweep is undone in the
\* mirror only, so the two can differ until the next sweep or restart.)
MissingIsExpired ==
  up => \A r \in disk \ mirror :
          r \in LastOf(pending) \/ r.ts < horizon[r.pair]

\* search_kn returns an event at most once.
OneRowPerEvent == \A r, s \in mirror : r.id = s.id => r = s

\* Restarts with other embedders never mix vectors of two models: the one
\* row that open looks at speaks for all, and every query is compared with
\* vectors of its own model.
OneModel ==
  /\ \A r, s \in disk : r.model = s.model
  /\ up => \A r \in disk \cup mirror : r.model = model

=============================================================================
