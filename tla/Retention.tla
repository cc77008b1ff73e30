----------------------------- MODULE Retention -----------------------------
(***************************************************************************)
(* Retention: the configured policies and their resolution                 *)
(* (crates/store/src/retention/policy.rs, crates/percept/src/config), the  *)
(* sweep pass over the cold store and the vector index                     *)
(* (crates/store/src/retention/sweeper.rs), the server's loop around it    *)
(* (crates/percept/src/sweeper.rs) and the dry-run of the command line     *)
(* (crates/percept/src/cli.rs).                                            *)
(*                                                                         *)
(* A pass takes the list of (source_id, kind) pairs once and then makes    *)
(* one call per pair and dimension, each under its store's lock; between   *)
(* two calls the cold writer and the embedder go on, in either order for   *)
(* an event, which reaches them through queues of their own.               *)
(***************************************************************************)
EXTENDS ColdTables, SequencesExt

CONSTANTS
  Sources, Kinds,  \* Pairs is a set of [source, kind]
  Bare,            \* the name of each kind without its "@vN"
  Configs,         \* [[retention]] lists an operator may write
  Arrivals,        \* events that come in
  Embedded,        \* those of them that EmbedSelector passes to the embedder
  MaxNow,          \* bound on the clock
  MaxFailures,     \* bound on the calls that fail in SQLite
  MaxDryRuns       \* bound on the dry-runs

None == -1
NoPair == [source |-> None, kind |-> None]
Dims == {"max_age", "max_count", "max_bytes", "vector_max_age"}

\* An absent match or dimension is None; durations are in ms.
Policy == [source : Sources \cup {None}, kind : Kinds \cup {None},
           max_age : Nat \cup {None}, max_count : Nat \cup {None},
           max_bytes : Nat \cup {None}, vector_max_age : Nat \cup {None}]

ASSUME RetentionAssumption ==
  /\ Pairs \subseteq [source : Sources, kind : Kinds]
  /\ Bare \in [Kinds -> Kinds]
  /\ Configs \subseteq Seq(Policy)
  /\ Arrivals \subseteq Row /\ IsFiniteSet(Arrivals)
  /\ Embedded \subseteq Arrivals
  /\ MaxNow \in Nat /\ MaxFailures \in Nat /\ MaxDryRuns \in Nat

VARIABLES
  policies,  \* the validated [[retention]] list
  now,       \* the clock
  events,    \* table events of the cold store
  vectors,   \* table vectors of the index
  toStore, toEmbed,  \* arrivals that have not reached the two stores
  phase,     \* "idle", or where the pass under way is
  dry,       \* the last pass is a dry-run
  at,        \* its now_ms
  todo,      \* the pairs it has not come to
  cur,       \* the pair it is at
  eff,       \* the limits resolved for it
  report,    \* its SweepReport: [events, vectors] dropped
  ended,     \* how it ended: "ok" or "error"
  failures, dryRuns,  \* counted against the bounds
  present,   \* rows that were there when the last real pass began and have
             \* not been deleted (history)
  vpresent,  \* the same of vectors (history)
  listed,    \* the pairs the last real pass took (history)
  forecast   \* the report of a dry-run if nothing came in and no time passed
             \* since its begin, Awaited while it goes on, else NoReport (history)

vars == <<policies, now, events, vectors, toStore, toEmbed, phase, dry, at,
          todo, cur, eff, report, ended, failures, dryRuns, present, vpresent,
          listed, forecast>>
inputs == <<now, toStore, toEmbed>>
history == <<present, vpresent, listed>>

NoReport == [events |-> -1, vectors |-> -1]
Awaited == [events |-> -2, vectors |-> -2]
Phases == {"idle", "next", "max_age", "max_count", "max_bytes", "vectors"}

TypeOK ==
  /\ policies \in Configs
  /\ now \in 0 .. MaxNow /\ at \in 0 .. MaxNow
  /\ events \subseteq Arrivals /\ vectors \subseteq Arrivals
  /\ toStore \subseteq Arrivals /\ toEmbed \subseteq Arrivals
  /\ phase \in Phases /\ ended \in {"ok", "error"} /\ dry \in BOOLEAN
  /\ todo \subseteq Pairs /\ listed \subseteq Pairs
  /\ cur \in Pairs \cup {NoPair}
  /\ eff \in [Dims -> Nat \cup {None}]
  /\ report \in [events : Nat, vectors : Nat]
  /\ forecast \in {NoReport, Awaited} \/ forecast \in [events : Nat, vectors : Nat]
  /\ failures \in 0 .. MaxFailures /\ dryRuns \in 0 .. MaxDryRuns
  /\ present \subseteq events /\ vpresent \subseteq vectors

-----------------------------------------------------------------------------
(* Policies                                                                *)

\* RetentionPolicy::matches.
PolicyMatches(q, p) ==
  /\ q.source \in {None, p.source}
  /\ q.kind \in {None, Bare[p.kind], p.kind}

\* Mutant: kind-level policies come first.
Tier_KindFirst(q) == IF q.kind # None THEN 0 ELSE IF q.source # None THEN 1 ELSE 2

\* Source-level, kind-level, global.
Tier(q) == IF q.source # None THEN 0 ELSE IF q.kind # None THEN 1 ELSE 2

Unset == [d \in Dims |-> None]

\* Mutant: the first matching policy settles every dimension.
Merge_Whole(acc, q) == IF acc = Unset THEN [d \in Dims |-> q[d]] ELSE acc

\* A policy fills the dimensions that are still unset.
Merge(acc, q) == [d \in Dims |-> IF acc[d] = None THEN q[d] ELSE acc[d]]

\* The matching policies of a tier, merged into acc in the list's order.
MergeTier(qs, p, tier, acc) ==
  FoldLeft(LAMBDA limits, q : IF PolicyMatches(q, p) /\ Tier(q) = tier
                              THEN Merge(limits, q) ELSE limits,
           acc, qs)

\* resolve_effective: the matching policies, sorted by tier (the sort is
\* stable), merged one after the other.
Resolve(qs, p) ==
  MergeTier(qs, p, 2, MergeTier(qs, p, 1, MergeTier(qs, p, 0, Unset)))

\* validate::check refuses a policy that matches everything and one whose
\* own vector_max_age exceeds its own max_age.
Valid(qs) ==
  \A i \in DOMAIN qs :
    /\ qs[i].source # None \/ qs[i].kind # None
    /\ qs[i].max_age # None /\ qs[i].vector_max_age # None =>
         qs[i].vector_max_age <= qs[i].max_age

Init ==
  /\ policies \in {c \in Configs : Valid(c)}
  /\ now = 0
  /\ events = {} /\ vectors = {}
  /\ toStore = Arrivals /\ toEmbed = Embedded
  /\ phase = "idle" /\ dry = TRUE /\ at = 0 /\ todo = {} /\ ended = "ok"
  /\ cur = NoPair /\ eff = Unset
  /\ report = [events |-> 0, vectors |-> 0]
  /\ failures = 0 /\ dryRuns = 0
  /\ present = {} /\ vpresent = {} /\ listed = {}
  /\ forecast = NoReport

-----------------------------------------------------------------------------
(* What goes on around a pass                                              *)

pass == <<policies, phase, dry, at, todo, cur, eff, report, ended, failures, dryRuns>>

Tick ==
  /\ now < MaxNow
  /\ now' = now + 1
  /\ forecast' = NoReport
  /\ UNCHANGED <<pass, history, events, vectors, toStore, toEmbed>>

\* The cold writer stores r.
Store(r) ==
  /\ r \in toStore
  /\ toStore' = toStore \ {r}
  /\ events' = InsertOrIgnore(events, <<r>>)
  /\ forecast' = NoReport
  /\ UNCHANGED <<pass, history, vectors, now, toEmbed>>

\* The embedder stores r's vector.
Embed(r) ==
  /\ r \in toEmbed
  /\ toEmbed' = toEmbed \ {r}
  /\ vectors' = vectors \cup {r}
  /\ forecast' = NoReport
  /\ UNCHANGED <<pass, history, events, now, toStore>>

-----------------------------------------------------------------------------
(* A pass                                                                  *)

\* Mutant: source_id without the kind.
PairsOf_Sources(rows) == {r.pair.source : r \in rows}

\* distinct_source_kind_pairs.
PairsOf(rows) == {r.pair : r \in rows}

\* The list of pairs is taken and the report is empty.  The server's sweeper
\* makes one pass after the other, and none if there is no policy.  A dry-run
\* is a process of its own; as it changes nothing it is placed between two
\* passes.
Begin(isDry) ==
  /\ phase = "idle"
  /\ IF isDry THEN dryRuns < MaxDryRuns ELSE policies # <<>>
  /\ dryRuns' = dryRuns + (IF isDry THEN 1 ELSE 0)
  /\ dry' = isDry
  /\ at' = now
  /\ todo' = PairsOf(events)
  /\ phase' = "next"
  /\ report' = [events |-> 0, vectors |-> 0]
  /\ IF isDry THEN UNCHANGED history
     ELSE present' = events /\ vpresent' = vectors /\ listed' = todo'
  /\ forecast' = IF isDry THEN Awaited ELSE IF dry THEN forecast ELSE NoReport
  /\ UNCHANGED <<policies, events, vectors, inputs, cur, eff, ended, failures>>

\* On to a pair for which a policy sets something.
NextPair(p) ==
  /\ phase = "next"
  /\ p \in todo
  /\ todo' = todo \ {p}
  /\ cur' = p
  /\ eff' = Resolve(policies, p)
  /\ phase' = IF eff' = Unset THEN "next" ELSE "max_age"
  /\ UNCHANGED <<policies, events, vectors, inputs, dry, at, report, ended,
                 failures, dryRuns, history, forecast>>

\* Mutant: the dry_run flag is not looked at.
DropEvents_Always(rows, next) ==
  /\ report' = [report EXCEPT !.events = @ + Cardinality(rows)]
  /\ events' = events \ rows /\ present' = present \ rows
  /\ phase' = next
  /\ UNCHANGED <<policies, vectors, inputs, dry, at, todo, cur, eff, ended,
                 failures, dryRuns, vpresent, listed, forecast>>

\* One statement of the cold store: rows are counted, and deleted unless
\* this is a dry-run.
DropEvents(rows, next) ==
  /\ report' = [report EXCEPT !.events = @ + Cardinality(rows)]
  /\ IF dry THEN UNCHANGED <<events, present>>
     ELSE events' = events \ rows /\ present' = present \ rows
  /\ phase' = next
  /\ UNCHANGED <<policies, vectors, inputs, dry, at, todo, cur, eff, ended,
                 failures, dryRuns, vpresent, listed, forecast>>

SweepMaxAge ==
  /\ phase = "max_age"
  /\ DropEvents(IF eff["max_age"] = None THEN {}
                ELSE TooOld(events, cur, at - eff["max_age"]), "max_count")

SweepMaxCount ==
  /\ phase = "max_count"
  /\ \E rows \in SUBSET OfPair(events, cur) :
       /\ IsFirst(rows, OfPair(events, cur),
                  IF eff["max_count"] = None THEN 0
                  ELSE ExcessCount(events, cur, eff["max_count"]))
       /\ DropEvents(rows, "max_bytes")

SweepMaxBytes ==
  /\ phase = "max_bytes"
  /\ DropEvents(IF eff["max_bytes"] = None THEN {}
                ELSE TooBig(events, cur, eff["max_bytes"]), "vectors")

\* VectorIndex::sweep_max_age.
SweepVectors ==
  LET m == eff["vector_max_age"]
      rows == IF m = None THEN {} ELSE TooOld(vectors, cur, at - m)
  IN  /\ phase = "vectors"
      /\ report' = [report EXCEPT !.vectors = @ + Cardinality(rows)]
      /\ IF dry THEN UNCHANGED <<vectors, vpresent>>
         ELSE vectors' = vectors \ rows /\ vpresent' = vpresent \ rows
      /\ phase' = "next"
      /\ UNCHANGED <<policies, events, inputs, dry, at, todo, cur, eff, ended,
                     failures, dryRuns, present, listed, forecast>>

\* The pass's variables go out of scope; what it returned stays.
Stop(how) ==
  /\ phase' = "idle"
  /\ ended' = how
  /\ todo' = {}
  /\ cur' = NoPair /\ eff' = Unset
  /\ UNCHANGED <<policies, events, vectors, inputs, dry, at, dryRuns, listed>>

\* Mutant: the pass ends with the first pair.
Finish_Early ==
  /\ phase = "next"
  /\ Stop("ok")
  /\ forecast' = IF forecast = Awaited THEN report ELSE forecast
  /\ UNCHANGED <<report, failures, present, vpresent>>

Finish ==
  /\ phase = "next"
  /\ todo = {}
  /\ Stop("ok")
  /\ forecast' = IF forecast = Awaited THEN report ELSE forecast
  /\ UNCHANGED <<report, failures, present, vpresent>>

\* A call fails: the pass is given up where it is; the loop goes on.
Fail ==
  /\ phase # "idle"
  /\ failures < MaxFailures
  /\ failures' = failures + 1
  /\ Stop("error")
  /\ report' = [events |-> 0, vectors |-> 0]
  /\ present' = {} /\ vpresent' = {}
  /\ forecast' = NoReport

PassStep ==
  \/ \E p \in todo : NextPair(p)
  \/ SweepMaxAge
  \/ SweepMaxCount
  \/ SweepMaxBytes
  \/ SweepVectors
  \/ Finish

-----------------------------------------------------------------------------
Arrive == \E r \in Arrivals : Store(r) \/ Embed(r)

Next ==
  \/ Tick
  \/ Arrive
  \/ Begin(TRUE)
  \/ Begin(FALSE)
  \/ PassStep
  \/ Fail

Spec == Init /\ [][Next]_vars

\* The server's loop never ends: after each pass it waits for the ticker,
\* and a pass runs to its end.  Writer and embedder flush what they have.
Fairness == WF_vars(Begin(FALSE)) /\ WF_vars(PassStep) /\ WF_vars(Arrive)

FairSpec == Spec /\ Fairness

-----------------------------------------------------------------------------
(* Reference                                                               *)

\* "source-level policy -> kind-level policy -> global default.  First match
\* wins per dimension" (docs/DESIGN.md): the limits that hold for p in d are
\* those of the first policy of the most specific level that sets d.
Level(q) == IF q.source # None THEN "source" ELSE IF q.kind # None THEN "kind" ELSE "global"
Applies(q, p) ==
  /\ q.source = None \/ q.source = p.source
  /\ q.kind = None \/ q.kind = p.kind \/ q.kind = Bare[p.kind]
Governing(p, d) ==
  LET Setting(l) == {i \in DOMAIN policies :
                       /\ Applies(policies[i], p)
                       /\ Level(policies[i]) = l
                       /\ policies[i][d] # None}
      First(l) == policies[Min(Setting(l))][d]
  IN  IF Setting("source") # {} THEN First("source")
      ELSE IF Setting("kind") # {} THEN First("kind")
      ELSE IF Setting("global") # {} THEN First("global")
      ELSE None

\* n is set and b holds of it.
Over(n, b) == n # None /\ b

-----------------------------------------------------------------------------
(* Properties                                                              *)

\* No event and no vector is deleted that its governing policy does not
\* condemn: too old at the pass's time, or with max_count newer ones of its
\* pair stored, or beyond max_bytes counted from the newest; and a dry-run
\* deletes nothing.
NothingUndue ==
  [][/\ \A r \in events \ events' :
          LET p == r.pair
              newer == {q \in OfPair(events, p) : Before(r, q)}
          IN  /\ ~dry
              /\ \/ Over(Governing(p, "max_age"), r.ts < at - Governing(p, "max_age"))
                 \/ Over(Governing(p, "max_count"),
                         Cardinality(newer) >= Governing(p, "max_count"))
                 \/ Over(Governing(p, "max_bytes"),
                         BytesDownTo(events, r) > Governing(p, "max_bytes"))
     /\ \A r \in vectors \ vectors' :
          LET m == Governing(r.pair, "vector_max_age")
          IN  ~dry /\ Over(m, r.ts < at - m)]_vars

\* Of what was there when a pass began, a pass that ends well leaves nothing
\* over any limit, whatever arrived while it went on.
Enforced ==
  phase = "idle" /\ ended = "ok" /\ ~dry =>
    \A p \in Pairs :
      LET old == OfPair(present, p)
      IN  /\ \A r \in old : ~Over(Governing(p, "max_age"),
                                  r.ts < at - Governing(p, "max_age"))
          /\ ~Over(Governing(p, "max_count"),
                   Cardinality(old) > Governing(p, "max_count"))
          /\ ~Over(Governing(p, "max_bytes"),
                   MapThenSumSet(LAMBDA r : r.size, old) > Governing(p, "max_bytes"))
          /\ p \in listed =>
               \A r \in OfPair(vpresent, p) :
                 ~Over(Governing(p, "vector_max_age"),
                       r.ts < at - Governing(p, "vector_max_age"))

\* The last pass is a real one and followed a dry-run, with nothing coming in
\* and no time passing since the latter began.
Foretold == phase = "idle" /\ ended = "ok" /\ ~dry /\ forecast # NoReport

EventDims == {"max_age", "max_count", "max_bytes"}

\* A dry-run never promises less than the pass drops, and exactly that where
\* no pair is bound in two dimensions.  (Where one is, a row over two limits
\* is counted twice, docs/PLAN.md's "accurately predicts the drop" aside.)
DryRunBounds ==
  Foretold =>
    /\ report.events <= forecast.events
    /\ report.vectors = forecast.vectors
    /\ (\A p \in Pairs : \A d, e \in EventDims :
          Governing(p, d) # None /\ Governing(p, e) # None => d = e)
       => report = forecast

\* The events older than their max_age.
Overdue == {r \in events : LET m == Governing(r.pair, "max_age")
                           IN  Over(m, r.ts < now - m)}

\* Whenever an event has outlived its max_age, a time comes when none has,
\* though passes fail and though it came in while one was under way.
EventuallyExpired == Overdue # {} ~> Overdue = {}

-----------------------------------------------------------------------------
(* What the documentation says and the code does not do                    *)

\* "`vector_max_age` is the operator's knob for keeping the vector index
\* bounded" (docs/PLAN.md): an expired vector is dropped in the end.
VectorsPruned ==
  \A r \in Arrivals :
    (r \in vectors /\ Over(Governing(r.pair, "vector_max_age"),
                           r.ts < now - Governing(r.pair, "vector_max_age")))
      ~> r \notin vectors
=============================================================================
