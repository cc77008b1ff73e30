------------------------------- MODULE Search -------------------------------
(***************************************************************************)
(* The search_events tool (crates/percept/src/mcp/tools.rs) on top of the  *)
(* vector index: search_kn ranks the rows of the mirror and keeps the best *)
(* top_k under the mirror's lock (crates/store/src/vector/index.rs); then  *)
(* each hit's event is fetched from the cold store, one get_by_id after    *)
(* the other, while the cold writer appends and the sweeper deletes.       *)
(*                                                                         *)
(* Similarity is a number per event and query, not computed from vectors.  *)
(***************************************************************************)
EXTENDS VectorIndex, FiniteSets, SequencesExt

CONSTANTS
  Ids,         \* event_ids
  Queries,     \* sets of similarities: functions from Ids to numbers
  Requests,    \* [blank, start, end, pairs, limit]; a limit of -1 is None
  DefaultSearchLimit, MaxSearchLimit

ASSUME SearchAssumption ==
  /\ \A batch \in Batches : \A i \in DOMAIN batch : batch[i].id \in Ids
  /\ \A q \in Queries : q \in [Ids -> Int]
  /\ Requests \subseteq [blank : BOOLEAN, start : Int, end : Int,
                         pairs : SUBSET Pairs, limit : Nat \cup {-1}]
  /\ MaxSearchLimit \in Nat \ {0} /\ DefaultSearchLimit \in 1 .. MaxSearchLimit

VARIABLES
  cold,    \* event_ids that table events has
  search,  \* the call: its state, hits still to hydrate and hits hydrated
  found,   \* rows that matched, and the hits kept of them (history)
  absent   \* ids that the cold store lacked at some time since (history)

searchVars == <<cold, search, found, absent>>
allVars == <<vars, searchVars>>

NoSearch == [st |-> "idle", hits |-> <<>>, out |-> <<>>]
NoneFound == [matching |-> {}, hits |-> <<>>, limit |-> 0]

SearchInit ==
  /\ Init
  /\ cold = {}
  /\ search = NoSearch
  /\ found = NoneFound
  /\ absent = {}

-----------------------------------------------------------------------------
(* search_kn                                                               *)

\* The filters of the scan: the range is [start, end), and globs are sets of
\* pairs here.
Matches(r, req) == r.ts >= req.start /\ r.ts < req.end /\ r.pair \in req.pairs

\* limit.unwrap_or(DEFAULT_SEARCH_LIMIT).clamp(1, MAX_SEARCH_LIMIT)
TopK(req) ==
  LET asked == IF req.limit = -1 THEN DefaultSearchLimit ELSE req.limit
  IN  IF asked < 1 THEN 1 ELSE IF asked > MaxSearchLimit THEN MaxSearchLimit
      ELSE asked

\* Position of the first hit with the lowest score: what min_by returns.
Worst(heap) ==
  CHOOSE i \in DOMAIN heap :
    \A j \in DOMAIN heap : heap[i].score < heap[j].score
                           \/ (heap[i].score = heap[j].score /\ i <= j)

\* Mutant: the newcomer always takes the worst hit's place.
InsertTopK_Any(heap, hit, k) ==
  IF Len(heap) < k THEN Append(heap, hit) ELSE [heap EXCEPT ![Worst(heap)] = hit]

InsertTopK(heap, hit, k) ==
  IF Len(heap) < k THEN Append(heap, hit)
  ELSE IF hit.score > heap[Worst(heap)].score THEN [heap EXCEPT ![Worst(heap)] = hit]
  ELSE heap

\* sort_by is stable.
Ranked(heap) ==
  [i \in DOMAIN heap |->
     heap[CHOOSE j \in DOMAIN heap :
            i = 1 + Cardinality({k \in DOMAIN heap :
                      \/ heap[k].score > heap[j].score
                      \/ heap[k].score = heap[j].score /\ k < j})]]

\* The rows in the order of the mirror's vector, which nothing fixes.
SearchKn(order, q, k) ==
  Ranked(FoldLeft(LAMBDA heap, r :
                    InsertTopK(heap, [id |-> r.id, score |-> q[r.id]], k),
                  <<>>, order))

-----------------------------------------------------------------------------
(* search_events                                                           *)

Valid(req) == ~req.blank /\ req.end > req.start

\* EmptyQuery, InvalidRange
SearchRefuse(req) ==
  /\ up
  /\ search.st = "idle"
  /\ ~Valid(req)
  /\ search' = [search EXCEPT !.st = "refused"]
  /\ UNCHANGED <<cold, found, absent, vars>>

SearchTop(req, q) ==
  /\ up
  /\ search.st = "idle"
  /\ Valid(req)
  /\ LET matching == {r \in mirror : Matches(r, req)}
     IN  \E order \in SetToSeqs(matching) :
           /\ search' = [st |-> "hydrate", hits |-> SearchKn(order, q, TopK(req)),
                         out |-> <<>>]
           /\ found' = [matching |-> {[id |-> r.id, score |-> q[r.id]] : r \in matching},
                        hits |-> search'.hits, limit |-> TopK(req)]
  /\ absent' = {h.id : h \in ToSet(search'.hits)} \ cold
  /\ UNCHANGED <<cold, vars>>

\* The next hit; one whose event is not there is skipped.
Hydrate ==
  /\ search.st = "hydrate"
  /\ search.hits # <<>>
  /\ search' = [search EXCEPT
       !.hits = Tail(@),
       !.out = IF Head(search.hits).id \in cold THEN Append(@, Head(search.hits)) ELSE @]
  /\ UNCHANGED <<cold, found, absent, vars>>

\* The call returns: with the hits hydrated or with an error, its own or one
\* of the cold store's.
SearchReturn ==
  /\ search.st # "idle"
  /\ search' = NoSearch
  /\ found' = NoneFound
  /\ absent' = {}
  /\ UNCHANGED <<cold, vars>>

-----------------------------------------------------------------------------
(* The cold store, as far as get_by_id sees it                             *)

ColdAppend(i) ==
  /\ up
  /\ i \notin cold
  /\ cold' = cold \cup {i}
  /\ UNCHANGED <<search, found, absent, vars>>

ColdSweep(i) ==
  /\ up
  /\ i \in cold
  /\ cold' = cold \ {i}
  /\ absent' = IF \E h \in ToSet(found.hits) : h.id = i THEN absent \cup {i}
               ELSE absent
  /\ UNCHANGED <<search, found, vars>>

-----------------------------------------------------------------------------
Tool ==
  \/ \E req \in Requests : SearchRefuse(req)
  \/ \E req \in Requests, q \in Queries : SearchTop(req, q)
  \/ Hydrate \/ SearchReturn

Cold == \E i \in Ids : ColdAppend(i) \/ ColdSweep(i)

\* A step of the index; a call under way does not survive the process.
Index ==
  /\ Next
  /\ search' = IF up' THEN search ELSE NoSearch
  /\ found' = IF up' THEN found ELSE NoneFound
  /\ absent' = IF up' THEN absent ELSE {}
  /\ UNCHANGED cold

SearchNext == Index \/ Tool \/ Cold

SearchSpec == SearchInit /\ [][SearchNext]_allVars

-----------------------------------------------------------------------------
\* The hits are in order of similarity, distinct rows of the scan, as many as
\* the limit allows, and no row left out of them is more similar.
BestHits ==
  LET hits == ToSet(found.hits)
      matches == Cardinality(found.matching)
  IN  /\ hits \subseteq found.matching
      /\ Cardinality(hits) = Len(found.hits)
      /\ Len(found.hits) = IF matches < found.limit THEN matches ELSE found.limit
      /\ \A i, j \in DOMAIN found.hits :
           i < j => found.hits[i].score >= found.hits[j].score
      /\ \A m \in found.matching \ hits : \A h \in hits : h.score >= m.score

\* s is t with elements left out.
Subsequence(s, t) ==
  \E pos \in [DOMAIN s -> DOMAIN t] :
    /\ \A i \in DOMAIN s : s[i] = t[pos[i]]
    /\ \A i, j \in DOMAIN s : i < j => pos[i] < pos[j]

\* What a search returns is right whatever was appended and swept meanwhile:
\* in order of similarity, each event once, all of them among the best top_k
\* of the matching rows the mirror had at one moment; a hit that is left out
\* is one whose event the cold store lacked since then, and no other reason
\* makes an answer shorter than the limit or the number of matching rows.
SearchFaithful ==
  (search.st = "hydrate" /\ search.hits = <<>>) =>
    /\ BestHits
    /\ Subsequence(search.out, found.hits)
    /\ \A h \in ToSet(found.hits) \ ToSet(search.out) : h.id \in absent
=============================================================================
