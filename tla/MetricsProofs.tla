--------------------------- MODULE MetricsProofs ---------------------------
(***************************************************************************)
(* Theorems about Metrics, for any finite number of calls and any sources, *)
(* reasons and tokens.                                                     *)
(***************************************************************************)
EXTENDS Metrics, FiniteSetTheorems, TLAPS

-----------------------------------------------------------------------------
(* Counters                                                                *)

\* A call has a job from its begin on.
CallsOK ==
  /\ pc \in [Calls -> {"new", "lookup", "insert", "store", "done"}]
  /\ job \in [Calls -> Counters \cup {NoJob}]
  /\ \A c \in Calls : pc[c] = "new" <=> job[c] = NoJob
  /\ \A c \in Calls : pc[c] = "store" => job[c] \in Errors

MapsOK ==
  /\ count \in [Counters -> Nat]
  /\ accepted_total \in Nat
  /\ known \subseteq Counters

\* The calls whose increment of j is made.
Bumps(j) == {c \in Calls : job[c] = j /\ pc[c] \in {"store", "done"}}

Accepting == {c \in Calls : job[c] \in Accepts}

CountInv == CallsOK /\ MapsOK /\ CountsExact

\* The maps hold different kinds of keys, and NoJob is none of them.
LEMMA CounterFacts ==
  /\ NoJob \notin Counters
  /\ \A j \in Errors : j \in Counters /\ j \notin Accepts /\ j.of \in Sources
                       /\ j.map = "per_source_errors"
  /\ \A j \in Accepts : j \in Counters /\ j \notin Errors
  /\ \A j \in Counters : j \in Errors \/ j \in Accepts
  BY DEF NoJob, Counters, Errors, Accepts

\* Adding a call to a set of calls adds one to its size.
LEMMA OneMore ==
  ASSUME NEW S \in SUBSET Calls, NEW c \in Calls, c \notin S
  PROVE  Cardinality(S \cup {c}) = Cardinality(S) + 1
<1>1. IsFiniteSet(S)
  BY MetricsAssumption, FS_Subset
<1> QED
  BY <1>1, FS_AddElement

\* No call has begun and nothing is counted.
LEMMA CountInit == Init => CountInv
<1> SUFFICES ASSUME Init PROVE CountInv
  OBVIOUS
<1>1. CallsOK /\ MapsOK
  BY CounterFacts DEF Init, CallsOK, MapsOK
<1>2. \A j \in Counters : Bumps(j) = {}
  BY DEF Init, Bumps
<1>3. Accepting = {}
  BY CounterFacts DEF Init, Accepting
<1>4. Cardinality({}) = 0
  BY FS_EmptySet
<1> QED
  BY <1>1, <1>2, <1>3, <1>4 DEF CountInv, CountsExact, Bumps, Accepting, Init

\* Every step keeps the calls, the maps and the counts in step.
LEMMA CountNext == CountInv /\ [Next]_vars => CountInv'
<1> SUFFICES ASSUME CountInv, [Next]_vars PROVE CountInv'
  OBVIOUS
<1> USE DEF CountInv
<1>e. /\ \A j \in Counters : count[j] = Cardinality(Bumps(j))
      /\ accepted_total = Cardinality(Accepting)
  BY DEF CountsExact, Bumps, Accepting
<1>s. /\ \A j \in Counters : Bumps(j) \in SUBSET Calls
      /\ Accepting \in SUBSET Calls
  BY DEF Bumps, Accepting
<1>q. ASSUME CallsOK', MapsOK',
             \A j \in Counters : count'[j] = Cardinality(Bumps(j)'),
             accepted_total' = Cardinality(Accepting')
      PROVE  CountInv'
  BY <1>q DEF CountsExact, Bumps, Accepting
<1>1. ASSUME NEW c \in Calls, NEW j \in Counters, Begin(c, j) PROVE CountInv'
  <2>1. CallsOK'
    BY <1>1, CounterFacts DEF Begin, CallsOK
  <2>2. \A i \in Counters : Bumps(i)' = Bumps(i)
    BY <1>1, CounterFacts DEF Begin, CallsOK, Bumps
  <2>3. CASE j \in Accepts
    <3>1. Accepting' = Accepting \cup {c} /\ c \notin Accepting
      BY <1>1, <2>3, CounterFacts DEF Begin, CallsOK, Accepting
    <3>2. accepted_total' = accepted_total + 1 /\ count' = count /\ known' = known
      BY <1>1, <2>3 DEF Begin
    <3>3. Cardinality(Accepting') = accepted_total + 1
      BY <3>1, <1>e, <1>s, OneMore
    <3> QED
      BY <2>1, <2>2, <3>2, <3>3, <1>e, <1>q DEF MapsOK
  <2>4. CASE j \notin Accepts
    <3>1. Accepting' = Accepting
      BY <1>1, <2>4, CounterFacts DEF Begin, CallsOK, Accepting
    <3>2. accepted_total' = accepted_total + 0 /\ count' = count /\ known' = known
      BY <1>1, <2>4 DEF Begin
    <3> QED
      BY <2>1, <2>2, <3>1, <3>2, <1>e, <1>q DEF MapsOK
  <2> QED
    BY <2>3, <2>4
<1>2. ASSUME NEW c \in Calls, Bump(c) \/ Insert(c) PROVE CountInv'
  <2>1. /\ pc[c] \in {"lookup", "insert"} /\ job[c] \in Counters
        /\ count' = [count EXCEPT ![job[c]] = @ + 1]
        /\ job' = job /\ accepted_total' = accepted_total
        /\ \E st \in {"store", "done"} :
             pc' = [pc EXCEPT ![c] = st] /\ (st = "store" => job[c] \in Errors)
    BY <1>2 DEF Bump, Insert, CallsOK, MapsOK
  <2>2. CallsOK' /\ Accepting' = Accepting
    BY <2>1, CounterFacts DEF CallsOK, Accepting
  <2>3. MapsOK'
    BY <2>1, <1>2 DEF MapsOK, Bump, Insert
  <2>4. ASSUME NEW i \in Counters, i # job[c]
        PROVE  count'[i] = count[i] /\ Bumps(i)' = Bumps(i)
    BY <2>1, <2>4 DEF CallsOK, MapsOK, Bumps
  <2>5. Bumps(job[c])' = Bumps(job[c]) \cup {c} /\ c \notin Bumps(job[c])
    BY <2>1 DEF CallsOK, Bumps
  <2>6. Cardinality(Bumps(job[c])') = Cardinality(Bumps(job[c])) + 1
    BY <2>1, <2>5, <1>s, OneMore
  <2>7. count'[job[c]] = count[job[c]] + 1
    BY <2>1 DEF MapsOK
  <2>8. \A i \in Counters : count'[i] = Cardinality(Bumps(i)')
    BY <2>1, <2>4, <2>6, <2>7, <1>e
  <2> QED
    BY <2>1, <2>2, <2>3, <2>8, <1>e, <1>q
<1>3. ASSUME NEW c \in Calls, Store(c) \/ Miss(c) PROVE CountInv'
  <2>1. CallsOK' /\ MapsOK'
    BY <1>3, CounterFacts DEF Store, Miss, CallsOK, MapsOK
  <2>2. \A i \in Counters : Bumps(i)' = Bumps(i)
    BY <1>3 DEF Store, Miss, CallsOK, Bumps
  <2>3. Accepting' = Accepting /\ count' = count /\ accepted_total' = accepted_total
    BY <1>3 DEF Store, Miss, Accepting
  <2> QED
    BY <2>1, <2>2, <2>3, <1>e, <1>q
<1>4. ASSUME UNCHANGED <<accepted_total, known, count, pc, job>> PROVE CountInv'
  BY <1>4 DEF CallsOK, MapsOK, CountsExact
<1> QED
  BY <1>1, <1>2, <1>3, <1>4
  DEF Next, Call, Digest, Tick, DigestBegin, DigestLoad, DigestEnd, vars

\* No increment is lost or made twice, however many calls race to insert the
\* counter: the slow path of inc_in_map and inc_source_error looks again.
THEOREM CountsAreExact == Spec => []CountsExact
<1>1. CountInv => CountsExact
  BY DEF CountInv
<1> QED
  BY CountInit, CountNext, <1>1, PTL DEF Spec

-----------------------------------------------------------------------------
(* Times                                                                   *)

\* The errors of source s that have been recorded.
Recorded(s) == {c \in Done : job[c] \in Errors /\ job[c].of = s}

\* No call reads a time that is still to come, and a call reads no earlier
\* time than those that were over when it began.
ClockInv ==
  /\ clock \in Nat
  /\ now \in [Calls -> Nat]
  /\ \A c \in Calls : now[c] <= clock
  /\ after \in [Calls -> SUBSET Calls]
  /\ \A w \in Calls : \A c \in after[w] : now[c] <= now[w] /\ pc[c] # "new"
  /\ last \in [Sources -> Int]

\* The time in an entry is one of the errors recorded there, and only an
\* overlapping call leaves an earlier one.
LastInv ==
  \A s \in Sources :
    /\ KnownOf(s) # {} => \E c \in Recorded(s) : now[c] = last[s]
    /\ \A c \in Recorded(s) : last[s] < now[c] =>
         \E w \in Recorded(s) : now[w] = last[s] /\ c \notin after[w]

TimeInv == ClockInv /\ LastInv

\* The steps that record an error of source s at its time.
Records(c, s) ==
  /\ pc[c] \in {"store", "insert"}
  /\ job[c] \in Errors /\ job[c].of = s
  /\ pc' = [pc EXCEPT ![c] = "done"]
  /\ last' = [last EXCEPT ![s] = now[c]]
  /\ known' \in {known, known \cup {job[c]}}
  /\ UNCHANGED <<clock, job, now, after>>

\* Nothing has been recorded.
LEMMA TimeInit == Init => TimeInv
<1> SUFFICES ASSUME Init PROVE TimeInv
  OBVIOUS
<1>1. ClockInv
  BY DEF Init, ClockInv
<1>2. \A s \in Sources : Recorded(s) = {} /\ KnownOf(s) = {}
  BY DEF Init, Recorded, Done, KnownOf
<1> QED
  BY <1>1, <1>2 DEF TimeInv, LastInv

\* Times keep their order.
LEMMA ClockNext == CountInv /\ ClockInv /\ [Next]_vars => ClockInv'
<1> SUFFICES ASSUME CountInv, ClockInv, [Next]_vars PROVE ClockInv'
  OBVIOUS
<1> USE DEF CountInv
<1>1. ASSUME NEW c \in Calls, NEW j \in Counters, Begin(c, j) PROVE ClockInv'
  <2>1. /\ clock' = clock /\ last' = last /\ pc[c] = "new"
        /\ pc' = [pc EXCEPT ![c] = "lookup"]
        /\ now' = [now EXCEPT ![c] = clock]
        /\ after' = [after EXCEPT ![c] = Done]
    BY <1>1 DEF Begin
  <2>2. Done \in SUBSET Calls /\ \A d \in Done : d # c /\ pc[d] # "new"
    BY <2>1 DEF Done
  <2>3. now' \in [Calls -> Nat] /\ after' \in [Calls -> SUBSET Calls]
    BY <2>1, <2>2 DEF ClockInv
  <2>4. \A d \in Calls : now'[d] <= clock'
    BY <2>1 DEF ClockInv
  <2>5. ASSUME NEW w \in Calls, NEW d \in after'[w]
        PROVE  now'[d] <= now'[w] /\ pc'[d] # "new"
    <3>1. d \in Calls /\ d # c /\ pc[d] # "new"
      BY <2>1, <2>2, <2>5 DEF ClockInv
    <3>2. CASE w = c
      BY <3>1, <3>2, <2>1 DEF ClockInv, CallsOK
    <3>3. CASE w # c
      BY <3>1, <3>3, <2>1, <2>5 DEF ClockInv, CallsOK
    <3> QED
      BY <3>2, <3>3
  <2> QED
    BY <2>1, <2>3, <2>4, <2>5 DEF ClockInv
<1>2. ASSUME NEW c \in Calls, Bump(c) \/ Store(c) \/ Miss(c) \/ Insert(c)
      PROVE  ClockInv'
  <2>1. /\ clock' = clock /\ now' = now /\ after' = after
        /\ \E st \in {"store", "done", "insert"} : pc' = [pc EXCEPT ![c] = st]
    BY <1>2 DEF Bump, Store, Miss, Insert
  <2>2. \A d \in Calls : pc[d] # "new" => pc'[d] # "new"
    BY <2>1 DEF CallsOK
  <2>3. last' \in [Sources -> Int]
    BY <1>2, CounterFacts
    DEF Bump, Store, Miss, Insert, Stamped, ClockInv, CallsOK
  <2> QED
    BY <2>1, <2>2, <2>3 DEF ClockInv
<1>3. CASE Tick
  BY <1>3 DEF Tick, ClockInv
<1>4. ASSUME UNCHANGED <<clock, last, pc, now, after>> PROVE ClockInv'
  BY <1>4 DEF ClockInv
<1> QED
  BY <1>1, <1>2, <1>3, <1>4
  DEF Next, Call, Digest, DigestBegin, DigestLoad, DigestEnd, vars

\* A call that records an error leaves its own time, which the calls that
\* were over when it began do not exceed.
LEMMA RecordsTime ==
  ASSUME CountInv, ClockInv, LastInv, NEW c \in Calls, NEW s \in Sources,
         Records(c, s)
  PROVE  LastInv'
<1> USE DEF CountInv
<1>1. Done' = Done \cup {c}
  BY DEF Records, Done, CallsOK
<1>2. Recorded(s)' = Recorded(s) \cup {c}
  BY <1>1 DEF Records, Recorded
<1>3. ASSUME NEW t \in Sources, t # s
      PROVE  /\ Recorded(t)' = Recorded(t) /\ last'[t] = last[t]
             /\ KnownOf(t)' = KnownOf(t)
  BY <1>1, <1>3 DEF Records, Recorded, ClockInv, KnownOf
<1>4. last'[s] = now[c] /\ now' = now /\ after' = after
  BY DEF Records, ClockInv
<1>5. \A d \in Recorded(s) : now[c] < now[d] => d \notin after[c]
  BY DEF ClockInv, Recorded, Done
<1>6. /\ \E d \in Recorded(s)' : now'[d] = last'[s]
      /\ \A d \in Recorded(s)' : last'[s] < now'[d] =>
           \E w \in Recorded(s)' : now'[w] = last'[s] /\ d \notin after'[w]
  BY <1>2, <1>4, <1>5 DEF ClockInv
<1>7. ASSUME NEW t \in Sources, t # s
      PROVE  /\ KnownOf(t)' # {} => \E d \in Recorded(t)' : now'[d] = last'[t]
             /\ \A d \in Recorded(t)' : last'[t] < now'[d] =>
                  \E w \in Recorded(t)' : now'[w] = last'[t] /\ d \notin after'[w]
  BY <1>3, <1>4, <1>7 DEF LastInv
<1> QED
  BY <1>6, <1>7 DEF LastInv

\* Other steps leave recorded errors and their times alone.
LEMMA RecordsNone ==
  ASSUME LastInv, last' = last,
         \A s \in Sources : Recorded(s)' = Recorded(s) /\ KnownOf(s)' = KnownOf(s),
         \A d \in Done : now'[d] = now[d] /\ after'[d] = after[d]
  PROVE  LastInv'
<1>1. \A s \in Sources : Recorded(s) \subseteq Done
  BY DEF Recorded
<1> QED
  BY <1>1 DEF LastInv

\* The entries keep the time of an error that may be their last.
LEMMA LastNext == CountInv /\ TimeInv /\ [Next]_vars => LastInv'
<1> SUFFICES ASSUME CountInv, TimeInv, [Next]_vars PROVE LastInv'
  OBVIOUS
<1> USE DEF CountInv, TimeInv
<1>1. ASSUME NEW c \in Calls, NEW j \in Counters, Begin(c, j) PROVE LastInv'
  <2>1. /\ last' = last /\ known' = known /\ pc[c] = "new"
        /\ pc' = [pc EXCEPT ![c] = "lookup"] /\ job' = [job EXCEPT ![c] = j]
        /\ now' = [now EXCEPT ![c] = clock] /\ after' = [after EXCEPT ![c] = Done]
    BY <1>1 DEF Begin
  <2>2. Done' = Done /\ c \notin Done
    BY <2>1 DEF Done, CallsOK
  <2>3. \A d \in Done : job'[d] = job[d] /\ now'[d] = now[d] /\ after'[d] = after[d]
    BY <2>1, <2>2 DEF Done, CallsOK, ClockInv
  <2>4. \A s \in Sources : Recorded(s)' = Recorded(s) /\ KnownOf(s)' = KnownOf(s)
    BY <2>1, <2>2, <2>3 DEF Recorded, KnownOf
  <2> QED
    BY <2>1, <2>3, <2>4, RecordsNone
<1>2. ASSUME NEW c \in Calls, job[c] \in Errors, Store(c) \/ Insert(c) PROVE LastInv'
  <2>1. job[c].of \in Sources /\ Records(c, job[c].of)
    BY <1>2, CounterFacts DEF Store, Insert, Stamped, Records
  <2> QED
    BY <2>1, RecordsTime
<1>3. ASSUME NEW c \in Calls,
             \/ Bump(c) \/ Miss(c)
             \/ (job[c] \notin Errors /\ Insert(c))
      PROVE  LastInv'
  <2>1. /\ last' = last /\ now' = now /\ after' = after /\ job' = job
        /\ pc[c] \in {"lookup", "insert"}
        /\ \/ pc' = [pc EXCEPT ![c] = "done"] /\ job[c] \notin Errors
           \/ \E st \in {"store", "insert"} : pc' = [pc EXCEPT ![c] = st]
        /\ \/ known' = known
           \/ known' = known \cup {job[c]} /\ job[c] \notin Errors
    BY <1>3 DEF Bump, Miss, Insert, Stamped
  <2>2. \A s \in Sources : Recorded(s)' = Recorded(s)
    BY <2>1 DEF Recorded, Done, CallsOK
  <2>3. \A s \in Sources : KnownOf(s)' = KnownOf(s)
    BY <2>1 DEF KnownOf
  <2> QED
    BY <2>1, <2>2, <2>3, RecordsNone
<1>4. ASSUME UNCHANGED <<last, known, pc, job, now, after>> PROVE LastInv'
  BY <1>4 DEF LastInv, Recorded, Done, KnownOf
<1>5. \A c \in Calls : Store(c) => job[c] \in Errors
  BY DEF Store, CallsOK
<1> QED
  BY <1>1, <1>2, <1>3, <1>4, <1>5
  DEF Next, Call, Digest, Tick, DigestBegin, DigestLoad, DigestEnd, vars

-----------------------------------------------------------------------------
(* The digest                                                              *)

\* A counter that counts something is in its map.
KnownInv == \A j \in Counters : count[j] > 0 => j \in known

\* What a digest has loaded so far lies between the counts when it began and
\* those of now, and nothing that counted then is forgotten.
Loaded(left) ==
  /\ digest.of \in Sources
  /\ digest.from \in [Counters -> Nat]
  /\ \A j \in Counters : digest.from[j] <= count[j]
  /\ DOMAIN digest.counters \subseteq Errors
  /\ \A j \in DOMAIN digest.counters :
       digest.counters[j] \in digest.from[j] .. count[j]
  /\ \A j \in Errors : j.of = digest.of /\ digest.from[j] > 0 =>
       j \in left \cup DOMAIN digest.counters

DigestInv ==
  /\ digest.st \in {"none", "reading", "done"}
  /\ digest.st = "reading" =>
       /\ digest = [st |-> "reading", of |-> digest.of,
                    counters |-> digest.counters, from |-> digest.from,
                    left |-> digest.left]
       /\ Loaded(digest.left)
       /\ digest.left \subseteq Errors
       /\ KnownOf(digest.of) # {}
  /\ digest.st = "done" =>
       /\ Loaded({})
       /\ \E c \in Recorded(digest.of) : now[c] = digest.last

MetricsInv == CountInv /\ TimeInv /\ KnownInv /\ DigestInv

\* There is no digest yet.
LEMMA DigestInit == Init => KnownInv /\ DigestInv
  BY DEF Init, KnownInv, DigestInv, NoDigest

\* A counter is inserted before it counts.
LEMMA KnownNext == CountInv /\ KnownInv /\ [Next]_vars => KnownInv'
<1> SUFFICES ASSUME CountInv, KnownInv, [Next]_vars PROVE KnownInv'
  OBVIOUS
<1>1. ASSUME NEW c \in Calls, Bump(c) \/ Insert(c) PROVE KnownInv'
  BY <1>1 DEF Bump, Insert, KnownInv, CountInv, MapsOK
<1>2. ASSUME UNCHANGED <<known, count>> PROVE KnownInv'
  BY <1>2 DEF KnownInv
<1> QED
  BY <1>1, <1>2
  DEF Next, Call, Digest, Tick, Begin, Store, Miss, DigestBegin, DigestLoad,
      DigestEnd, vars

\* Counts, maps and records only grow.
Grows ==
  /\ \A j \in Counters : count'[j] \in Nat /\ count[j] <= count'[j]
  /\ known \subseteq known'
  /\ \A s \in Sources : \A c \in Recorded(s) : c \in Recorded(s)' /\ now'[c] = now[c]

\* So do they in every step.
LEMMA StepGrows == CountInv /\ ClockInv /\ [Next]_vars => Grows
<1> SUFFICES ASSUME CountInv, ClockInv, [Next]_vars PROVE Grows
  OBVIOUS
<1> USE DEF CountInv
<1>0. \A j \in Counters : count[j] \in Nat /\ count[j] <= count[j]
  BY DEF MapsOK
<1>1. ASSUME NEW c \in Calls, NEW j \in Counters, Begin(c, j) PROVE Grows
  <2>1. \A d \in Done : d \in Done' /\ job'[d] = job[d] /\ now'[d] = now[d]
    BY <1>1 DEF Begin, Done, CallsOK, ClockInv
  <2>2. count' = count /\ known' = known
    BY <1>1 DEF Begin
  <2> QED
    BY <2>1, <2>2, <1>0 DEF Grows, Recorded
<1>2. ASSUME NEW c \in Calls, Bump(c) \/ Store(c) \/ Miss(c) \/ Insert(c) PROVE Grows
  <2>1. /\ job' = job /\ now' = now /\ pc[c] # "done"
        /\ \E st \in {"store", "done", "insert"} : pc' = [pc EXCEPT ![c] = st]
    BY <1>2 DEF Bump, Store, Miss, Insert
  <2>2. Done \subseteq Done'
    BY <2>1 DEF Done, CallsOK
  <2>3. \/ count' = count
        \/ count' = [count EXCEPT ![job[c]] = @ + 1]
    BY <1>2 DEF Bump, Store, Miss, Insert
  <2>4. \A j \in Counters : count'[j] \in Nat /\ count[j] <= count'[j]
    BY <2>3, <1>0 DEF MapsOK
  <2>5. known \subseteq known'
    BY <1>2 DEF Bump, Store, Miss, Insert
  <2> QED
    BY <2>1, <2>2, <2>4, <2>5 DEF Grows, Recorded
<1>3. ASSUME UNCHANGED <<count, known, pc, job, now>> PROVE Grows
  BY <1>3, <1>0 DEF Grows, Recorded, Done
<1> QED
  BY <1>1, <1>2, <1>3
  DEF Next, Call, Digest, Tick, DigestBegin, DigestLoad, DigestEnd, vars

\* A digest under way stays right when others count on.
LEMMA DigestWaits ==
  ASSUME CountInv, DigestInv, Grows, digest' = digest PROVE DigestInv'
<1>1. ASSUME NEW left, Loaded(left), left' = left PROVE Loaded(left)'
  <2>1. \A j \in Counters : digest.from[j] <= count'[j]
    BY <1>1 DEF Loaded, Grows, CountInv, MapsOK
  <2>2. ASSUME NEW j \in DOMAIN digest.counters
        PROVE  digest.counters[j] \in digest.from[j] .. count'[j]
    BY <1>1, <2>2, CounterFacts DEF Loaded, Grows, CountInv, MapsOK
  <2> QED
    BY <1>1, <2>1, <2>2 DEF Loaded
<1>2. digest.of \in Sources => KnownOf(digest.of) \subseteq KnownOf(digest.of)'
  BY DEF Grows, KnownOf
<1>3. CASE digest.st = "reading"
  <2>1. Loaded(digest.left)'
    BY <1>1, <1>3 DEF DigestInv
  <2> QED
    BY <1>2, <1>3, <2>1 DEF DigestInv, Loaded
<1>4. CASE digest.st = "done"
  <2>1. Loaded({})'
    BY <1>1, <1>4 DEF DigestInv
  <2>2. \E c \in Recorded(digest.of)' : now'[c] = digest.last
    BY <1>4 DEF DigestInv, Grows, Loaded
  <2> QED
    BY <1>4, <2>1, <2>2 DEF DigestInv
<1>5. CASE digest.st = "none"
  BY <1>5 DEF DigestInv
<1> QED
  BY <1>3, <1>4, <1>5 DEF DigestInv

\* Every step keeps the digest within its bounds.
LEMMA DigestNext == MetricsInv /\ [Next]_vars => DigestInv'
<1> SUFFICES ASSUME MetricsInv, [Next]_vars PROVE DigestInv'
  OBVIOUS
<1> USE DEF MetricsInv
<1>g. Grows
  BY StepGrows DEF TimeInv
<1>n. count \in [Counters -> Nat] /\ known \subseteq Counters
  BY DEF CountInv, MapsOK
<1>1. ASSUME NEW s \in Sources, DigestBegin(s) PROVE DigestInv'
  <2>1. /\ digest' = [st |-> "reading", of |-> s, counters |-> <<>>,
                      from |-> count, left |-> KnownOf(s)]
        /\ KnownOf(s) # {} /\ count' = count /\ known' = known
    BY <1>1 DEF DigestBegin
  <2>2. DOMAIN digest'.counters = {}
    BY <2>1
  <2>3. \A j \in Errors : j.of = s /\ count[j] > 0 => j \in KnownOf(s)
    BY CounterFacts DEF KnownInv, KnownOf
  <2>4. Loaded(digest.left)'
    BY <2>1, <2>2, <2>3, <1>n DEF Loaded
  <2>5. digest'.left \subseteq Errors /\ KnownOf(digest.of)' # {}
    BY <2>1 DEF KnownOf
  <2> QED
    BY <2>1, <2>4, <2>5 DEF DigestInv
<1>2. ASSUME NEW j \in Errors, DigestLoad(j) PROVE DigestInv'
  <2> DEFINE read == IF count[j] = 0 THEN digest.counters
                     ELSE [k \in DOMAIN digest.counters \cup {j} |->
                             IF k = j THEN count[j] ELSE digest.counters[k]]
  <2>0. digest.st = "reading" /\ j \in digest.left /\ j \in Counters
    BY <1>2, CounterFacts DEF DigestLoad
  <2>1. /\ digest' = [st |-> "reading", of |-> digest.of, counters |-> read,
                      from |-> digest.from, left |-> digest.left \ {j}]
        /\ count' = count /\ known' = known
    BY <1>2, <2>0 DEF DigestLoad, DigestInv
  <2>2. Loaded(digest.left)
    BY <2>0 DEF DigestInv
  <2>3. digest.from[j] \in Nat /\ digest.from[j] <= count[j] /\ count[j] \in Nat
    BY <2>0, <2>2, <1>n DEF Loaded
  <2>4. /\ DOMAIN read \subseteq Errors
        /\ \A k \in DOMAIN read : read[k] \in digest.from[k] .. count[k]
        /\ DOMAIN digest.counters \subseteq DOMAIN read
        /\ count[j] # 0 => j \in DOMAIN read
    BY <2>2, <2>3 DEF Loaded
  <2>5. \A k \in Errors : k.of = digest.of /\ digest.from[k] > 0 =>
          k \in (digest.left \ {j}) \cup DOMAIN read
    BY <2>2, <2>3, <2>4 DEF Loaded
  <2>6. /\ digest'.st = "reading" /\ digest'.of = digest.of
        /\ digest'.counters = read /\ digest'.from = digest.from
        /\ digest'.left = digest.left \ {j}
    BY <2>1
  <2> HIDE DEF read
  <2>7. Loaded(digest.left)'
    BY <2>1, <2>2, <2>4, <2>5, <2>6 DEF Loaded
  <2>8. KnownOf(digest.of)' = KnownOf(digest.of)
    BY <2>1, <2>6 DEF KnownOf
  <2> QED
    BY <2>0, <2>1, <2>6, <2>7, <2>8 DEF DigestInv
<1>3. CASE DigestEnd
  <2>0. digest.st = "reading" /\ digest.left = {} /\ Loaded({}) /\ UNCHANGED <<count, pc, job, now>>
    BY <1>3 DEF DigestEnd, DigestInv
  <2>1. CASE digest' = NoDigest
    BY <2>1 DEF DigestInv, NoDigest
  <2>2. CASE digest' = [st |-> "done", of |-> digest.of,
                        counters |-> digest.counters, from |-> digest.from,
                        last |-> last[digest.of]]
    <3>1. Loaded({})'
      BY <2>0, <2>2 DEF Loaded
    <3>2. \E c \in Recorded(digest.of) : now[c] = last[digest.of]
      BY <2>0 DEF DigestInv, TimeInv, LastInv, Loaded
    <3>3. Recorded(digest.of)' = Recorded(digest.of)
      BY <2>0, <2>2 DEF Recorded, Done
    <3> QED
      BY <2>0, <2>2, <3>1, <3>2, <3>3 DEF DigestInv
  <2> QED
    BY <2>1, <2>2, <1>3 DEF DigestEnd
<1>4. ASSUME UNCHANGED digest PROVE DigestInv'
  BY <1>4, <1>g, DigestWaits
<1> QED
  BY <1>1, <1>2, <1>3, <1>4
  DEF Next, Call, Digest, Tick, Begin, Bump, Store, Miss, Insert, vars

\* A digest of recent_errors, though it reads counter by counter while they
\* are bumped, lies between what was recorded when it was asked for and what
\* is recorded by now, and its time is that of a recorded error.
THEOREM DigestsAreSound == Spec => []DigestSound
<1>1. MetricsInv => DigestSound
  <2> SUFFICES ASSUME MetricsInv, digest.st = "done" PROVE DigestSound
    BY DEF DigestSound
  <2>1. Loaded({}) /\ digest.of \in Sources
    BY DEF MetricsInv, DigestInv, Loaded
  <2>2. /\ \E c \in Recorded(digest.of) : now[c] = digest.last
        /\ \A c \in Recorded(digest.of) : last[digest.of] < now[c] =>
             \E w \in Recorded(digest.of) : now[w] = last[digest.of] /\ c \notin after[w]
    BY <2>1 DEF MetricsInv, DigestInv, TimeInv, LastInv
  <2> QED
    BY <2>1, <2>2 DEF DigestSound, Loaded, Recorded
<1>2. Init => MetricsInv
  BY CountInit, TimeInit, DigestInit DEF MetricsInv
<1>3. MetricsInv /\ [Next]_vars => MetricsInv'
  BY CountNext, ClockNext, LastNext, KnownNext, DigestNext DEF MetricsInv, TimeInv
<1> QED
  BY <1>1, <1>2, <1>3, PTL DEF Spec
=============================================================================
