--------------------------- MODULE FederationProofs ---------------------------
(***************************************************************************)
(* Theorems about Federation, for any nodes and peer relation (cycles      *)
(* included), any number of hops, events and restarts.                     *)
(***************************************************************************)
EXTENDS Federation, WellFoundedInduction, TLAPS

\* Every non-empty set of natural numbers has a least element.
LEMMA NatMin ==
  ASSUME NEW T \in SUBSET Nat, T # {}
  PROVE  \E x \in T : \A y \in T : x <= y
<1>1. PICK x \in T : \A y \in T : ~(<<y, x>> \in OpToRel(<, Nat))
  BY NatLessThanWellFounded, WFMin
<1>2. ASSUME NEW y \in T PROVE x <= y
  <2>1. y < x => <<y, x>> \in OpToRel(<, Nat)
    BY DEF OpToRel
  <2>2. ~(y < x)
    BY <2>1, <1>1, Zenon
  <2>3. x \in Nat /\ y \in Nat
    OBVIOUS
  <2> QED
    BY <2>2, <2>3, SMT
<1> QED
  BY <1>2

-----------------------------------------------------------------------------
(* Types                                                                   *)

Row == [node : Nodes, event : Nat, from_cold : BOOLEAN, peer : Nodes \cup {Null}]

ServerStates == {"idle", "sent", "cold", "fan", "gone"} \cup Served
ClientStates == {"none", "pending", "reading", "dropped"} \cup Resolved

TypeInv ==
  /\ newest \in [Nodes -> Nat] /\ ring \in [Nodes -> Nat]
  /\ unflushed \in [Nodes -> SUBSET Nat] /\ cold \in [Nodes -> Nat]
  /\ lost \in [Nodes -> Nat] /\ before \in [Nodes -> Nat]
  /\ server \in [Paths -> ServerStates]
  /\ client \in [Paths -> ClientStates]
  /\ rows \in [Paths -> SUBSET Row]

\* The ring holds the newest event, unless nothing was published since the
\* last restart; what a restart lost and what the question found was
\* published.
StoreInv ==
  \A n \in Nodes : /\ ring[n] = newest[n] \/ (ring[n] = NoEvent /\ newest[n] <= lost[n])
                   /\ lost[n] <= newest[n] /\ before[n] <= newest[n]

\* Before a node fans out, and when it never does, nothing has been asked of
\* its peers; and nothing is asked before Root is.
HopInv ==
  /\ \A p \in Paths : \A c \in Children[p] :
       server[p] \in {"idle", "sent", "cold", "refused", "failed"} =>
         server[c] = "idle" /\ client[c] = "none"
  /\ server[Asked] = "idle" => \A p \in Paths : server[p] = "idle"

\* A peer counts as ok when it has answered.
OkInv == \A p \in Paths : client[p] = "ok" => server[p] = "answered"

\* While the peers are asked, the rows are the node's own.
FanInv ==
  \A p \in Paths : server[p] = "fan" =>
    \A r \in rows[p] : r.peer = Null /\ r.node = Last(p)

\* describe_sources lists the node itself.
SelfInv ==
  \A p \in Paths : server[p] \in {"fan", "answered"} /\ tool = "describe_sources" =>
    \E r \in rows[p] : r.node = Last(p)

\* Only get_current_state asks the cold store.
ColdInv == \A p \in Paths : server[p] = "cold" => tool = "get_current_state"

CoverageInv == HopInv /\ OkInv /\ FanInv /\ SelfInv /\ ColdInv /\ PartialCoverageShows

\* What CurrentIsRecent says of one row.
Recent(r) ==
  \/ r.event >= before[r.node] /\ (r.from_cold => before[r.node] <= lost[r.node])
  \/ r.from_cold /\ before[r.node] <= lost[r.node]

\* The same at every node that is asked, as far as it has got: a miss of the
\* ring means that nothing was published since the last restart.
RecencyInv ==
  tool = "get_current_state" =>
    \A p \in Paths :
      /\ server[p] = "cold" => before[Last(p)] <= lost[Last(p)]
      /\ server[p] \in {"fan", "answered"} =>
           /\ \A r \in rows[p] : Recent(r)
           /\ before[Last(p)] > lost[Last(p)] =>
                \E r \in rows[p] : r.node = Last(p) /\ ~r.from_cold

-----------------------------------------------------------------------------
(* Paths                                                                   *)

\* A path is a sequence of nodes.
LEMMA PathType ==
  ASSUME NEW p \in Paths
  PROVE  p \in Seq(Nodes) /\ Len(p) \in Nat /\ Len(p) >= 1 /\ Last(p) \in Nodes
<1>1. PICK n \in 1 .. MaxHops : p \in [1 .. n -> Nodes]
  BY DEF Paths
<1>2. p \in Seq(Nodes) /\ Len(p) = n
  BY <1>1, FederationAssumption
<1> QED
  BY <1>1, <1>2, FederationAssumption DEF Last

\* The question itself is a path.
LEMMA AskedIsPath == Asked \in Paths /\ Len(Asked) = 1 /\ Last(Asked) = Root
<1>1. 1 \in 1 .. MaxHops
  BY FederationAssumption
<1>2. Asked \in [1 .. 1 -> Nodes] /\ Asked[1] = Root
  BY FederationAssumption DEF Asked
<1>3. \A i \in 1 .. 1 - 1 : Asked[i + 1] \in PeersOf[Asked[i]]
  OBVIOUS
<1>4. Asked \in Paths
  BY <1>1, <1>2, <1>3 DEF Paths
<1> QED
  BY <1>4 DEF Asked, Last

\* Calls form a tree: a call has one caller, and a caller's calls go to
\* different peers.
LEMMA ChildFacts ==
  ASSUME NEW p \in Paths, NEW c \in Children[p]
  PROVE  /\ c \in Paths /\ Front(c) = p /\ c # Asked /\ c # p
         /\ Last(c) \in Nodes /\ Last(c) # Null
         /\ \A q \in Paths : c \in Children[q] => q = p
         /\ \A d \in Children[p] : Last(c) = Last(d) => c = d
<1>1. \A q \in Paths : \A d \in Children[q] : d \in Paths /\ Len(d) = Len(q) + 1 /\ Front(d) = q
  BY DEF Children
<1>2. c \in Paths /\ Front(c) = p /\ Last(c) \in Nodes /\ Len(c) = Len(p) + 1
  BY <1>1, PathType
<1>3. c # Asked /\ c # p
  BY <1>2, PathType, AskedIsPath
<1>4. ASSUME NEW d \in Children[p], Last(c) = Last(d) PROVE c = d
  <2>1. c \in Seq(Nodes) /\ d \in Seq(Nodes) /\ Len(c) = Len(p) + 1 /\ Len(d) = Len(p) + 1
        /\ Len(p) \in Nat /\ Front(d) = p
    BY <1>1, <1>2, PathType
  <2>2. \A i \in 1 .. Len(p) : c[i] = Front(c)[i] /\ d[i] = Front(d)[i]
    BY <2>1 DEF Front
  <2>3. \A i \in 1 .. Len(p) + 1 : c[i] = d[i]
    BY <1>2, <1>4, <2>1, <2>2 DEF Last
  <2> QED
    BY <2>1, <2>3
<1> QED
  BY <1>1, <1>2, <1>3, <1>4, FederationAssumption

-----------------------------------------------------------------------------
(* Every step keeps the types                                              *)

\* The rows of a merge: the node's own, and those of the peers that answered.
LEMMA MergedRows ==
  ASSUME TypeInv, NEW p \in Paths
  PROVE  /\ Merged(p) \subseteq Row /\ rows[p] \subseteq Merged(p)
         /\ \A c \in Children[p] : client[c] = "ok" =>
              \A r \in rows[c] : \E m \in Merged(p) :
                /\ m.node = r.node /\ m.event = r.event /\ m.from_cold = r.from_cold
                /\ m.peer = Last(c)
         /\ \A m \in Merged(p) \ rows[p] : \E c \in Children[p] :
              /\ client[c] = "ok" /\ m.peer = Last(c)
              /\ \E r \in rows[c] : /\ m.node = r.node /\ m.event = r.event
                                     /\ m.from_cold = r.from_cold
<1>1. \A c \in Children[p] : c \in Paths /\ Last(c) \in Nodes
  BY ChildFacts
<1>2. \A c \in Children[p] : rows[c] \subseteq Row
  BY <1>1 DEF TypeInv
<1>3. ASSUME NEW r \in Row, NEW x \in Nodes
      PROVE  /\ [r EXCEPT !.peer = x] \in Row /\ [r EXCEPT !.peer = x].peer = x
             /\ [r EXCEPT !.peer = x].node = r.node /\ [r EXCEPT !.peer = x].event = r.event
             /\ [r EXCEPT !.peer = x].from_cold = r.from_cold
  BY DEF Row
<1>4. \A m : m \in Merged(p) <=>
        m \in rows[p] \/ \E c \in Children[p] : client[c] = "ok" /\
                            \E r \in rows[c] : m = [r EXCEPT !.peer = Last(c)]
  BY DEF Merged
<1>5. rows[p] \subseteq Row
  BY DEF TypeInv
<1>6. Merged(p) \subseteq Row
  BY <1>1, <1>2, <1>3, <1>4, <1>5
<1>7. ASSUME NEW c \in Children[p], client[c] = "ok", NEW r \in rows[c]
      PROVE  \E m \in Merged(p) :
                /\ m.node = r.node /\ m.event = r.event /\ m.from_cold = r.from_cold
                /\ m.peer = Last(c)
  <2>1. [r EXCEPT !.peer = Last(c)] \in Merged(p)
    BY <1>4, <1>7
  <2> QED
    BY <1>1, <1>2, <1>3, <2>1
<1>8. ASSUME NEW m \in Merged(p) \ rows[p]
      PROVE  \E c \in Children[p] :
              /\ client[c] = "ok" /\ m.peer = Last(c)
              /\ \E r \in rows[c] : /\ m.node = r.node /\ m.event = r.event
                                     /\ m.from_cold = r.from_cold
  <2>1. PICK c \in Children[p] : client[c] = "ok" /\
                            \E r \in rows[c] : m = [r EXCEPT !.peer = Last(c)]
    BY <1>4
  <2>2. PICK r \in rows[c] : m = [r EXCEPT !.peer = Last(c)]
    BY <2>1
  <2>3. r \in Row /\ Last(c) \in Nodes
    BY <1>1, <1>2
  <2>4. /\ m.peer = Last(c) /\ m.node = r.node /\ m.event = r.event
        /\ m.from_cold = r.from_cold
    BY <1>3, <2>2, <2>3
  <2> QED
    BY <2>1, <2>4
<1> QED
  BY <1>4, <1>6, <1>7, <1>8

\* The handler calls the peers.
LEMMA FanOutType ==
  ASSUME TypeInv, NEW p \in Paths, NEW own \in SUBSET Row, FanOut(p, own),
         UNCHANGED <<storeVars, before>>
  PROVE  TypeInv'
BY DEF TypeInv, FanOut, storeVars, ServerStates, ClientStates

\* Every step keeps the types.
LEMMA TypeNext == TypeInv /\ [Next]_vars => TypeInv'
<1> SUFFICES ASSUME TypeInv, [Next]_vars PROVE TypeInv'
  OBVIOUS
<1>1. CASE Ask
  BY <1>1, AskedIsPath DEF Ask, TypeInv, ServerStates
<1>2. ASSUME NEW n \in Nodes, Publish(n) PROVE TypeInv'
  BY <1>2 DEF Publish, TypeInv
<1>3. ASSUME NEW n \in Nodes, Flush(n) PROVE TypeInv'
  <2>1. Min(unflushed[n]) \in unflushed[n]
    <3>1. unflushed[n] \in SUBSET Nat /\ unflushed[n] # {}
      BY <1>3 DEF Flush, TypeInv
    <3>2. \E x \in unflushed[n] : \A y \in unflushed[n] : x <= y
      BY <3>1, NatMin
    <3> QED
      BY <3>2 DEF Min
  <2>2. Min(unflushed[n]) \in Nat
    BY <2>1 DEF TypeInv
  <2>3. cold' \in [Nodes -> Nat] /\ unflushed' \in [Nodes -> SUBSET Nat]
    BY <1>3, <2>2 DEF Flush, TypeInv
  <2> QED
    BY <1>3, <2>3 DEF Flush, TypeInv
<1>4. ASSUME NEW n \in Nodes, Restart(n) PROVE TypeInv'
  BY <1>4 DEF Restart, TypeInv, NoEvent, ServerStates, ClientStates
<1>5. ASSUME NEW p \in Paths, Refuse(p) \/ Fail(p) \/ MissRing(p) PROVE TypeInv'
  BY <1>5 DEF Refuse, Fail, MissRing, TypeInv, storeVars, ServerStates, Served
<1>6. ASSUME NEW p \in Paths, Describe(p) \/ ReadRing(p) \/ ReadCold(p) PROVE TypeInv'
  <2>1. ASSUME NEW e \in Nat, NEW isCold \in BOOLEAN
        PROVE  OwnRow(Last(p), e, isCold) \in Row
    BY PathType DEF OwnRow, Row
  <2>2. /\ ring[Last(p)] \in Nat /\ cold[Last(p)] \in Nat /\ NoEvent \in Nat
    BY PathType DEF TypeInv, NoEvent
  <2>3. \E own \in SUBSET Row : FanOut(p, own) /\ UNCHANGED <<storeVars, before>>
    <3>1. CASE Describe(p)
      <4>1. {OwnRow(Last(p), NoEvent, FALSE)} \in SUBSET Row
        BY <2>1, <2>2
      <4> QED
        BY <3>1, <4>1 DEF Describe
    <3>2. CASE ReadRing(p)
      <4>1. {OwnRow(Last(p), ring[Last(p)], FALSE)} \in SUBSET Row
        BY <2>1, <2>2
      <4> QED
        BY <3>2, <4>1 DEF ReadRing
    <3>3. CASE ReadCold(p)
      <4>1. (IF cold[Last(p)] = NoEvent THEN {}
             ELSE {OwnRow(Last(p), cold[Last(p)], TRUE)}) \in SUBSET Row
        BY <2>1, <2>2
      <4> QED
        BY <3>3, <4>1 DEF ReadCold
    <3> QED
      BY <1>6, <3>1, <3>2, <3>3
  <2> QED
    BY <2>3, FanOutType
<1>7. ASSUME NEW p \in Paths, Join(p) PROVE TypeInv'
  <2>1. Merged(p) \subseteq Row
    BY MergedRows
  <2> QED
    BY <1>7, <2>1 DEF Join, TypeInv, storeVars, ServerStates, Served
<1>8. ASSUME NEW p \in Paths, Headers(p) \/ Body(p) \/ ConnectionFails(p) \/ Timeout(p)
      PROVE  TypeInv'
  <2>1. PICK status \in ClientStates : Becomes(p, status)
    BY <1>8 DEF Headers, Body, ConnectionFails, Timeout, ClientStates, Resolved
  <2> QED
    BY <2>1 DEF Becomes, TypeInv, storeVars
<1>9. ASSUME NEW p \in Paths, Cancel(p) PROVE TypeInv'
  BY <1>9 DEF Cancel, TypeInv, storeVars, ServerStates, ClientStates
<1>10. CASE UNCHANGED vars
  BY <1>10 DEF vars, TypeInv
<1> QED
  BY <1>1, <1>2, <1>3, <1>4, <1>5, <1>6, <1>7, <1>8, <1>9, <1>10
     DEF Next, World, Faults, Progress, Handler, BodyArrives

-----------------------------------------------------------------------------
(* Partial coverage shows                                                  *)

\* What PartialCoverageShows says of one call.
Covered(p) ==
  /\ \A c \in Children[p] :
       /\ client[c] \in Resolved
       /\ client[c] # "ok" => \A r \in rows[p] : r.peer # Last(c)
       /\ client[c] = "ok" =>
            /\ server[c] = "answered"
            /\ \A r \in rows[p] : r.peer = Last(c) => \E s \in rows[c] : s.node = r.node
            /\ \A s \in rows[c] : \E r \in rows[p] : r.peer = Last(c) /\ r.node = s.node
            /\ tool = "describe_sources" => \E r \in rows[p] : r.peer = Last(c) /\ r.node = Last(c)
  /\ \A r \in rows[p] : r.peer = Null => r.node = Last(p)

LEMMA CoveredShows ==
  PartialCoverageShows <=> \A p \in Paths : server[p] = "answered" => Covered(p)
<1>1. ASSUME NEW p, NEW c
      PROVE  LET under == {r \in rows[p] : r.peer = Last(c)}
             IN  /\ under = {} <=> \A r \in rows[p] : r.peer # Last(c)
                 /\ {r.node : r \in under} = {r.node : r \in rows[c]} <=>
                      /\ \A r \in rows[p] : r.peer = Last(c) => \E s \in rows[c] : s.node = r.node
                      /\ \A s \in rows[c] : \E r \in rows[p] : r.peer = Last(c) /\ r.node = s.node
                 /\ (\E r \in under : r.node = Last(c)) <=>
                      \E r \in rows[p] : r.peer = Last(c) /\ r.node = Last(c)
  <2> DEFINE under == {r \in rows[p] : r.peer = Last(c)}
             A == {r.node : r \in under}
             B == {r.node : r \in rows[c]}
  <2>1. A = B <=> (\A r \in under : r.node \in B) /\ (\A s \in rows[c] : s.node \in A)
    <3>1. A = B <=> A \subseteq B /\ B \subseteq A
      OBVIOUS
    <3>2. A \subseteq B <=> \A r \in under : r.node \in B
      OBVIOUS
    <3>3. B \subseteq A <=> \A s \in rows[c] : s.node \in A
      OBVIOUS
    <3> QED
      BY <3>1, <3>2, <3>3
  <2>2. \A x : x \in B <=> \E s \in rows[c] : s.node = x
    OBVIOUS
  <2>3. \A x : x \in A <=> \E r \in rows[p] : r.peer = Last(c) /\ r.node = x
    OBVIOUS
  <2>4. \A r : r \in under <=> r \in rows[p] /\ r.peer = Last(c)
    OBVIOUS
  <2> HIDE DEF A, B
  <2>5. (\A r \in under : r.node \in B) <=>
          \A r \in rows[p] : r.peer = Last(c) => \E s \in rows[c] : s.node = r.node
    BY <2>2, <2>4
  <2>6. (\A s \in rows[c] : s.node \in A) <=>
          \A s \in rows[c] : \E r \in rows[p] : r.peer = Last(c) /\ r.node = s.node
    BY <2>3
  <2>7. under = {} <=> \A r \in rows[p] : r.peer # Last(c)
    OBVIOUS
  <2>8. (\E r \in under : r.node = Last(c)) <=>
          \E r \in rows[p] : r.peer = Last(c) /\ r.node = Last(c)
    OBVIOUS
  <2> QED
    BY <2>1, <2>5, <2>6, <2>7, <2>8 DEF A, B
<1> DEFINE Under(p, c) == {r \in rows[p] : r.peer = Last(c)}
           Shows(p, c) ==
             IF client[c] # "ok" THEN Under(p, c) = {}
             ELSE /\ server[c] = "answered"
                  /\ {r.node : r \in Under(p, c)} = {r.node : r \in rows[c]}
                  /\ tool = "describe_sources" => \E r \in Under(p, c) : r.node = Last(c)
           Shown(p, c) ==
             /\ client[c] # "ok" => \A r \in rows[p] : r.peer # Last(c)
             /\ client[c] = "ok" =>
                  /\ server[c] = "answered"
                  /\ \A r \in rows[p] : r.peer = Last(c) => \E s \in rows[c] : s.node = r.node
                  /\ \A s \in rows[c] : \E r \in rows[p] : r.peer = Last(c) /\ r.node = s.node
                  /\ tool = "describe_sources" =>
                       \E r \in rows[p] : r.peer = Last(c) /\ r.node = Last(c)
<1>2. ASSUME NEW p, NEW c PROVE Shows(p, c) <=> Shown(p, c)
  BY <1>1, ZenonT(40)
<1>3. PartialCoverageShows <=>
        \A p \in Paths : server[p] = "answered" =>
          /\ \A c \in Children[p] : client[c] \in Resolved /\ Shows(p, c)
          /\ \A r \in rows[p] : r.peer = Null => r.node = Last(p)
  BY Zenon DEF PartialCoverageShows
<1>4. \A p : Covered(p) <=>
          /\ \A c \in Children[p] : client[c] \in Resolved /\ Shown(p, c)
          /\ \A r \in rows[p] : r.peer = Null => r.node = Last(p)
  BY Zenon DEF Covered
<1> HIDE DEF Shows, Shown
<1> QED
  BY <1>2, <1>3, <1>4

-----------------------------------------------------------------------------
(* The kinds of steps, as the calls see them                               *)

\* A call is turned away, fails, or goes on to the cold store.
Turn(p, x) ==
  /\ server[p] \in {"sent", "cold"} /\ x \in {"cold", "refused", "failed"}
  /\ x = "cold" => tool = "get_current_state"
  /\ server' = [server EXCEPT ![p] = x]
  /\ UNCHANGED <<client, rows>>

\* Handlers die, and with them the calls they were waiting for.
Drop(gone) ==
  /\ gone \subseteq {p \in Paths : server[p] \in {"sent", "cold", "fan"}}
  /\ server' = [p \in Paths |-> IF p \in gone THEN "gone" ELSE server[p]]
  /\ \A c \in Paths : \/ client'[c] = client[c]
                      \/ client[c] \in {"pending", "reading"} /\ client'[c] = "dropped"
  /\ UNCHANGED rows

\* The caller learns something of a call it waits for.
Hear(p, status) ==
  /\ client[p] \in {"pending", "reading"}
  /\ status = "ok" => server[p] = "answered"
  /\ client' = [client EXCEPT ![p] = status]
  /\ UNCHANGED <<server, rows>>

\* The node's own rows are known and the peers are asked.
Start(p, own) ==
  /\ server[p] \in {"sent", "cold"}
  /\ FanOut(p, own)
  /\ \A r \in own : r.peer = Null /\ r.node = Last(p)
  /\ tool = "describe_sources" => \E r \in own : r.node = Last(p)

\* There are no others.
LEMMA StepKinds ==
  ASSUME TypeInv, ColdInv, [Next]_vars
  PROVE  /\ UNCHANGED tool
         /\ \/ UNCHANGED <<server, client, rows>>
            \/ Ask
            \/ \E p \in Paths : \/ \E x : Turn(p, x)
                                \/ \E own : Start(p, own)
                                \/ Join(p)
                                \/ \E status : Hear(p, status)
            \/ \E gone : Drop(gone)
<1>1. CASE Ask
  BY <1>1 DEF Ask
<1>2. ASSUME NEW n \in Nodes, Publish(n) \/ Flush(n)
      PROVE  UNCHANGED tool /\ UNCHANGED <<server, client, rows>>
  BY <1>2 DEF Publish, Flush
<1>3. ASSUME NEW n \in Nodes, Restart(n) PROVE UNCHANGED tool /\ \E gone : Drop(gone)
  <2> DEFINE here == {p \in Paths : Last(p) = n /\ server[p] \in {"sent", "cold", "fan"}}
  <2>1. Drop(here)
    <3>1. /\ server' = [p \in Paths |-> IF p \in here THEN "gone" ELSE server[p]]
          /\ UNCHANGED rows
      BY <1>3 DEF Restart
    <3>2. \A c \in Paths : \/ client'[c] = client[c]
                           \/ client[c] \in {"pending", "reading"} /\ client'[c] = "dropped"
      BY <1>3 DEF Restart
    <3>3. here \subseteq {p \in Paths : server[p] \in {"sent", "cold", "fan"}}
      OBVIOUS
    <3> HIDE DEF here
    <3> QED
      BY <3>1, <3>2, <3>3, Zenon DEF Drop
  <2> QED
    BY <1>3, <2>1 DEF Restart
<1>4. ASSUME NEW p \in Paths, Refuse(p) \/ Fail(p) \/ MissRing(p)
      PROVE  UNCHANGED tool /\ \E x : Turn(p, x)
  BY <1>4 DEF Refuse, Fail, MissRing, Turn
<1>5. ASSUME NEW p \in Paths, Describe(p) \/ ReadRing(p) \/ ReadCold(p)
      PROVE  UNCHANGED tool /\ \E own : Start(p, own)
  <2>1. \A e, isCold : /\ OwnRow(Last(p), e, isCold).peer = Null
                       /\ OwnRow(Last(p), e, isCold).node = Last(p)
    BY DEF OwnRow
  <2>2. CASE Describe(p)
    <3>1. Start(p, {OwnRow(Last(p), NoEvent, FALSE)})
      BY <2>1, <2>2 DEF Describe, Start
    <3> QED
      BY <2>2, <3>1 DEF Describe
  <2>3. CASE ReadRing(p)
    <3>1. Start(p, {OwnRow(Last(p), ring[Last(p)], FALSE)})
      BY <2>1, <2>3 DEF ReadRing, Start
    <3> QED
      BY <2>3, <3>1 DEF ReadRing
  <2>4. CASE ReadCold(p)
    <3> DEFINE own == IF cold[Last(p)] = NoEvent THEN {}
                      ELSE {OwnRow(Last(p), cold[Last(p)], TRUE)}
    <3>1. \A r \in own : r.peer = Null /\ r.node = Last(p)
      BY <2>1
    <3>2. FanOut(p, own) /\ server[p] = "cold" /\ UNCHANGED tool
      BY <2>4 DEF ReadCold
    <3> HIDE DEF own
    <3>3. Start(p, own)
      BY <3>1, <3>2 DEF Start, ColdInv
    <3> QED
      BY <3>2, <3>3
  <2> QED
    BY <1>5, <2>2, <2>3, <2>4
<1>6. ASSUME NEW p \in Paths, Headers(p) \/ Body(p) \/ ConnectionFails(p) \/ Timeout(p)
      PROVE  UNCHANGED tool /\ \E status : Hear(p, status)
  BY <1>6 DEF Headers, Body, ConnectionFails, Timeout, Becomes, Hear
<1>7. ASSUME NEW p \in Paths, Cancel(p) PROVE UNCHANGED tool /\ \E gone : Drop(gone)
  <2>1. Drop({p})
    <3>1. server' = [q \in Paths |-> IF q \in {p} THEN "gone" ELSE server[q]]
      BY <1>7 DEF Cancel, TypeInv
    <3>2. \A c \in Paths : \/ client'[c] = client[c]
                           \/ client[c] \in {"pending", "reading"} /\ client'[c] = "dropped"
      BY <1>7 DEF Cancel
    <3>3. {p} \subseteq {q \in Paths : server[q] \in {"sent", "cold", "fan"}} /\ UNCHANGED rows
      BY <1>7 DEF Cancel
    <3> QED
      BY <3>1, <3>2, <3>3, Zenon DEF Drop
  <2> QED
    BY <1>7, <2>1 DEF Cancel
<1>8. ASSUME NEW p \in Paths, Join(p) PROVE UNCHANGED tool
  BY <1>8 DEF Join
<1>9. CASE UNCHANGED vars
  BY <1>9 DEF vars
<1> QED
  BY <1>1, <1>2, <1>3, <1>4, <1>5, <1>6, <1>7, <1>8, <1>9
     DEF Next, World, Faults, Progress, Handler, BodyArrives

\* Before a node fans out nothing is asked of its peers: kept by every step.
LEMMA HopNext ==
  ASSUME TypeInv, HopInv, ColdInv, [Next]_vars
  PROVE  HopInv'
<1> DEFINE Early == {"idle", "sent", "cold", "refused", "failed"}
<1>1. CASE UNCHANGED <<server, client, rows>>
  BY <1>1 DEF HopInv
<1>2. CASE Ask
  <2>1. server[Asked] = "idle" /\ server' = [server EXCEPT ![Asked] = "sent"] /\ client' = client
    BY <1>2 DEF Ask
  <2>2. ASSUME NEW p \in Paths, NEW c \in Children[p], server'[p] \in Early
        PROVE  server'[c] = "idle" /\ client'[c] = "none"
    <3>1. c # Asked /\ c \in Paths
      BY ChildFacts
    <3>2. server[p] \in Early
      BY <2>1, <2>2 DEF TypeInv
    <3> QED
      BY <2>1, <3>1, <3>2 DEF HopInv, TypeInv
  <2>3. server'[Asked] # "idle"
    BY <2>1, AskedIsPath DEF TypeInv
  <2> QED
    BY <2>2, <2>3 DEF HopInv
<1>3. ASSUME NEW p \in Paths, NEW x, Turn(p, x) PROVE HopInv'
  <2>1. ASSUME NEW q \in Paths, NEW c \in Children[q], server'[q] \in Early
        PROVE  server'[c] = "idle" /\ client'[c] = "none"
    <3>1. server[q] \in Early /\ c \in Paths
      BY <1>3, <2>1, ChildFacts DEF Turn, TypeInv
    <3>2. server[c] = "idle" /\ client[c] = "none"
      BY <3>1 DEF HopInv
    <3> QED
      BY <1>3, <3>1, <3>2 DEF Turn, TypeInv
  <2>2. server[Asked] # "idle" /\ server'[Asked] # "idle"
    BY <1>3, AskedIsPath DEF Turn, HopInv, TypeInv
  <2> QED
    BY <2>1, <2>2 DEF HopInv
<1>4. ASSUME NEW p \in Paths, NEW own, Start(p, own) PROVE HopInv'
  <2>1. /\ server' = [q \in Paths |-> IF q = p THEN "fan"
                                      ELSE IF q \in Children[p] THEN "sent" ELSE server[q]]
        /\ client' = [q \in Paths |-> IF q \in Children[p] THEN "pending" ELSE client[q]]
        /\ server[p] \in {"sent", "cold"}
    BY <1>4 DEF Start, FanOut
  <2>2. ASSUME NEW q \in Paths, NEW c \in Children[q], server'[q] \in Early
        PROVE  server'[c] = "idle" /\ client'[c] = "none"
    <3>1. q # p /\ c \in Paths
      BY <2>1, <2>2, ChildFacts
    <3>2. c \notin Children[p]
      BY <3>1, ChildFacts
    <3>3. server[q] \in Early
      <4>1. CASE q \in Children[p]
        BY <2>1, <4>1 DEF HopInv
      <4>2. CASE q \notin Children[p]
        BY <2>1, <2>2, <3>1, <4>2
      <4> QED
        BY <4>1, <4>2
    <3>4. server[c] = "idle" /\ client[c] = "none"
      BY <3>3 DEF HopInv
    <3>5. c # p
      BY <2>1, <3>4
    <3> QED
      BY <2>1, <3>1, <3>2, <3>4, <3>5
  <2>3. server[Asked] # "idle" /\ server'[Asked] # "idle"
    BY <2>1, AskedIsPath DEF HopInv
  <2> QED
    BY <2>2, <2>3 DEF HopInv
<1>5. ASSUME NEW p \in Paths, Join(p) PROVE HopInv'
  <2>1. server[p] = "fan" /\ server' = [server EXCEPT ![p] = "answered"] /\ client' = client
    BY <1>5 DEF Join
  <2>2. ASSUME NEW q \in Paths, NEW c \in Children[q], server'[q] \in Early
        PROVE  server'[c] = "idle" /\ client'[c] = "none"
    <3>1. server[q] \in Early /\ c \in Paths
      BY <2>1, <2>2, ChildFacts DEF TypeInv
    <3>2. server[c] = "idle" /\ client[c] = "none"
      BY <3>1 DEF HopInv
    <3> QED
      BY <2>1, <3>1, <3>2 DEF TypeInv
  <2>3. server[Asked] # "idle" /\ server'[Asked] # "idle"
    BY <2>1, AskedIsPath DEF HopInv, TypeInv
  <2> QED
    BY <2>2, <2>3 DEF HopInv
<1>6. ASSUME NEW p \in Paths, NEW status, Hear(p, status) PROVE HopInv'
  <2>1. ASSUME NEW q \in Paths, NEW c \in Children[q], server'[q] \in Early
        PROVE  server'[c] = "idle" /\ client'[c] = "none"
    <3>1. server[c] = "idle" /\ client[c] = "none" /\ server' = server
      BY <1>6, <2>1 DEF HopInv, Hear
    <3>2. c # p
      BY <1>6, <3>1 DEF Hear
    <3> QED
      BY <1>6, <3>1, <3>2 DEF Hear, TypeInv
  <2> QED
    BY <1>6, <2>1 DEF HopInv, Hear
<1>7. ASSUME NEW gone, Drop(gone) PROVE HopInv'
  <2>1. ASSUME NEW q \in Paths, NEW c \in Children[q], server'[q] \in Early
        PROVE  server'[c] = "idle" /\ client'[c] = "none"
    <3>1. server[q] \in Early /\ c \in Paths
      BY <1>7, <2>1, ChildFacts DEF Drop
    <3>2. server[c] = "idle" /\ client[c] = "none"
      BY <3>1 DEF HopInv
    <3> QED
      BY <1>7, <3>1, <3>2 DEF Drop
  <2>2. server'[Asked] = "idle" => \A p \in Paths : server'[p] = "idle"
    BY <1>7, AskedIsPath DEF Drop, HopInv
  <2> QED
    BY <2>1, <2>2 DEF HopInv
<1> QED
  BY <1>1, <1>2, <1>3, <1>4, <1>5, <1>6, <1>7, StepKinds

\* What has been answered, and what a caller has learnt, stays.
LEMMA AnswersStay ==
  ASSUME TypeInv, HopInv, ColdInv, [Next]_vars
  PROVE  /\ UNCHANGED tool
         /\ \A p \in Paths :
              /\ server[p] = "answered" => server'[p] = "answered" /\ rows'[p] = rows[p]
              /\ client[p] \in Resolved => client'[p] = client[p]
              /\ client'[p] = "ok" => client[p] = "ok" \/ server[p] = "answered"
              /\ server'[p] = "answered" => server[p] = "answered" \/ Join(p)
              /\ server'[p] = "fan" =>
                   (server[p] = "fan" /\ rows'[p] = rows[p]) \/ \E own : Start(p, own)
              /\ server'[p] = "cold" => server[p] = "cold" \/ tool = "get_current_state"
<1>0. UNCHANGED tool
  BY StepKinds
<1> SUFFICES ASSUME NEW p \in Paths
             PROVE  /\ server[p] = "answered" => server'[p] = "answered" /\ rows'[p] = rows[p]
                    /\ client[p] \in Resolved => client'[p] = client[p]
                    /\ client'[p] = "ok" => client[p] = "ok" \/ server[p] = "answered"
                    /\ server'[p] = "answered" => server[p] = "answered" \/ Join(p)
                    /\ server'[p] = "fan" =>
                         (server[p] = "fan" /\ rows'[p] = rows[p]) \/ \E own : Start(p, own)
                    /\ server'[p] = "cold" => server[p] = "cold" \/ tool = "get_current_state"
  BY <1>0
<1> USE DEF TypeInv, Resolved
<1>1. CASE UNCHANGED <<server, client, rows>>
  BY <1>1
<1>2. CASE Ask
  BY <1>2, AskedIsPath DEF Ask
<1>3. CASE \E q \in Paths : \E x : Turn(q, x)
  BY <1>3 DEF Turn
<1>4. ASSUME NEW q \in Paths, NEW own, Start(q, own)
      PROVE  /\ server[p] = "answered" => server'[p] = "answered" /\ rows'[p] = rows[p]
             /\ client[p] \in Resolved => client'[p] = client[p]
             /\ client'[p] = "ok" => client[p] = "ok" \/ server[p] = "answered"
             /\ server'[p] = "answered" => server[p] = "answered" \/ Join(p)
             /\ server'[p] = "fan" =>
                  (server[p] = "fan" /\ rows'[p] = rows[p]) \/ \E o : Start(p, o)
             /\ server'[p] = "cold" => server[p] = "cold" \/ tool = "get_current_state"
  <2>1. p \in Children[q] => server[p] = "idle" /\ client[p] = "none" /\ p # q
    BY <1>4, ChildFacts DEF HopInv, Start
  <2>2. /\ server'[p] = IF p = q THEN "fan" ELSE IF p \in Children[q] THEN "sent" ELSE server[p]
        /\ client'[p] = IF p \in Children[q] THEN "pending" ELSE client[p]
        /\ rows'[p] = IF p = q THEN own ELSE rows[p]
        /\ server[q] \in {"sent", "cold"}
    BY <1>4 DEF Start, FanOut
  <2> QED
    BY <1>4, <2>1, <2>2
<1>5. ASSUME NEW q \in Paths, Join(q)
      PROVE  /\ server[p] = "answered" => server'[p] = "answered" /\ rows'[p] = rows[p]
             /\ client[p] \in Resolved => client'[p] = client[p]
             /\ client'[p] = "ok" => client[p] = "ok" \/ server[p] = "answered"
             /\ server'[p] = "answered" => server[p] = "answered" \/ Join(p)
             /\ server'[p] = "fan" =>
                  (server[p] = "fan" /\ rows'[p] = rows[p]) \/ \E o : Start(p, o)
             /\ server'[p] = "cold" => server[p] = "cold" \/ tool = "get_current_state"
  <2>1. /\ server'[p] = IF p = q THEN "answered" ELSE server[p]
        /\ client'[p] = client[p] /\ server[q] = "fan"
        /\ p # q => rows'[p] = rows[p]
    BY <1>5 DEF Join
  <2> QED
    BY <1>5, <2>1
<1>6. CASE \E q \in Paths : \E status : Hear(q, status)
  BY <1>6 DEF Hear
<1>7. CASE \E gone : Drop(gone)
  BY <1>7 DEF Drop
<1> QED
  BY <1>1, <1>2, <1>3, <1>4, <1>5, <1>6, <1>7, StepKinds

\* A merge covers every peer.
LEMMA JoinCovers ==
  ASSUME TypeInv, TypeInv', CoverageInv, NEW p \in Paths, Join(p), UNCHANGED tool
  PROVE  Covered(p)'
<1> USE DEF CoverageInv
<1>1. /\ server[p] = "fan" /\ rows'[p] = Merged(p) /\ client' = client
      /\ \A c \in Children[p] : client[c] \in Resolved
      /\ server' = [server EXCEPT ![p] = "answered"]
      /\ rows' = [rows EXCEPT ![p] = Merged(p)]
  BY DEF Join, TypeInv
<1>2. \A r \in rows[p] : r.peer = Null /\ r.node = Last(p)
  BY <1>1 DEF FanInv
<1>3. ASSUME NEW c \in Children[p]
      PROVE  /\ client'[c] \in Resolved
             /\ client'[c] # "ok" => \A r \in rows'[p] : r.peer # Last(c)
             /\ client'[c] = "ok" =>
                  /\ server'[c] = "answered"
                  /\ \A r \in rows'[p] : r.peer = Last(c) => \E s \in rows'[c] : s.node = r.node
                  /\ \A s \in rows'[c] : \E r \in rows'[p] : r.peer = Last(c) /\ r.node = s.node
                  /\ tool' = "describe_sources" =>
                       \E r \in rows'[p] : r.peer = Last(c) /\ r.node = Last(c)
  <2>1. /\ c \in Paths /\ c # p /\ Last(c) # Null
        /\ \A d \in Children[p] : Last(c) = Last(d) => c = d
    BY ChildFacts
  <2>2. rows'[c] = rows[c] /\ server'[c] = server[c] /\ client'[c] = client[c]
    BY <1>1, <2>1 DEF TypeInv
  <2>3. ASSUME NEW r \in Merged(p), r.peer = Last(c)
        PROVE  client[c] = "ok" /\ \E s \in rows[c] : s.node = r.node
    <3>1. r \notin rows[p]
      BY <1>2, <2>1, <2>3
    <3>2. PICK d \in Children[p] : /\ client[d] = "ok" /\ r.peer = Last(d)
                                   /\ \E s \in rows[d] : r.node = s.node
      BY <3>1, MergedRows
    <3>3. d = c
      BY <2>1, <2>3, <3>2
    <3> QED
      BY <3>2, <3>3
  <2>4. ASSUME client[c] = "ok", NEW s \in rows[c]
        PROVE  \E r \in Merged(p) : r.peer = Last(c) /\ r.node = s.node
    BY <2>4, MergedRows
  <2>5. ASSUME client[c] = "ok", tool = "describe_sources"
        PROVE  \E r \in Merged(p) : r.peer = Last(c) /\ r.node = Last(c)
    <3>1. server[c] = "answered"
      BY <2>1, <2>5 DEF OkInv
    <3>2. PICK s \in rows[c] : s.node = Last(c)
      BY <2>1, <2>5, <3>1 DEF SelfInv
    <3> QED
      BY <2>4, <2>5, <3>2
  <2>6. client[c] = "ok" => server[c] = "answered"
    BY <2>1 DEF OkInv
  <2> QED
    BY <1>1, <2>2, <2>3, <2>4, <2>5, <2>6
<1>4. ASSUME NEW r \in rows'[p], r.peer = Null PROVE r.node = Last(p)
  <2>1. CASE r \in rows[p]
    BY <1>2, <2>1
  <2>2. CASE r \notin rows[p]
    <3>1. \E d \in Children[p] : r.peer = Last(d)
      BY <1>1, <2>2, MergedRows
    <3> QED
      BY <1>4, <3>1, ChildFacts
  <2> QED
    BY <2>1, <2>2
<1> QED
  BY <1>3, <1>4, Zenon DEF Covered

\* Every step keeps the coverage.
LEMMA CoverageNext ==
  ASSUME TypeInv, TypeInv', CoverageInv, [Next]_vars
  PROVE  CoverageInv'
<1>0. HopInv /\ OkInv /\ FanInv /\ SelfInv /\ ColdInv
      /\ \A p \in Paths : server[p] = "answered" => Covered(p)
  BY CoveredShows DEF CoverageInv
<1>1. HopInv'
  BY <1>0, HopNext
<1>2. /\ UNCHANGED tool
      /\ \A p \in Paths :
           /\ server[p] = "answered" => server'[p] = "answered" /\ rows'[p] = rows[p]
           /\ client[p] \in Resolved => client'[p] = client[p]
           /\ client'[p] = "ok" => client[p] = "ok" \/ server[p] = "answered"
           /\ server'[p] = "answered" => server[p] = "answered" \/ Join(p)
           /\ server'[p] = "fan" =>
                (server[p] = "fan" /\ rows'[p] = rows[p]) \/ \E own : Start(p, own)
           /\ server'[p] = "cold" => server[p] = "cold" \/ tool = "get_current_state"
  BY <1>0, AnswersStay
<1>3. OkInv'
  BY <1>0, <1>2 DEF OkInv
<1>4. ASSUME NEW p \in Paths, NEW own, Start(p, own)
      PROVE  /\ rows'[p] = own /\ \A r \in own : r.peer = Null /\ r.node = Last(p)
             /\ tool = "describe_sources" => \E r \in own : r.node = Last(p)
  BY <1>4 DEF Start, FanOut, TypeInv
<1>5. FanInv'
  <2> SUFFICES ASSUME NEW p \in Paths, server'[p] = "fan", NEW r \in rows'[p]
               PROVE  r.peer = Null /\ r.node = Last(p)
    BY DEF FanInv
  <2>1. CASE server[p] = "fan" /\ rows'[p] = rows[p]
    BY <1>0, <2>1 DEF FanInv
  <2>2. ASSUME NEW own, Start(p, own) PROVE r.peer = Null /\ r.node = Last(p)
    BY <1>4, <2>2
  <2> QED
    BY <1>2, <2>1, <2>2
<1>6. SelfInv'
  <2> SUFFICES ASSUME NEW p \in Paths, server'[p] \in {"fan", "answered"},
                      tool' = "describe_sources"
               PROVE  \E r \in rows'[p] : r.node = Last(p)
    BY DEF SelfInv
  <2>1. CASE server[p] \in {"fan", "answered"} /\ rows'[p] = rows[p]
    BY <1>0, <1>2, <2>1 DEF SelfInv
  <2>2. ASSUME NEW own, Start(p, own) PROVE \E r \in rows'[p] : r.node = Last(p)
    BY <1>2, <1>4, <2>2
  <2>3. CASE Join(p)
    <3>1. server[p] = "fan" /\ rows'[p] = Merged(p)
      BY <2>3 DEF Join, TypeInv
    <3>2. \E r \in rows[p] : r.node = Last(p)
      BY <1>0, <1>2, <3>1 DEF SelfInv
    <3> QED
      BY <3>1, <3>2, MergedRows
  <2> QED
    BY <1>2, <2>1, <2>2, <2>3
<1>7. ColdInv'
  BY <1>0, <1>2 DEF ColdInv
<1>8. ASSUME NEW p \in Paths, server'[p] = "answered" PROVE Covered(p)'
  <2>1. CASE server[p] = "answered"
    <3>1. Covered(p) /\ rows'[p] = rows[p] /\ tool' = tool
      BY <1>0, <1>2, <2>1
    <3>2. ASSUME NEW c \in Children[p]
          PROVE  /\ client'[c] = client[c]
                 /\ client[c] = "ok" => server'[c] = server[c] /\ rows'[c] = rows[c]
      BY <1>2, <3>1, <3>2, ChildFacts DEF Covered
    <3>3. ASSUME NEW c \in Children[p]
          PROVE  /\ client'[c] \in Resolved
                 /\ client'[c] # "ok" => \A r \in rows'[p] : r.peer # Last(c)
                 /\ client'[c] = "ok" =>
                      /\ server'[c] = "answered"
                      /\ \A r \in rows'[p] : r.peer = Last(c) => \E s \in rows'[c] : s.node = r.node
                      /\ \A s \in rows'[c] : \E r \in rows'[p] : r.peer = Last(c) /\ r.node = s.node
                      /\ tool' = "describe_sources" =>
                           \E r \in rows'[p] : r.peer = Last(c) /\ r.node = Last(c)
      BY <3>1, <3>2 DEF Covered
    <3>4. \A r \in rows'[p] : r.peer = Null => r.node = Last(p)
      BY <3>1 DEF Covered
    <3> QED
      BY <3>3, <3>4, Zenon DEF Covered
  <2>2. CASE Join(p)
    BY <1>2, <2>2, JoinCovers
  <2> QED
    BY <1>2, <1>8, <2>1, <2>2
<1>9. PartialCoverageShows'
  <2>1. (\A p \in Paths : server[p] = "answered" => Covered(p))'
    BY <1>8
  <2> QED
    BY <2>1, CoveredShows, PTL
<1> QED
  BY <1>1, <1>3, <1>5, <1>6, <1>7, <1>9 DEF CoverageInv

\* Nothing has been asked at first.
LEMMA CoverageInit == Init => TypeInv /\ CoverageInv
<1> SUFFICES ASSUME Init PROVE TypeInv /\ CoverageInv
  OBVIOUS
<1>1. TypeInv
  BY DEF Init, TypeInv, NoEvent, ServerStates, ClientStates
<1>2. \A p \in Paths : server[p] = "idle" /\ client[p] = "none"
  BY DEF Init
<1>3. \A p \in Paths : \A c \in Children[p] : c \in Paths
  BY ChildFacts
<1> QED
  BY <1>1, <1>2, <1>3
     DEF CoverageInv, HopInv, OkInv, FanInv, SelfInv, ColdInv, PartialCoverageShows

\* In an answer, at every hop, each configured peer has a status of its own,
\* and what stands under a peer's id is what that peer answered to this very
\* call (McpTools::get_current_state, McpTools::describe_sources).
THEOREM CoverageShows == Spec => []PartialCoverageShows
<1>1. TypeInv /\ CoverageInv /\ [Next]_vars => (TypeInv /\ CoverageInv)'
  BY TypeNext, CoverageNext
<1>2. CoverageInv => PartialCoverageShows
  BY DEF CoverageInv
<1> QED
  BY CoverageInit, <1>1, <1>2, PTL DEF Spec

-----------------------------------------------------------------------------
(* The current state is recent                                             *)

\* Restarts only add to what is lost, and the question is asked once.
LEMMA StoreNext ==
  ASSUME TypeInv, StoreInv, [Next]_vars
  PROVE  /\ StoreInv' /\ \A n \in Nodes : lost[n] <= lost'[n]
         /\ Ask \/ UNCHANGED before
<1> USE DEF TypeInv, StoreInv, NoEvent
<1>1. CASE Ask
  BY <1>1 DEF Ask
<1>2. ASSUME NEW n \in Nodes, Publish(n)
      PROVE  StoreInv' /\ (\A m \in Nodes : lost[m] <= lost'[m]) /\ UNCHANGED before
  BY <1>2 DEF Publish
<1>3. ASSUME NEW n \in Nodes, Restart(n)
      PROVE  StoreInv' /\ (\A m \in Nodes : lost[m] <= lost'[m]) /\ UNCHANGED before
  BY <1>3 DEF Restart
<1>4. CASE UNCHANGED <<newest, ring, lost, before>>
  BY <1>4
<1>5. ASSUME NEW n \in Nodes, Flush(n) PROVE UNCHANGED <<newest, ring, lost, before>>
  BY <1>5 DEF Flush
<1>6. ASSUME NEW p \in Paths, Handler(p) PROVE UNCHANGED <<newest, ring, lost, before>>
  BY <1>6 DEF Handler, Describe, ReadRing, MissRing, ReadCold, Join, storeVars
<1>7. ASSUME NEW p \in Paths, Refuse(p) \/ Fail(p) \/ Cancel(p)
      PROVE  UNCHANGED <<newest, ring, lost, before>>
  BY <1>7 DEF Refuse, Fail, Cancel, storeVars
<1>8. ASSUME NEW p \in Paths, Headers(p) \/ Body(p) \/ ConnectionFails(p) \/ Timeout(p)
      PROVE  UNCHANGED <<newest, ring, lost, before>>
  BY <1>8 DEF Headers, Body, ConnectionFails, Timeout, Becomes, storeVars
<1>9. CASE UNCHANGED vars
  BY <1>9 DEF vars
<1> QED
  BY <1>1, <1>2, <1>3, <1>4, <1>5, <1>6, <1>7, <1>8, <1>9
     DEF Next, World, Faults, Progress, BodyArrives

\* Only reading the stores takes a call to the cold store and to its peers.
LEMMA ReadKinds ==
  ASSUME TypeInv, [Next]_vars, NEW p \in Paths, server'[p] # server[p],
         server'[p] \in {"cold", "fan"}
  PROVE  MissRing(p) \/ Describe(p) \/ ReadRing(p) \/ ReadCold(p)
<1> USE DEF TypeInv
<1>1. CASE UNCHANGED server
  BY <1>1
<1>2. ~Ask
  BY AskedIsPath DEF Ask
<1>3. ASSUME NEW n \in Nodes, Publish(n) \/ Flush(n) PROVE FALSE
  BY <1>3 DEF Publish, Flush
<1>4. ASSUME NEW n \in Nodes, Restart(n) PROVE FALSE
  BY <1>4 DEF Restart
<1>5. ASSUME NEW q \in Paths, Refuse(q) \/ Fail(q) \/ Cancel(q) \/ Join(q) PROVE FALSE
  BY <1>5 DEF Refuse, Fail, Cancel, Join
<1>6. ASSUME NEW q \in Paths, NEW own, FanOut(q, own) PROVE q = p
  BY <1>6 DEF FanOut
<1>7. ASSUME NEW q \in Paths, MissRing(q) PROVE q = p
  BY <1>7 DEF MissRing
<1>8. ASSUME NEW q \in Paths, Describe(q) \/ ReadRing(q) \/ ReadCold(q) PROVE q = p
  <2>1. \E own : FanOut(q, own)
    BY <1>8 DEF Describe, ReadRing, ReadCold
  <2> QED
    BY <1>6, <2>1
<1>9. ASSUME NEW q \in Paths, Headers(q) \/ Body(q) \/ ConnectionFails(q) \/ Timeout(q)
      PROVE  FALSE
  BY <1>9 DEF Headers, Body, ConnectionFails, Timeout, Becomes
<1>10. CASE UNCHANGED vars
  BY <1>10 DEF vars
<1> QED
  BY <1>2, <1>3, <1>4, <1>5, <1>7, <1>8, <1>9, <1>10
     DEF Next, World, Faults, Progress, Handler, BodyArrives

\* What RecencyInv says of the rows of one call.
Complete(p) ==
  /\ \A r \in rows[p] : Recent(r)
  /\ before[Last(p)] > lost[Last(p)] => \E r \in rows[p] : r.node = Last(p) /\ r.from_cold = FALSE

\* A row that is recent stays so, and a call that is complete.
LEMMA RecentStays ==
  ASSUME TypeInv, TypeInv', StoreInv, [Next]_vars, ~Ask
  PROVE  /\ \A r \in Row : Recent(r) => Recent(r)'
         /\ \A p \in Paths : rows'[p] = rows[p] /\ Complete(p) => Complete(p)'
<1>1. before' = before /\ \A n \in Nodes : lost[n] <= lost'[n]
  BY StoreNext
<1>2. ASSUME NEW r \in Row, Recent(r) PROVE Recent(r)'
  <2>1. /\ r.node \in Nodes /\ r.event \in Nat /\ before[r.node] \in Nat /\ lost[r.node] \in Nat
        /\ lost'[r.node] \in Nat
    BY DEF Row, TypeInv
  <2> QED
    BY <1>1, <1>2, <2>1 DEF Recent
<1>3. ASSUME NEW p \in Paths, rows'[p] = rows[p], Complete(p) PROVE Complete(p)'
  <2>1. /\ Last(p) \in Nodes /\ before[Last(p)] \in Nat /\ lost[Last(p)] \in Nat
        /\ lost'[Last(p)] \in Nat /\ rows[p] \subseteq Row
    BY PathType DEF TypeInv
  <2>2. (\A r \in rows[p] : Recent(r))'
    BY <1>2, <1>3, <2>1 DEF Complete
  <2>3. before'[Last(p)] > lost'[Last(p)] =>
          \E r \in rows'[p] : r.node = Last(p) /\ r.from_cold = FALSE
    BY <1>1, <1>3, <2>1 DEF Complete
  <2> QED
    BY <2>2, <2>3 DEF Complete
<1> QED
  BY <1>2, <1>3

\* The parts of RecencyInv and CurrentIsRecent.
LEMMA RecencyParts ==
  ASSUME TypeInv
  PROVE  /\ RecencyInv <=> (tool = "get_current_state" =>
              \A p \in Paths : /\ server[p] = "cold" => before[Last(p)] <= lost[Last(p)]
                               /\ server[p] \in {"fan", "answered"} => Complete(p))
         /\ CurrentIsRecent <=>
              (server[Asked] = "answered" /\ tool = "get_current_state" =>
                 /\ \A r \in rows[Asked] : Recent(r)
                 /\ \A p \in {Asked} \cup {c \in Children[Asked] : client[c] = "ok"} :
                      before[Last(p)] > lost[Last(p)] =>
                        \E r \in rows[Asked] : r.node = Last(p) /\ r.from_cold = FALSE)
<1>1. \A p \in Paths : \A r \in rows[p] : ~r.from_cold <=> r.from_cold = FALSE
  BY DEF TypeInv, Row
<1>2. \A p \in Paths : \A n : (\E r \in rows[p] : r.node = n /\ ~r.from_cold) <=>
                          (\E r \in rows[p] : r.node = n /\ r.from_cold = FALSE)
  BY <1>1
<1>3. RecencyInv <=> (tool = "get_current_state" =>
              \A p \in Paths : /\ server[p] = "cold" => before[Last(p)] <= lost[Last(p)]
                               /\ server[p] \in {"fan", "answered"} => Complete(p))
  BY <1>2, ZenonT(40) DEF RecencyInv, Complete
<1>4. CurrentIsRecent <=>
              (server[Asked] = "answered" /\ tool = "get_current_state" =>
                 /\ \A r \in rows[Asked] : Recent(r)
                 /\ \A p \in {Asked} \cup {c \in Children[Asked] : client[c] = "ok"} :
                      before[Last(p)] > lost[Last(p)] =>
                        \E r \in rows[Asked] : r.node = Last(p) /\ r.from_cold = FALSE)
  <2> DEFINE answered == {Asked} \cup {c \in Children[Asked] : client[c] = "ok"}
             Fresh(p) == \E r \in rows[Asked] : r.node = Last(p) /\ ~r.from_cold
             FreshEq(p) == \E r \in rows[Asked] : r.node = Last(p) /\ r.from_cold = FALSE
  <2>1. \A p : Fresh(p) <=> FreshEq(p)
    BY <1>2, AskedIsPath, Zenon
  <2>2. CurrentIsRecent <=>
          (server[Asked] = "answered" /\ tool = "get_current_state" =>
             /\ \A r \in rows[Asked] : Recent(r)
             /\ \A p \in answered : before[Last(p)] > lost[Last(p)] => Fresh(p))
    BY Zenon DEF CurrentIsRecent, Recent
  <2> HIDE DEF answered, Fresh, FreshEq
  <2>3. CurrentIsRecent <=>
          (server[Asked] = "answered" /\ tool = "get_current_state" =>
             /\ \A r \in rows[Asked] : Recent(r)
             /\ \A p \in answered : before[Last(p)] > lost[Last(p)] => FreshEq(p))
    BY <2>1, <2>2, Zenon
  <2> QED
    BY <2>3, Zenon DEF answered, FreshEq
<1> QED
  BY <1>3, <1>4

\* Reading the stores yields a complete call: the ring holds the newest event,
\* and a miss means that the node has been restarted since.
LEMMA ReadIsComplete ==
  ASSUME TypeInv, StoreInv, NEW p \in Paths,
         server[p] = "cold" => before[Last(p)] <= lost[Last(p)],
         ReadRing(p) \/ ReadCold(p)
  PROVE  Complete(p)'
<1>1. /\ Last(p) \in Nodes /\ before[Last(p)] \in Nat /\ lost[Last(p)] \in Nat
      /\ ring[Last(p)] \in Nat /\ newest[Last(p)] \in Nat
  BY PathType DEF TypeInv
<1>2. before' = before /\ lost' = lost
  BY DEF ReadRing, ReadCold, storeVars
<1>3. CASE ReadRing(p)
  <2> DEFINE own == OwnRow(Last(p), ring[Last(p)], FALSE)
  <2>1. rows'[p] = {own}
    BY <1>3 DEF ReadRing, FanOut, TypeInv
  <2>2. own.node = Last(p) /\ own.event = ring[Last(p)] /\ own.from_cold = FALSE
    BY DEF OwnRow
  <2>3. ring[Last(p)] >= before[Last(p)]
    BY <1>1, <1>3 DEF StoreInv, ReadRing
  <2> HIDE DEF own
  <2>4. own.event >= before'[own.node] /\ (own.from_cold => before'[own.node] <= lost'[own.node])
    BY <1>2, <2>2, <2>3
  <2>5. \A r \in rows'[p] :
          \/ r.event >= before'[r.node] /\ (r.from_cold => before'[r.node] <= lost'[r.node])
          \/ r.from_cold /\ before'[r.node] <= lost'[r.node]
    BY <2>1, <2>4
  <2> QED
    BY <2>1, <2>2, <2>5 DEF Complete, Recent
<1>4. CASE ReadCold(p)
  <2>1. \A r \in rows'[p] : r = OwnRow(Last(p), cold[Last(p)], TRUE)
    BY <1>4 DEF ReadCold, FanOut, TypeInv
  <2>2. \A r \in rows'[p] : r.node = Last(p) /\ r.from_cold = TRUE
    BY <2>1 DEF OwnRow
  <2>3. before[Last(p)] <= lost[Last(p)]
    BY <1>4 DEF ReadCold
  <2>4. \A r \in rows'[p] : r.from_cold /\ before'[r.node] <= lost'[r.node]
    BY <1>2, <2>2, <2>3
  <2>5. ~(before'[Last(p)] > lost'[Last(p)])
    BY <1>1, <1>2, <2>3
  <2> QED
    BY <2>4, <2>5 DEF Complete, Recent
<1> QED
  BY <1>3, <1>4

\* A merge of complete calls is complete, for the peers that answered too.
LEMMA JoinIsComplete ==
  ASSUME TypeInv, OkInv, NEW p \in Paths, Join(p), Complete(p),
         \A c \in Paths : server[c] = "answered" => Complete(c)
  PROVE  /\ Complete(p)' /\ client' = client
         /\ \A c \in Children[p] :
              client[c] = "ok" /\ before'[Last(c)] > lost'[Last(c)] =>
                \E r \in rows'[p] : r.node = Last(c) /\ r.from_cold = FALSE
<1>1. /\ rows'[p] = Merged(p) /\ before' = before /\ lost' = lost /\ client' = client
  BY DEF Join, storeVars, TypeInv
<1>2. \A c \in Children[p] : client[c] = "ok" => Complete(c)
  BY ChildFacts DEF OkInv
<1>3. ASSUME NEW m \in Merged(p) PROVE Recent(m)
  <2>1. CASE m \in rows[p]
    BY <2>1 DEF Complete
  <2>2. CASE m \notin rows[p]
    <3>1. PICK c \in Children[p] : /\ client[c] = "ok"
                                   /\ \E r \in rows[c] : /\ m.node = r.node /\ m.event = r.event
                                                         /\ m.from_cold = r.from_cold
      BY <2>2, MergedRows
    <3>2. PICK r \in rows[c] : m.node = r.node /\ m.event = r.event /\ m.from_cold = r.from_cold
      BY <3>1
    <3>3. Recent(r)
      BY <1>2, <3>1 DEF Complete
    <3> QED
      BY <3>2, <3>3 DEF Recent
  <2> QED
    BY <2>1, <2>2
<1>4. \A m \in rows'[p] :
        \/ m.event >= before'[m.node] /\ (m.from_cold => before'[m.node] <= lost'[m.node])
        \/ m.from_cold /\ before'[m.node] <= lost'[m.node]
  BY <1>1, <1>3 DEF Recent
<1>5. before'[Last(p)] > lost'[Last(p)] =>
        \E r \in rows'[p] : r.node = Last(p) /\ r.from_cold = FALSE
  BY <1>1, MergedRows DEF Complete
<1>6. ASSUME NEW c \in Children[p], client[c] = "ok", before'[Last(c)] > lost'[Last(c)]
      PROVE  \E r \in rows'[p] : r.node = Last(c) /\ r.from_cold = FALSE
  <2>1. PICK r \in rows[c] : r.node = Last(c) /\ r.from_cold = FALSE
    BY <1>1, <1>2, <1>6 DEF Complete
  <2> QED
    BY <1>1, <1>6, <2>1, MergedRows
<1>7. Complete(p)'
  BY <1>4, <1>5 DEF Complete, Recent
<1> QED
  BY <1>1, <1>6, <1>7

\* Every step keeps the rows recent.
LEMMA RecencyNext ==
  ASSUME TypeInv, TypeInv', CoverageInv, CoverageInv', StoreInv, RecencyInv, CurrentIsRecent,
         [Next]_vars
  PROVE  RecencyInv' /\ CurrentIsRecent'
<1>1. (RecencyInv <=> (tool = "get_current_state" =>
         \A p \in Paths : /\ server[p] = "cold" => before[Last(p)] <= lost[Last(p)]
                          /\ server[p] \in {"fan", "answered"} => Complete(p)))'
  BY RecencyParts, PTL
<1>2. (CurrentIsRecent <=>
         (server[Asked] = "answered" /\ tool = "get_current_state" =>
            /\ \A r \in rows[Asked] : Recent(r)
            /\ \A p \in {Asked} \cup {c \in Children[Asked] : client[c] = "ok"} :
                 before[Last(p)] > lost[Last(p)] =>
                   \E r \in rows[Asked] : r.node = Last(p) /\ r.from_cold = FALSE))'
  BY RecencyParts, PTL
<1>3. HopInv /\ OkInv /\ ColdInv /\ \A p \in Paths : server[p] = "answered" => Covered(p)
  BY CoveredShows DEF CoverageInv
<1>4. CASE Ask
  <2>1. server' = [server EXCEPT ![Asked] = "sent"] /\ \A p \in Paths : server[p] = "idle"
    BY <1>3, <1>4 DEF Ask, HopInv
  <2>2. \A p \in Paths : server'[p] \notin {"cold", "fan", "answered"}
    BY <2>1 DEF TypeInv
  <2> QED
    BY <1>1, <1>2, <2>2, AskedIsPath
<1>5. CASE ~Ask /\ tool = "get_current_state"
  <2>1. /\ UNCHANGED tool
        /\ \A p \in Paths :
             /\ server[p] = "answered" => server'[p] = "answered" /\ rows'[p] = rows[p]
             /\ client[p] \in Resolved => client'[p] = client[p]
             /\ server'[p] = "answered" => server[p] = "answered" \/ Join(p)
             /\ server'[p] = "fan" =>
                  (server[p] = "fan" /\ rows'[p] = rows[p]) \/ \E own : Start(p, own)
    BY <1>3, AnswersStay
  <2>2. before' = before /\ \A n \in Nodes : lost[n] <= lost'[n]
    BY <1>5, StoreNext
  <2>3. \A p \in Paths : /\ server[p] = "cold" => before[Last(p)] <= lost[Last(p)]
                         /\ server[p] \in {"fan", "answered"} => Complete(p)
    BY <1>5, RecencyParts
  <2>4. /\ \A r \in Row : Recent(r) => Recent(r)'
        /\ \A p \in Paths : rows'[p] = rows[p] /\ Complete(p) => Complete(p)'
    BY <1>5, RecentStays
  <2>5. ASSUME NEW p \in Paths, server'[p] = "cold" PROVE before'[Last(p)] <= lost'[Last(p)]
    <3>1. /\ Last(p) \in Nodes /\ before[Last(p)] \in Nat /\ lost[Last(p)] \in Nat
          /\ lost'[Last(p)] \in Nat /\ newest[Last(p)] \in Nat
      BY PathType DEF TypeInv
    <3>2. CASE server[p] = "cold"
      BY <2>2, <2>3, <3>1, <3>2
    <3>3. CASE server[p] # "cold"
      <4>1. MissRing(p) \/ Describe(p) \/ ReadRing(p) \/ ReadCold(p)
        BY <2>5, <3>3, ReadKinds
      <4>2. ~Describe(p) /\ ~ReadRing(p) /\ ~ReadCold(p)
        BY <2>5 DEF Describe, ReadRing, ReadCold, FanOut
      <4>3. ring[Last(p)] = NoEvent
        BY <4>1, <4>2 DEF MissRing
      <4>4. before[Last(p)] <= lost[Last(p)]
        BY <3>1, <4>3 DEF StoreInv, NoEvent
      <4> QED
        BY <2>2, <3>1, <4>4
    <3> QED
      BY <3>2, <3>3
  <2>6. ASSUME NEW p \in Paths, server'[p] \in {"fan", "answered"} PROVE Complete(p)'
    <3>1. CASE server[p] \in {"fan", "answered"} /\ rows'[p] = rows[p]
      BY <2>3, <2>4, <3>1
    <3>2. ASSUME NEW own, Start(p, own), server'[p] = "fan" PROVE Complete(p)'
      <4>1. server'[p] # server[p]
        BY <3>2 DEF Start
      <4>2. MissRing(p) \/ Describe(p) \/ ReadRing(p) \/ ReadCold(p)
        BY <3>2, <4>1, ReadKinds
      <4>3. ~MissRing(p) /\ ~Describe(p)
        BY <1>5, <3>2 DEF MissRing, Describe, TypeInv
      <4> QED
        BY <2>3, <4>2, <4>3, ReadIsComplete
    <3>3. CASE Join(p)
      <4>1. Complete(p)
        BY <2>3, <3>3 DEF Join
      <4>2. \A c \in Paths : server[c] = "answered" => Complete(c)
        BY <2>3
      <4> QED
        BY <1>3, <3>3, <4>1, <4>2, JoinIsComplete
    <3> QED
      BY <2>1, <2>6, <3>1, <3>2, <3>3
  <2>7. RecencyInv'
    BY <1>1, <2>5, <2>6
  <2>8. ASSUME server'[Asked] = "answered",
               NEW c \in Children[Asked], client'[c] = "ok", before'[Last(c)] > lost'[Last(c)]
        PROVE  \E r \in rows'[Asked] : r.node = Last(c) /\ r.from_cold = FALSE
    <3>0. c \in Paths /\ Last(c) \in Nodes
      BY ChildFacts, AskedIsPath
    <3>1. CASE server[Asked] = "answered"
      <4>1. rows'[Asked] = rows[Asked]
        BY <2>1, <3>1, AskedIsPath
      <4>2. client[c] \in Resolved
        BY <1>3, <3>1, AskedIsPath DEF Covered
      <4>3. client[c] = "ok"
        BY <2>1, <2>8, <3>0, <4>2
      <4>4. before[Last(c)] > lost[Last(c)]
        BY <2>2, <2>8, <3>0 DEF TypeInv
      <4> QED
        BY <1>5, <3>1, <4>1, <4>3, <4>4, RecencyParts
    <3>2. CASE Join(Asked)
      <4>1. Complete(Asked) /\ \A d \in Paths : server[d] = "answered" => Complete(d)
        BY <2>3, <3>2, AskedIsPath DEF Join
      <4>2. /\ client' = client
            /\ \A d \in Children[Asked] :
                 client[d] = "ok" /\ before'[Last(d)] > lost'[Last(d)] =>
                   \E r \in rows'[Asked] : r.node = Last(d) /\ r.from_cold = FALSE
        BY <1>3, <3>2, <4>1, AskedIsPath, JoinIsComplete
      <4> QED
        BY <2>8, <4>2
    <3> QED
      BY <2>1, <2>8, <3>1, <3>2, AskedIsPath
  <2>9. CurrentIsRecent'
    <3>1. server'[Asked] = "answered" => Complete(Asked)'
      BY <2>6, AskedIsPath
    <3>2. server'[Asked] = "answered" =>
            /\ (\A r \in rows[Asked] : Recent(r))'
            /\ before'[Last(Asked)] > lost'[Last(Asked)] =>
                 \E r \in rows'[Asked] : r.node = Last(Asked) /\ r.from_cold = FALSE
      BY <3>1, Zenon DEF Complete
    <3> QED
      BY <1>2, <2>8, <3>2
  <2> QED
    BY <2>7, <2>9
<1>6. CASE tool # "get_current_state"
  <2>1. tool' = tool
    BY <1>3, AnswersStay
  <2> QED
    BY <1>1, <1>2, <1>6, <2>1
<1> QED
  BY <1>4, <1>5, <1>6

\* The event in a row of get_current_state is no older than the newest its
\* node had published when the question was asked, unless that node has been
\* restarted since (McpTools::get_current_state).
THEOREM CurrentStateIsRecent == Spec => []CurrentIsRecent
<1> DEFINE Inv == TypeInv /\ CoverageInv /\ StoreInv /\ RecencyInv /\ CurrentIsRecent
<1>1. Init => Inv
  <2> SUFFICES ASSUME Init PROVE Inv
    OBVIOUS
  <2>1. \A p \in Paths : server[p] = "idle"
    BY DEF Init
  <2> QED
    BY <2>1, CoverageInit, AskedIsPath DEF Init, StoreInv, RecencyInv, CurrentIsRecent, NoEvent
<1>2. Inv /\ [Next]_vars => Inv'
  BY TypeNext, CoverageNext, StoreNext, RecencyNext
<1> QED
  BY <1>1, <1>2, PTL DEF Spec
=============================================================================
