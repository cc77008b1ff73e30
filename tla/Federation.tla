----------------------------- MODULE Federation -----------------------------
(***************************************************************************)
(* The two MCP tools that federate, describe_sources and get_current_state *)
(* (crates/percept/src/mcp/tools.rs), their client for peers (peer.rs) and *)
(* the endpoint that serves them (mcp/router.rs).                          *)
(*                                                                         *)
(* A node that runs one of the tools reads its own rows, calls the same    *)
(* tool at each of its peers, and merges.  The peers do the same: nothing  *)
(* tells them that the call came from a peer, so one question spreads      *)
(* along the peer relation, round its cycles too.  A call is named by the  *)
(* path from the node that was asked; MaxHops bounds the paths followed,   *)
(* and a call of that length whose node has peers waits for them for good. *)
(*                                                                         *)
(* Every node has one (source_id, kind) pair.  Its events are numbered in  *)
(* the order in which the normalizer published them.                       *)
(***************************************************************************)
EXTENDS Integers, Sequences, SequencesExt

CONSTANTS
  Nodes,
  Root,         \* the node the MCP client asks
  PeersOf,      \* [Nodes -> SUBSET Nodes], its [[peer]] entries
  TsOf,         \* ts_ms_utc of event i: a sequence
  MaxHops,      \* bound on the length of call paths
  EventsOf,     \* [Nodes -> Nat], bound on the events published at a node
  MaxRestarts   \* bound on restarts

Null == "null"
NoEvent == 0

ASSUME FederationAssumption ==
  /\ Root \in Nodes /\ Null \notin Nodes
  /\ PeersOf \in [Nodes -> SUBSET Nodes]
  /\ TsOf \in Seq(Nat)
  /\ EventsOf \in [Nodes -> 0 .. Len(TsOf)]
  /\ MaxHops \in Nat \ {0}
  /\ MaxRestarts \in Nat

Paths ==
  UNION {{p \in [1 .. n -> Nodes] :
            /\ p[1] = Root
            /\ \A i \in 1 .. n - 1 : p[i + 1] \in PeersOf[p[i]]} :
         n \in 1 .. MaxHops}

Asked == <<Root>>

\* The calls a call makes, one per peer of its node.
Children ==
  [p \in Paths |-> {c \in Paths : Len(c) = Len(p) + 1 /\ Front(c) = p}]

VARIABLES
  \* the stores of each node
  newest,     \* its last published event (NoEvent: none)
  ring,       \* the back of its hot ring
  unflushed,  \* events on their way to the cold store
  cold,       \* its row of table latest
  lost,       \* its newest event at its last restart (history)
  restarts,
  \* the calls
  tool,       \* the tool that is called
  server,     \* [Paths -> state of the call at the node that serves it]:
              \* "idle", "sent", "cold", "fan", "gone" or in Served
  client,     \* [Paths -> state of the call at the caller]: "none",
              \* "pending", "reading", in Resolved (a PeerStatus), or
              \* "dropped" with the handler that made it
  rows,       \* [Paths -> rows of the call so far]: [node, event, from_cold,
              \* peer], the last being its peer_id
  before      \* newest when Root was asked (history)

storeVars == <<newest, ring, unflushed, cold, lost, restarts>>
vars == <<newest, ring, unflushed, cold, lost, restarts, tool, server, client,
          rows, before>>

Served == {"refused", "failed", "answered"}
Resolved == {"ok", "timeout", "error"}

Init ==
  /\ newest = [n \in Nodes |-> NoEvent]
  /\ ring = [n \in Nodes |-> NoEvent]
  /\ unflushed = [n \in Nodes |-> {}]
  /\ cold = [n \in Nodes |-> NoEvent]
  /\ lost = [n \in Nodes |-> NoEvent]
  /\ restarts = 0
  /\ tool \in {"describe_sources", "get_current_state"}
  /\ server = [p \in Paths |-> "idle"]
  /\ client = [p \in Paths |-> "none"]
  /\ rows = [p \in Paths |-> {}]
  /\ before = [n \in Nodes |-> NoEvent]

-----------------------------------------------------------------------------
(* The stores, as far as the tools read them                               *)

\* The normalizer pushes an event on the ring and hands it to the cold writer.
Publish(n) ==
  /\ newest[n] < EventsOf[n]
  /\ newest' = [newest EXCEPT ![n] = @ + 1]
  /\ ring' = [ring EXCEPT ![n] = newest'[n]]
  /\ unflushed' = [unflushed EXCEPT ![n] = @ \cup {newest'[n]}]
  /\ UNCHANGED <<cold, lost, restarts, tool, server, client, rows, before>>

\* The cold writer commits the oldest; table latest keeps the row with the
\* greatest ts_ms_utc.
Flush(n) ==
  /\ unflushed[n] # {}
  /\ LET e == Min(unflushed[n])
     IN  /\ unflushed' = [unflushed EXCEPT ![n] = @ \ {e}]
         /\ cold' = [cold EXCEPT ![n] =
                       IF @ = NoEvent \/ TsOf[e] > TsOf[@] THEN e ELSE @]
  /\ UNCHANGED <<newest, ring, lost, restarts, tool, server, client, rows,
                 before>>

\* A node stops and starts again: ring, channels and handlers are gone, and
\* with the handlers the calls they were waiting for.
Restart(n) ==
  LET here == {p \in Paths : Last(p) = n /\ server[p] \in {"sent", "cold", "fan"}}
  IN  /\ restarts < MaxRestarts
      /\ restarts' = restarts + 1
      /\ ring' = [ring EXCEPT ![n] = NoEvent]
      /\ unflushed' = [unflushed EXCEPT ![n] = {}]
      /\ lost' = [lost EXCEPT ![n] = newest[n]]
      /\ server' = [p \in Paths |-> IF p \in here THEN "gone" ELSE server[p]]
      /\ client' = [p \in Paths |->
                      IF p # Asked /\ Front(p) \in here
                         /\ client[p] \in {"pending", "reading"}
                      THEN "dropped" ELSE client[p]]
      /\ UNCHANGED <<newest, cold, tool, rows, before>>

-----------------------------------------------------------------------------
(* Serving a call                                                          *)

\* The MCP client asks Root.
Ask ==
  /\ server[Asked] = "idle"
  /\ server' = [server EXCEPT ![Asked] = "sent"]
  /\ before' = newest
  /\ UNCHANGED <<newest, ring, unflushed, cold, lost, restarts, tool, client,
                 rows>>

\* authenticate turns the request away: 401, no JSON-RPC envelope.
Refuse(p) ==
  /\ server[p] = "sent"
  /\ server' = [server EXCEPT ![p] = "refused"]
  /\ UNCHANGED <<storeVars, tool, client, rows, before>>

\* An envelope with an error: the arguments or the filters of the first call
\* do not parse (peers get the same filters), or the cold store fails.
Fail(p) ==
  /\ server[p] = "cold" \/ (server[p] = "sent" /\ p = Asked)
  /\ server' = [server EXCEPT ![p] = "failed"]
  /\ UNCHANGED <<storeVars, tool, client, rows, before>>

OwnRow(n, e, isCold) ==
  [node |-> n, event |-> e, from_cold |-> isCold, peer |-> Null]

\* The node's own rows are known: call the peers.
FanOut(p, own) ==
  /\ rows' = [rows EXCEPT ![p] = own]
  /\ server' = [q \in Paths |-> IF q = p THEN "fan"
                                ELSE IF q \in Children[p] THEN "sent"
                                ELSE server[q]]
  /\ client' = [q \in Paths |->
                  IF q \in Children[p] THEN "pending" ELSE client[q]]

\* describe_sources reads its registry.
Describe(p) ==
  /\ server[p] = "sent"
  /\ tool = "describe_sources"
  /\ FanOut(p, {OwnRow(Last(p), NoEvent, FALSE)})
  /\ UNCHANGED <<storeVars, tool, before>>

\* get_current_state looks at the hot ring ...
ReadRing(p) ==
  /\ server[p] = "sent"
  /\ tool = "get_current_state"
  /\ ring[Last(p)] # NoEvent
  /\ FanOut(p, {OwnRow(Last(p), ring[Last(p)], FALSE)})
  /\ UNCHANGED <<storeVars, tool, before>>

\* Mutant: the cold store is asked whether the ring is empty or not.
MissRing_Always(p) ==
  /\ server[p] = "sent"
  /\ tool = "get_current_state"
  /\ server' = [server EXCEPT ![p] = "cold"]
  /\ UNCHANGED <<storeVars, tool, client, rows, before>>

MissRing(p) ==
  /\ server[p] = "sent"
  /\ tool = "get_current_state"
  /\ ring[Last(p)] = NoEvent
  /\ server' = [server EXCEPT ![p] = "cold"]
  /\ UNCHANGED <<storeVars, tool, client, rows, before>>

\* ... and on a miss, some time later, at the cold store.
ReadCold(p) ==
  /\ server[p] = "cold"
  /\ FanOut(p, IF cold[Last(p)] = NoEvent THEN {}
               ELSE {OwnRow(Last(p), cold[Last(p)], TRUE)})
  /\ UNCHANGED <<storeVars, tool, before>>

\* The rows of the peers that answered, under the id of the direct peer: what
\* a row had there before is overwritten.
Merged(p) ==
  rows[p] \cup
    UNION {{[r EXCEPT !.peer = Last(c)] : r \in rows[c]} :
             c \in {d \in Children[p] : client[d] = "ok"}}

\* Mutants: the first outcome is enough; every peer must have answered.
Join_First(p) ==
  /\ server[p] = "fan"
  /\ Len(p) = MaxHops => PeersOf[Last(p)] = {}
  /\ Children[p] # {} => \E c \in Children[p] : client[c] \in Resolved
  /\ server' = [server EXCEPT ![p] = "answered"]
  /\ rows' = [rows EXCEPT ![p] = Merged(p)]
  /\ UNCHANGED <<storeVars, tool, client, before>>
Join_AllOk(p) ==
  /\ server[p] = "fan"
  /\ Len(p) = MaxHops => PeersOf[Last(p)] = {}
  /\ \A c \in Children[p] : client[c] = "ok"
  /\ server' = [server EXCEPT ![p] = "answered"]
  /\ rows' = [rows EXCEPT ![p] = Merged(p)]
  /\ UNCHANGED <<storeVars, tool, client, before>>

\* join_all has every peer's outcome; the handler answers.
Join(p) ==
  /\ server[p] = "fan"
  /\ Len(p) = MaxHops => PeersOf[Last(p)] = {}
  /\ \A c \in Children[p] : client[c] \in Resolved
  /\ server' = [server EXCEPT ![p] = "answered"]
  /\ rows' = [rows EXCEPT ![p] = Merged(p)]
  /\ UNCHANGED <<storeVars, tool, client, before>>

-----------------------------------------------------------------------------
(* call_tool                                                               *)

Becomes(p, status) ==
  /\ client' = [client EXCEPT ![p] = status]
  /\ UNCHANGED <<storeVars, tool, server, rows, before>>

\* send() resolves with the response's headers; a status other than 2xx is
\* the peer's error.
Headers(p) ==
  /\ client[p] = "pending"
  /\ server[p] \in Served
  /\ Becomes(p, IF server[p] = "refused" THEN "error" ELSE "reading")

\* json() resolves: with an error envelope or with the tool's result.
Body(p) ==
  /\ client[p] = "reading"
  /\ Becomes(p, IF server[p] = "answered" THEN "ok" ELSE "error")

\* The connection fails, before the headers or after.
ConnectionFails(p) ==
  /\ client[p] \in {"pending", "reading"}
  /\ Becomes(p, "error")

\* tokio::time::timeout wraps send(), and only send().
Timeout(p) ==
  /\ client[p] = "pending"
  /\ Becomes(p, "timeout")

\* The caller has given up and closed the connection: the endpoint drops the
\* handler where it waits, and its own calls with it.
Cancel(p) ==
  /\ server[p] = "fan"
  /\ client[p] \in {"timeout", "error", "dropped"}
  /\ server' = [server EXCEPT ![p] = "gone"]
  /\ client' = [c \in Paths |->
                  IF c \in Children[p] /\ client[c] \in {"pending", "reading"}
                  THEN "dropped" ELSE client[c]]
  /\ UNCHANGED <<storeVars, tool, rows, before>>

-----------------------------------------------------------------------------
Handler(p) == Describe(p) \/ ReadRing(p) \/ MissRing(p) \/ ReadCold(p) \/ Join(p)

Faults ==
  \/ \E p \in Paths : Refuse(p) \/ Fail(p) \/ ConnectionFails(p) \/ Cancel(p)
  \/ \E n \in Nodes : Restart(n)

\* The world around: sensors and the MCP client.
World == Ask \/ \E n \in Nodes : Publish(n) \/ Flush(n)

\* What handlers and the runtime's timers do by themselves.
Progress == \E p \in Paths : Handler(p) \/ Headers(p) \/ Timeout(p)

BodyArrives == \E p \in Paths : Body(p)

Next == World \/ Faults \/ Progress \/ BodyArrives

Spec == Init /\ [][Next]_vars

\* Peers may leave requests unanswered for good; what a peer has begun to
\* answer is assumed to arrive, or its connection to fail: call_tool has no
\* timeout of its own for that part.
FairSpec == Spec /\ WF_vars(Progress) /\ WF_vars(BodyArrives)

-----------------------------------------------------------------------------
(* Properties                                                              *)

\* Partial coverage shows: in an answer, at every hop, each configured peer
\* has a status of its own (a timeout is never mistaken for an empty answer),
\* what stands under a peer's id came in that peer's answer to this very
\* call, a peer that counts as ok is there with its own rows, and what stands
\* under no id is the node's own.
PartialCoverageShows ==
  \A p \in Paths :
    server[p] = "answered" =>
      /\ \A c \in Children[p] :
           /\ client[c] \in Resolved
           /\ LET under == {r \in rows[p] : r.peer = Last(c)}
              IN  IF client[c] # "ok" THEN under = {}
                  ELSE /\ server[c] = "answered"
                       /\ {r.node : r \in under} = {r.node : r \in rows[c]}
                       /\ tool = "describe_sources" =>
                            \E r \in under : r.node = Last(c)
      /\ \A r \in rows[p] : r.peer = Null => r.node = Last(p)

\* The event in a row of get_current_state, own or a peer's, is no older (by
\* arrival) than the newest that its node had published when the question
\* was asked, unless that node has been restarted since it published that
\* one; only then may the row come from the cold store or be missing.
CurrentIsRecent ==
  (server[Asked] = "answered" /\ tool = "get_current_state") =>
    LET answered == {Asked} \cup {c \in Children[Asked] : client[c] = "ok"}
    IN  /\ \A r \in rows[Asked] :
             \/ r.event >= before[r.node] /\ (r.from_cold => before[r.node] <= lost[r.node])
             \/ r.from_cold /\ before[r.node] <= lost[r.node]
        /\ \A p \in answered :
             before[Last(p)] > lost[Last(p)] =>
               \E r \in rows[Asked] : r.node = Last(p) /\ ~r.from_cold

\* A question is answered (or its handler dies with its process) whatever the
\* peers do, as long as an answer that has begun ends: peers that stay
\* silent, fail, or ask back round a cycle cost a timeout each.
EventuallyAnswered ==
  server[Asked] = "sent" ~> server[Asked] \in Served \cup {"gone"}
=============================================================================
