--------------------------- MODULE MqttSubscriber ---------------------------
(***************************************************************************)
(* The subscriber task of one MQTT broker                                  *)
(* (crates/ingest/src/mqtt/subscriber.rs), the routing of messages to      *)
(* ingest envelopes (topic.rs, router.rs, decode.rs), and, as far as the   *)
(* task uses them, the rumqttc client and the broker.                      *)
(*                                                                         *)
(* The task asks for all its subscriptions, then polls the event loop for  *)
(* good.  The requests wait in a bounded channel that only polling         *)
(* empties; a request leaves it for the socket, and reaches the broker     *)
(* later or never.  The broker's session lasts as long as the connection   *)
(* (the options keep rumqttc's clean session), and the task subscribes     *)
(* once.                                                                   *)
(*                                                                         *)
(* A topic is a sequence of levels, a filter one of levels, "+" and "#".   *)
(* A payload is what the decoders can tell apart.                          *)
(***************************************************************************)
EXTENDS Integers, Sequences, FiniteSets, SequencesExt

CONSTANTS
  Subs,         \* the subscriptions, in configuration order:
                \* [filter, template, kind, payload]
  Topics,       \* topics devices publish on
  RequestCap,   \* capacity of rumqttc's request channel
  BusDepth,     \* capacity of the bus
  MaxMessages,  \* bound on the messages published
  MaxOutages    \* bound on lost or refused connections

\* template is the set of its placeholders: n for {+n}, 0 for {#}.
Formats == {"json", "raw", "hex", "csv"}
\* JSON with a string where kind_field points, other JSON, text, other bytes.
Payloads == {"kinded", "json", "text", "bytes"}

\* A filter is one that MQTT allows: it has a level, and a "#" is its last.
\* (Others are refused by the client library or by the broker.)
Filters == {f \in Seq(STRING) : /\ f # <<>>
                               /\ \A i \in DOMAIN f : f[i] = "#" => i = Len(f)}

ASSUME MqttAssumption ==
  /\ Subs \in Seq([filter : Filters, template : SUBSET Nat,
                  kind : {"static", "field"}, payload : Formats])
  /\ Topics \subseteq Seq(STRING)
  /\ RequestCap \in Nat \ {0} /\ BusDepth \in Nat \ {0}
  /\ MaxMessages \in Nat /\ MaxOutages \in Nat

VARIABLES
  next,      \* the subscription run() asks for next
  requests,  \* the request channel
  written,   \* requests on their way to the broker
  conn,      \* "down", "up" or "sleep" (the second after an error)
  session,   \* subscriptions the broker knows of
  wire,      \* messages on their way to the task
  bus,       \* envelopes of this task on the bus
  count,     \* the task's counters
  granted,   \* subscriptions the broker has known of at some time (history)
  lost,      \* an established connection was lost at some time (history)
  published, outages

vars == <<next, requests, written, conn, session, wire, bus, count, granted,
          lost, published, outages>>

Counters == {"received", "unmatched", "decode_failed", "reconnects", "dropped",
             "sent"}

Init ==
  /\ next = 1
  /\ requests = <<>>
  /\ written = <<>>
  /\ conn = "down"
  /\ session = {}
  /\ wire = <<>>
  /\ bus = <<>>
  /\ count = [c \in Counters |-> 0]
  /\ granted = {}
  /\ lost = FALSE
  /\ published = 0
  /\ outages = 0

-----------------------------------------------------------------------------
(* topic.rs, router.rs, decode.rs                                          *)

\* Levels in front of the first "#", or all.
Plain(filter) ==
  IF \E i \in DOMAIN filter : filter[i] = "#"
  THEN SubSeq(filter, 1, Min({i \in DOMAIN filter : filter[i] = "#"}) - 1)
  ELSE filter

\* Mutant: "#" needs a level of its own.
Captures_Tail(filter, topic) ==
  LET plain == Plain(filter)
  IN  /\ \A i \in DOMAIN plain : i <= Len(topic) /\ plain[i] \in {"+", topic[i]}
      /\ IF plain = filter THEN Len(topic) = Len(plain) ELSE Len(topic) > Len(plain)

\* TopicMatcher::captures finds a match: level by level, "#" takes the rest,
\* even an empty one.
Captures(filter, topic) ==
  LET plain == Plain(filter)
  IN  /\ \A i \in DOMAIN plain : i <= Len(topic) /\ plain[i] \in {"+", topic[i]}
      /\ plain = filter => Len(topic) = Len(plain)

\* render finds a capture for each placeholder.
Renders(sub) ==
  \A n \in sub.template :
    IF n = 0 THEN Plain(sub.filter) # sub.filter
    ELSE n <= Cardinality({i \in DOMAIN Plain(sub.filter) : sub.filter[i] = "+"})

Decodes(format, payload) ==
  CASE format = "json" -> payload \in {"kinded", "json"}
    [] format = "csv" -> payload # "bytes"
    [] OTHER -> TRUE

\* resolve_kind: a static kind, or the string kind_field finds in the payload.
\* (A kind_field is meant for JSON; one that names a field which another
\* decoder puts around the bytes, such as its "encoding", is left out.)
KindResolved(sub, payload) ==
  sub.kind = "static" \/ (sub.payload = "json" /\ payload = "kinded")

\* route: the first subscription that matches decides, whatever becomes of
\* the message there.
Route(m) ==
  LET matching == {i \in DOMAIN Subs : Captures(Subs[i].filter, m.topic)}
      i == Min(matching)
  IN  IF matching = {} THEN [result |-> "unmatched"]
      ELSE IF ~Renders(Subs[i]) \/ ~Decodes(Subs[i].payload, m.payload)
              \/ ~KindResolved(Subs[i], m.payload)
      THEN [result |-> "decode_failed"]
      ELSE [result |-> "event", sub |-> i, message |-> m]

-----------------------------------------------------------------------------
(* The task                                                                *)

Subscribing == next <= Len(Subs)
Polling == ~Subscribing /\ conn # "sleep"

\* Mutant: each subscription is to be acknowledged before the next.
Subscribe_Acked ==
  /\ Subscribing
  /\ Len(requests) < RequestCap
  /\ next > 1 => next - 1 \in session
  /\ requests' = Append(requests, next)
  /\ next' = next + 1
  /\ UNCHANGED <<written, conn, session, wire, bus, count, granted, lost,
                 published, outages>>

\* client.subscribe waits for room in the request channel.
Subscribe ==
  /\ Subscribing
  /\ Len(requests) < RequestCap
  /\ requests' = Append(requests, next)
  /\ next' = next + 1
  /\ UNCHANGED <<written, conn, session, wire, bus, count, granted, lost,
                 published, outages>>

Bumped(cs) == [c \in Counters |-> count[c] + IF c \in cs THEN 1 ELSE 0]

\* An incoming message and all of handle_publish.
HandlePublish ==
  /\ Polling
  /\ conn = "up"
  /\ wire # <<>>
  /\ wire' = Tail(wire)
  /\ LET r == Route(Head(wire))
     IN  IF r.result # "event"
         THEN /\ count' = Bumped({"received", r.result})
              /\ UNCHANGED bus
         ELSE IF Len(bus) < BusDepth
         THEN /\ count' = Bumped({"received", "sent"})
              /\ bus' = Append(bus, r)
         ELSE /\ count' = Bumped({"received", "dropped"})
              /\ UNCHANGED bus
  /\ UNCHANGED <<next, requests, written, conn, session, granted, lost,
                 published, outages>>

\* poll returns an error; the task counts it and sleeps for a second.
PollError ==
  /\ Polling
  /\ outages < MaxOutages
  /\ outages' = outages + 1
  /\ conn' = "sleep"
  /\ count' = Bumped({"reconnects"})
  /\ UNCHANGED <<next, bus, granted, published>>

\* The error of an attempt to connect: the requests stay in the channel.
ConnectRefused ==
  /\ conn = "down"
  /\ PollError
  /\ UNCHANGED <<requests, written, session, wire, lost>>

\* The error of an established connection.  What was written and not handled
\* is gone with it; and rumqttc drains its channel to a list of pending
\* requests, which it clears when the broker next answers without a session,
\* as it does to a clean one: none of them is ever sent.
ConnectionLost ==
  /\ conn = "up"
  /\ PollError
  /\ requests' = <<>> /\ written' = <<>>
  /\ session' = {} /\ wire' = <<>>
  /\ lost' = TRUE

Wake ==
  /\ conn = "sleep"
  /\ conn' = "down"
  /\ UNCHANGED <<next, requests, written, session, wire, bus, count, granted,
                 lost, published, outages>>

-----------------------------------------------------------------------------
(* rumqttc, the broker and the devices                                     *)

Connect ==
  /\ Polling
  /\ conn = "down"
  /\ conn' = "up"
  /\ UNCHANGED <<next, requests, written, session, wire, bus, count, granted,
                 lost, published, outages>>

\* A request leaves the channel for the socket.
SendRequest ==
  /\ Polling
  /\ conn = "up"
  /\ requests # <<>>
  /\ requests' = Tail(requests)
  /\ written' = Append(written, Head(requests))
  /\ UNCHANGED <<next, conn, session, wire, bus, count, granted, lost,
                 published, outages>>

\* The broker handles a SUBSCRIBE that reached it.
BrokerSubscribes ==
  /\ written # <<>>
  /\ written' = Tail(written)
  /\ session' = session \cup {Head(written)}
  /\ granted' = granted \cup {Head(written)}
  /\ UNCHANGED <<next, requests, conn, wire, bus, count, lost, published,
                 outages>>

\* The protocol's rule for filters: level for level, "+" for any one level,
\* and a "#", which is last, for any number of them, none included.
FilterCovers(filter, topic) ==
  LET n == Len(filter)
      Covers(k) == \A i \in 1 .. k : filter[i] \in {"+", topic[i]}
  IN  IF filter[n] = "#" THEN n - 1 <= Len(topic) /\ Covers(n - 1)
      ELSE n = Len(topic) /\ Covers(n)

\* A device publishes.  Where subscriptions overlap the broker may send the
\* message once or once for each.
Publish(t, payload) ==
  /\ published < MaxMessages
  /\ published' = published + 1
  /\ LET for == {i \in session : FilterCovers(Subs[i].filter, t)}
     IN  \E copies \in {Min({1, Cardinality(for)}), Cardinality(for)} :
           wire' = wire \o [c \in 1 .. copies |-> [topic |-> t, payload |-> payload]]
  /\ UNCHANGED <<next, requests, written, conn, session, bus, count, granted,
                 lost, outages>>

\* The normalizer takes an envelope.
Drain ==
  /\ bus # <<>>
  /\ bus' = Tail(bus)
  /\ UNCHANGED <<next, requests, written, conn, session, wire, count, granted,
                 lost, published, outages>>

-----------------------------------------------------------------------------
Task == Subscribe \/ HandlePublish \/ Wake

World == \/ ConnectRefused \/ ConnectionLost \/ Drain
         \/ \E t \in Topics, p \in Payloads : Publish(t, p)

Next == Task \/ Connect \/ SendRequest \/ BrokerSubscribes \/ World

Spec == Init /\ [][Next]_vars

\* The task runs, the broker can be reached again after an outage, what poll
\* has to send it sends, and what reaches the broker it handles.
FairSpec ==
  Spec /\ WF_vars(Subscribe) /\ WF_vars(Wake)
       /\ WF_vars(Connect) /\ WF_vars(SendRequest) /\ WF_vars(BrokerSubscribes)

-----------------------------------------------------------------------------
(* Properties                                                              *)

\* The task matches topics as the broker does: a message it was sent for one
\* of its filters is never counted as matching none.  Every message received
\* is counted under exactly one outcome, and what is on the bus was built by
\* a subscription that could decode it.
RoutedAsSubscribed ==
  /\ count["unmatched"] = 0
  /\ count["received"] = count["unmatched"] + count["decode_failed"]
                           + count["dropped"] + count["sent"]
  /\ \A i \in DOMAIN bus :
       LET s == Subs[bus[i].sub]
       IN  /\ FilterCovers(s.filter, bus[i].message.topic)
           /\ s.payload = "json" => bus[i].message.payload \in {"kinded", "json"}

\* Every subscription of the configuration reaches the broker, however often
\* it refuses the connection at first: the requests wait in the channel.  (It
\* must hold all of them, since nothing polls before the last one is in.)
\* Only the loss of an established connection prevents that: it takes the
\* requests with it, and run() asks once.
EventuallySubscribed == <>(granted = DOMAIN Subs \/ lost)
=============================================================================
