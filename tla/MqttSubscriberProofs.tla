------------------------ MODULE MqttSubscriberProofs ------------------------
(***************************************************************************)
(* What holds of a subscriber task for all subscriptions with filters that *)
(* MQTT allows, all topics, channel and bus sizes: the task's matching     *)
(* agrees with the broker's, and every message is counted once.            *)
(***************************************************************************)
EXTENDS MqttSubscriber, SequenceTheorems, FiniteSetTheorems, TLAPS

\* Every non-empty set of natural numbers has a least element.
LEMMA NatMin ==
  ASSUME NEW T \in SUBSET Nat, T # {}
  PROVE  \E x \in T : \A y \in T : x <= y
<1>1. PICK x \in T : \A y \in T : ~(<<y, x>> \in OpToRel(<, Nat))
  BY NatLessThanWellFounded, WFMin
<1>2. ASSUME NEW y \in T PROVE x <= y
  <2>1. y < x => <<y, x>> \in OpToRel(<, Nat)
    BY DEF OpToRel
  <2>2. ~(y < x)
    BY <2>1, <1>1, Zenon
  <2>3. x \in Nat /\ y \in Nat
    OBVIOUS
  <2> QED
    BY <2>2, <2>3, SMT
<1> QED
  BY <1>2

-----------------------------------------------------------------------------
(* Invariants                                                              *)

Message == [topic : Topics, payload : Payloads]
Envelope == [result : {"event"}, sub : DOMAIN Subs, message : Message]

\* Some subscription covers the topic of m.
Covered(m) == \E i \in DOMAIN Subs : FilterCovers(Subs[i].filter, m.topic)

\* What the broker knows of, and is about to be told of, are subscriptions of
\* the configuration.
SubsInv ==
  /\ next \in Nat \ {0}
  /\ requests \in Seq(DOMAIN Subs)
  /\ written \in Seq(DOMAIN Subs)
  /\ session \subseteq DOMAIN Subs

\* The broker sent the task what is on the wire for one of its filters; also
\* after an outage, when the session has forgotten that filter.
WireInv ==
  /\ wire \in Seq(Message)
  /\ \A i \in 1 .. Len(wire) : Covered(wire[i])

\* The counters and the envelopes on the bus have their types.
TaskInv ==
  /\ count \in [Counters -> Nat]
  /\ bus \in Seq(Envelope)

MqttInv == SubsInv /\ WireInv /\ TaskInv /\ RoutedAsSubscribed

-----------------------------------------------------------------------------
(* Matching                                                                *)

\* A subscription and its filter.
LEMMA SubType ==
  ASSUME NEW i \in DOMAIN Subs
  PROVE  /\ Subs[i].filter \in Filters /\ Subs[i].payload \in Formats
         /\ i \in Nat
<1> DEFINE Sub == [filter : Filters, template : SUBSET Nat,
                   kind : {"static", "field"}, payload : Formats]
<1>1. Subs \in Seq(Sub)
  BY MqttAssumption
<1> HIDE DEF Sub
<1>2. Subs[i] \in Sub /\ i \in Nat
  BY <1>1
<1> QED
  BY <1>2 DEF Sub

\* The levels in front of "#": all but the last, or all if there is none.
LEMMA PlainLevels ==
  ASSUME NEW f \in Filters
  PROVE  /\ Len(f) \in Nat \ {0} /\ f \in Seq(STRING)
         /\ f[Len(f)] = "#" => /\ Len(Plain(f)) = Len(f) - 1
                               /\ \A i \in 1 .. Len(f) - 1 : Plain(f)[i] = f[i]
                               /\ Plain(f) # f
                               /\ Plain(f) \in Seq(STRING)
         /\ f[Len(f)] # "#" => Plain(f) = f
<1> DEFINE H == {i \in DOMAIN f : f[i] = "#"}
<1>1. /\ Len(f) \in Nat \ {0} /\ f \in Seq(STRING) /\ DOMAIN f = 1 .. Len(f)
      /\ \A i \in DOMAIN f : f[i] = "#" => i = Len(f)
  BY DEF Filters
<1>a. PICK n \in Nat : n = Len(f) /\ n # 0
  BY <1>1
<1>2. CASE f[Len(f)] = "#"
  <2>1. H = {Len(f)}
    BY <1>1, <1>2
  <2>2. Min({Len(f)}) = Len(f)
    BY <1>1 DEF Min
  <2>3. Plain(f) = SubSeq(f, 1, Len(f) - 1)
    BY <1>1, <1>2, <2>1, <2>2 DEF Plain
  <2>4. /\ SubSeq(f, 1, Len(f) - 1) \in Seq(STRING)
        /\ Len(SubSeq(f, 1, Len(f) - 1)) = Len(f) - 1
        /\ \A i \in 1 .. Len(f) - 1 : SubSeq(f, 1, Len(f) - 1)[i] = f[i]
    <3>1. PICK k \in Nat : k = Len(f) - 1
      <4>1. n - 1 \in Nat
        BY <1>a
      <4> QED
        BY <1>a, <4>1, Zenon
    <3>2. \A i \in 1 .. k : f[i] \in STRING
      BY <1>1, <3>1
    <3>3. /\ SubSeq(f, 1, k) \in Seq(STRING)
          /\ Len(SubSeq(f, 1, k)) = IF 1 <= k THEN k - 1 + 1 ELSE 0
          /\ \A i \in 1 .. k - 1 + 1 : SubSeq(f, 1, k)[i] = f[1 + i - 1]
      <4>1. k \in Int /\ 1 \in Int
        BY <3>1
      <4> QED
        BY <3>2, <4>1, SubSeqProperties
    <3>4. Len(SubSeq(f, 1, k)) = k /\ \A i \in 1 .. k : SubSeq(f, 1, k)[i] = f[i]
      BY <3>1, <3>3
    <3> QED
      BY <3>1, <3>3, <3>4
  <2>5. Len(f) - 1 # Len(f)
    <3>1. n - 1 # n
      OBVIOUS
    <3> QED
      BY <1>a, <3>1
  <2> QED
    BY <1>1, <1>2, <2>3, <2>4, <2>5
<1>3. CASE f[Len(f)] # "#"
  BY <1>1, <1>3 DEF Plain
<1> QED
  BY <1>1, <1>2, <1>3

\* TopicMatcher and the broker agree on which topics a filter covers.
LEMMA MatchersAgree ==
  ASSUME NEW f \in Filters, NEW t \in Seq(STRING)
  PROVE  Captures(f, t) <=> FilterCovers(f, t)
<1>1. Len(f) \in Nat \ {0} /\ Len(t) \in Nat
  BY PlainLevels
<1> DEFINE Level(i) == f[i] \in {"+", t[i]}
<1>2. CASE f[Len(f)] = "#"
  <2>1. /\ Len(Plain(f)) = Len(f) - 1 /\ Plain(f) # f
        /\ DOMAIN Plain(f) = 1 .. Len(f) - 1
        /\ \A i \in 1 .. Len(f) - 1 : Plain(f)[i] = f[i]
    BY <1>2, PlainLevels
  <2>2. Captures(f, t) <=> \A i \in 1 .. Len(f) - 1 : i <= Len(t) /\ Level(i)
    BY <2>1 DEF Captures
  <2>3. FilterCovers(f, t) <=> Len(f) - 1 <= Len(t) /\ \A i \in 1 .. Len(f) - 1 : Level(i)
    BY <1>2 DEF FilterCovers
  <2>4. (\A i \in 1 .. Len(f) - 1 : i <= Len(t)) <=> Len(f) - 1 <= Len(t)
    BY <1>1
  <2> HIDE DEF Level
  <2> QED
    BY <2>2, <2>3, <2>4
<1>3. CASE f[Len(f)] # "#"
  <2>1. Plain(f) = f /\ DOMAIN f = 1 .. Len(f)
    BY <1>3, PlainLevels
  <2>2. Captures(f, t) <=> /\ \A i \in 1 .. Len(f) : i <= Len(t) /\ Level(i)
                           /\ Len(t) = Len(f)
    BY <2>1 DEF Captures
  <2>3. FilterCovers(f, t) <=> Len(f) = Len(t) /\ \A i \in 1 .. Len(f) : Level(i)
    BY <1>3 DEF FilterCovers
  <2> HIDE DEF Level
  <2> QED
    BY <1>1, <2>2, <2>3
<1> QED
  BY <1>2, <1>3

\* A message the broker sent for some filter is routed to a subscription
\* that covers its topic, and becomes an event only if that one decodes it.
LEMMA RouteFinds ==
  ASSUME NEW m \in Message, Covered(m)
  PROVE  \/ Route(m) = [result |-> "decode_failed"]
         \/ \E i \in DOMAIN Subs :
              /\ Route(m) = [result |-> "event", sub |-> i, message |-> m]
              /\ FilterCovers(Subs[i].filter, m.topic)
              /\ Decodes(Subs[i].payload, m.payload)
<1> DEFINE M == {i \in DOMAIN Subs : Captures(Subs[i].filter, m.topic)}
<1>1. m.topic \in Seq(STRING)
  BY MqttAssumption DEF Message
<1>2. \A i \in DOMAIN Subs : Captures(Subs[i].filter, m.topic)
                             <=> FilterCovers(Subs[i].filter, m.topic)
  BY <1>1, SubType, MatchersAgree
<1>3. M # {} /\ M \in SUBSET Nat
  BY <1>2, SubType DEF Covered
<1>4. PICK k \in M : \A y \in M : k <= y
  BY <1>3, NatMin
<1>5. Min(M) \in M
  BY <1>3, <1>4 DEF Min
<1> DEFINE i == Min(M)
<1>6. i \in DOMAIN Subs /\ FilterCovers(Subs[i].filter, m.topic)
  BY <1>2, <1>5
<1>7. Route(m) = IF M = {} THEN [result |-> "unmatched"]
                 ELSE IF \/ ~Renders(Subs[i]) \/ ~Decodes(Subs[i].payload, m.payload)
                         \/ ~KindResolved(Subs[i], m.payload)
                 THEN [result |-> "decode_failed"]
                 ELSE [result |-> "event", sub |-> i, message |-> m]
  BY Zenon DEF Route
<1> HIDE DEF M, i
<1> QED
  BY <1>3, <1>6, <1>7, Zenon

-----------------------------------------------------------------------------
(* Steps                                                                   *)

LEMMA MqttInit == Init => MqttInv
<1> SUFFICES ASSUME Init PROVE MqttInv
  OBVIOUS
<1>1. /\ next = 1 /\ requests = <<>> /\ written = <<>> /\ session = {} /\ wire = <<>> /\ bus = <<>>
      /\ count = [c \in Counters |-> 0]
  BY DEF Init
<1>2. SubsInv /\ WireInv
  BY <1>1 DEF SubsInv, WireInv
<1>3. TaskInv
  BY <1>1 DEF TaskInv
<1>4. \A c \in Counters : count[c] = 0
  BY <1>1
<1>5. RoutedAsSubscribed
  BY <1>1, <1>4 DEF RoutedAsSubscribed, Counters
<1> QED
  BY <1>2, <1>3, <1>5 DEF MqttInv

\* What Bumped adds up to.
LEMMA BumpedCounts ==
  ASSUME TaskInv, NEW cs
  PROVE  /\ Bumped(cs) \in [Counters -> Nat]
         /\ \A c \in Counters : Bumped(cs)[c] = count[c] + IF c \in cs THEN 1 ELSE 0
  BY DEF TaskInv, Bumped

\* An envelope on the bus was built by a subscription that covers its topic
\* and decodes its payload.
WellBuilt(e) ==
  LET s == Subs[e.sub]
  IN  /\ FilterCovers(s.filter, e.message.topic)
      /\ s.payload = "json" => e.message.payload \in {"kinded", "json"}

\* RoutedAsSubscribed, in these terms.
LEMMA RoutedParts ==
  ASSUME TaskInv
  PROVE  RoutedAsSubscribed <=>
           /\ count["unmatched"] = 0
           /\ count["received"] = count["unmatched"] + count["decode_failed"]
                                    + count["dropped"] + count["sent"]
           /\ \A i \in 1 .. Len(bus) : WellBuilt(bus[i])
<1>1. DOMAIN bus = 1 .. Len(bus)
  BY DEF TaskInv
<1> QED
  BY <1>1, Zenon DEF RoutedAsSubscribed, WellBuilt

\* handle_publish: the message is counted as received and as one outcome.
LEMMA HandlePublishKeeps ==
  ASSUME MqttInv, HandlePublish PROVE MqttInv'
<1>1. SubsInv /\ WireInv /\ TaskInv /\ RoutedAsSubscribed
  BY DEF MqttInv
<1>2. SubsInv'
  BY <1>1 DEF SubsInv, HandlePublish
<1>3. WireInv'
  <2>1. wire \in Seq(Message) /\ wire # <<>> /\ wire' = Tail(wire)
    BY <1>1 DEF WireInv, HandlePublish
  <2>2. /\ wire' \in Seq(Message) /\ Len(wire') = Len(wire) - 1 /\ Len(wire) \in Nat
        /\ \A i \in 1 .. Len(wire') : wire'[i] = wire[i + 1]
    BY <2>1
  <2>3. ASSUME NEW i \in 1 .. Len(wire') PROVE Covered(wire'[i])
    <3>1. i + 1 \in 1 .. Len(wire) /\ wire'[i] = wire[i + 1]
      BY <2>2
    <3> QED
      BY <1>1, <3>1 DEF WireInv
  <2> QED
    BY <2>2, <2>3 DEF WireInv, Covered
<1> DEFINE m == Head(wire)
           r == Route(m)
<1>4. m \in Message /\ Covered(m)
  <2>1. wire \in Seq(Message) /\ wire # <<>>
    BY <1>1 DEF WireInv, HandlePublish
  <2>2. m = wire[1] /\ 1 \in 1 .. Len(wire) /\ m \in Message
    BY <2>1
  <2> QED
    BY <1>1, <2>2 DEF WireInv
<1>5. \/ r = [result |-> "decode_failed"]
      \/ \E i \in DOMAIN Subs :
           /\ r = [result |-> "event", sub |-> i, message |-> m]
           /\ FilterCovers(Subs[i].filter, m.topic)
           /\ Decodes(Subs[i].payload, m.payload)
  BY <1>4, RouteFinds
<1>6. IF r.result # "event"
      THEN count' = Bumped({"received", r.result}) /\ bus' = bus
      ELSE IF Len(bus) < BusDepth
      THEN count' = Bumped({"received", "sent"}) /\ bus' = Append(bus, r)
      ELSE count' = Bumped({"received", "dropped"}) /\ bus' = bus
  BY DEF HandlePublish
<1> HIDE DEF r, m
<1>7. /\ r.result \in {"decode_failed", "event"}
      /\ r.result = "event" => r \in Envelope /\ WellBuilt(r)
  <2>1. CASE r = [result |-> "decode_failed"]
    BY <2>1
  <2>2. ASSUME NEW i \in DOMAIN Subs,
               r = [result |-> "event", sub |-> i, message |-> m],
               FilterCovers(Subs[i].filter, m.topic),
               Decodes(Subs[i].payload, m.payload)
        PROVE  r.result = "event" /\ r \in Envelope /\ WellBuilt(r)
    <3>1. r.result = "event" /\ r.sub = i /\ r.message = m /\ r \in Envelope
      BY <1>4, <2>2 DEF Envelope
    <3>2. Subs[i].payload = "json" => m.payload \in {"kinded", "json"}
      BY <2>2 DEF Decodes
    <3> QED
      BY <2>2, <3>1, <3>2 DEF WellBuilt
  <2> QED
    BY <1>5, <2>1, <2>2
<1>8. PICK o \in {"decode_failed", "sent", "dropped"} : count' = Bumped({"received", o})
  BY <1>6, <1>7
<1>9. bus \in Seq(Envelope) /\ \A i \in 1 .. Len(bus) : WellBuilt(bus[i])
  BY <1>1, RoutedParts DEF TaskInv
<1>10. bus' \in Seq(Envelope) /\ \A i \in 1 .. Len(bus') : WellBuilt(bus'[i])
  <2>1. bus' = bus \/ (r.result = "event" /\ bus' = Append(bus, r))
    BY <1>6
  <2>2. CASE bus' = bus
    BY <1>9, <2>2
  <2>3. CASE r.result = "event" /\ bus' = Append(bus, r)
    <3>1. r \in Envelope /\ WellBuilt(r)
      BY <1>7, <2>3
    <3>2. /\ bus' \in Seq(Envelope) /\ Len(bus') = Len(bus) + 1 /\ Len(bus) \in Nat
          /\ bus'[Len(bus) + 1] = r /\ \A i \in 1 .. Len(bus) : bus'[i] = bus[i]
      BY <1>9, <2>3, <3>1
    <3>3. ASSUME NEW i \in 1 .. Len(bus') PROVE WellBuilt(bus'[i])
      <4>1. i \in 1 .. Len(bus) \/ i = Len(bus) + 1
        BY <3>2
      <4> QED
        BY <1>9, <3>1, <3>2, <4>1, Zenon
    <3> QED
      BY <3>2, <3>3
  <2> QED
    BY <2>1, <2>2, <2>3
<1>11. TaskInv'
  BY <1>1, <1>8, <1>10, BumpedCounts DEF TaskInv, Envelope, Message
<1>12. /\ count'["unmatched"] = 0
       /\ count'["received"] = count'["unmatched"] + count'["decode_failed"]
                                 + count'["dropped"] + count'["sent"]
  <2>1. \A c \in Counters : count'[c] = count[c] + IF c \in {"received", o} THEN 1 ELSE 0
    BY <1>1, <1>8, BumpedCounts
  <2>2. /\ count["unmatched"] = 0
        /\ count["received"] = count["unmatched"] + count["decode_failed"]
                                 + count["dropped"] + count["sent"]
    BY <1>1, RoutedParts
  <2>3. \A c \in Counters : count[c] \in Nat
    BY <1>1 DEF TaskInv
  <2>4. /\ count["unmatched"] \in Nat /\ count["decode_failed"] \in Nat
        /\ count["received"] \in Nat /\ count["dropped"] \in Nat /\ count["sent"] \in Nat
    BY <2>3 DEF Counters
  <2>5. /\ count'["unmatched"] = count["unmatched"]
        /\ count'["received"] = count["received"] + 1
        /\ count'["decode_failed"] = count["decode_failed"]
                                      + IF o = "decode_failed" THEN 1 ELSE 0
        /\ count'["dropped"] = count["dropped"] + IF o = "dropped" THEN 1 ELSE 0
        /\ count'["sent"] = count["sent"] + IF o = "sent" THEN 1 ELSE 0
    BY <2>1, <2>4 DEF Counters
  <2> QED
    BY <2>2, <2>4, <2>5
<1>13. RoutedAsSubscribed'
  <2>1. (/\ count["unmatched"] = 0
         /\ count["received"] = count["unmatched"] + count["decode_failed"]
                                  + count["dropped"] + count["sent"]
         /\ \A i \in 1 .. Len(bus) : WellBuilt(bus[i]))'
    BY <1>10, <1>12 DEF WellBuilt
  <2> QED
    BY <1>11, <2>1, RoutedParts, PTL
<1> QED
  BY <1>2, <1>3, <1>11, <1>13 DEF MqttInv

\* Publish: the broker puts a message on the wire only for a filter of its
\* session.
LEMMA PublishKeeps ==
  ASSUME MqttInv, NEW t \in Topics, NEW p \in Payloads, Publish(t, p)
  PROVE  MqttInv'
<1>1. SubsInv /\ WireInv /\ TaskInv /\ RoutedAsSubscribed
  BY DEF MqttInv
<1>2. /\ SubsInv' /\ TaskInv' /\ RoutedAsSubscribed'
  BY <1>1 DEF SubsInv, TaskInv, RoutedAsSubscribed, Publish
<1> DEFINE m == [topic |-> t, payload |-> p]
           for == {i \in session : FilterCovers(Subs[i].filter, t)}
<1>3. m \in Message /\ m.topic = t
  BY DEF Message
<1>4. IsFiniteSet(for) /\ Cardinality(for) \in Nat /\ (for = {} => Cardinality(for) = 0)
  <2>1. IsFiniteSet(DOMAIN Subs)
    <3>1. DOMAIN Subs = 1 .. Len(Subs) /\ Len(Subs) \in Nat
      BY MqttAssumption
    <3> QED
      BY <3>1, FS_Interval
  <2>2. for \subseteq DOMAIN Subs
    BY <1>1 DEF SubsInv
  <2> HIDE DEF for
  <2> QED
    BY <2>1, <2>2, FS_Subset, FS_CardinalityType, FS_EmptySet
<1>5. PICK n \in {Min({1, Cardinality(for)}), Cardinality(for)} :
        wire' = wire \o [c \in 1 .. n |-> m]
  BY DEF Publish
<1>6. for # {} => Covered(m)
  BY <1>1, <1>3 DEF Covered, SubsInv
<1> HIDE DEF for, m
<1>7. n \in Nat /\ (for = {} => n = 0)
  <2>1. ASSUME NEW k \in Nat PROVE Min({1, k}) \in Nat /\ Min({1, k}) <= k
    <3>1. \E x \in {1, k} : \A y \in {1, k} : x <= y
      BY SMT
    <3>2. Min({1, k}) \in {1, k} /\ \A y \in {1, k} : Min({1, k}) <= y
      BY <3>1, Zenon DEF Min
    <3> QED
      BY <3>2
  <2>2. PICK k \in Nat : k = Cardinality(for)
    BY <1>4
  <2> QED
    BY <1>4, <1>5, <2>1, <2>2
<1> DEFINE sent == [c \in 1 .. n |-> m]
<1>8. sent \in Seq(Message) /\ Len(sent) = n /\ \A i \in 1 .. n : sent[i] = m
  BY <1>3, <1>7
<1> HIDE DEF sent
<1>9. /\ wire' \in Seq(Message) /\ Len(wire') = Len(wire) + n /\ Len(wire) \in Nat
      /\ \A i \in 1 .. Len(wire) : wire'[i] = wire[i]
      /\ \A i \in 1 .. n : wire'[Len(wire) + i] = m
  <2>0. wire' = wire \o sent
    BY <1>5 DEF sent
  <2>1. wire \in Seq(Message) /\ sent \in Seq(Message) /\ Len(sent) = n
    BY <1>1, <1>8 DEF WireInv
  <2>2. /\ Len(wire) \in Nat /\ wire \o sent \in Seq(Message)
        /\ Len(wire \o sent) = Len(wire) + n
    <3>1. wire \o sent \in Seq(Message) /\ Len(wire \o sent) = Len(wire) + Len(sent)
      BY <2>1, ConcatProperties, Zenon
    <3>2. Len(wire) \in Nat
      BY <2>1
    <3> QED
      BY <2>1, <3>1, <3>2, Zenon
  <2>3. \A i \in 1 .. Len(wire) : (wire \o sent)[i] = wire[i]
    BY <1>7, <1>8, <2>1
  <2>4. ASSUME NEW i \in 1 .. n PROVE (wire \o sent)[Len(wire) + i] = m
    <3>1. (wire \o sent)[Len(wire) + i] = sent[i]
      BY <1>7, <1>8, <2>1, <2>2
    <3> QED
      BY <1>8, <3>1
  <2> QED
    BY <2>0, <2>2, <2>3, <2>4
<1>10. ASSUME NEW i \in 1 .. Len(wire') PROVE Covered(wire'[i])
  <2>1. CASE i \in 1 .. Len(wire)
    BY <1>1, <1>9, <2>1 DEF WireInv
  <2>2. CASE i \notin 1 .. Len(wire)
    <3>1. i - Len(wire) \in 1 .. n /\ i = Len(wire) + (i - Len(wire)) /\ n # 0
      BY <1>7, <1>9, <2>2
    <3>2. wire'[i] = m
      BY <1>9, <3>1
    <3> QED
      BY <1>6, <1>7, <3>1, <3>2
  <2> QED
    BY <2>1, <2>2
<1>11. WireInv'
  BY <1>9, <1>10 DEF WireInv, Covered, Message
<1> QED
  BY <1>2, <1>11 DEF MqttInv

\* Every step keeps the invariant.
LEMMA MqttNext == MqttInv /\ [Next]_vars => MqttInv'
<1> SUFFICES ASSUME MqttInv, [Next]_vars PROVE MqttInv'
  OBVIOUS
<1>1. SubsInv /\ WireInv /\ TaskInv /\ RoutedAsSubscribed
  BY DEF MqttInv
<1>2. CASE Subscribe
  <2>1. SubsInv'
    <3>1. /\ next \in Nat \ {0} /\ next <= Len(Subs) /\ requests \in Seq(DOMAIN Subs)
          /\ requests' = Append(requests, next) /\ next' = next + 1 /\ session' = session
          /\ written' = written
      BY <1>1, <1>2 DEF Subscribe, Subscribing, SubsInv
    <3>2. next \in DOMAIN Subs
      BY <3>1, MqttAssumption
    <3> QED
      BY <1>1, <3>1, <3>2 DEF SubsInv
  <2>2. WireInv' /\ TaskInv' /\ RoutedAsSubscribed'
    BY <1>1, <1>2 DEF Subscribe, WireInv, TaskInv, RoutedAsSubscribed
  <2> QED
    BY <2>1, <2>2 DEF MqttInv
<1>3. CASE HandlePublish
  BY <1>3, HandlePublishKeeps
<1>4. CASE Wake \/ Connect \/ UNCHANGED vars
  <2>1. UNCHANGED <<next, requests, written, session, wire, bus, count>>
    BY <1>4 DEF Wake, Connect, vars
  <2> QED
    BY <1>1, <2>1 DEF MqttInv, SubsInv, WireInv, TaskInv, RoutedAsSubscribed
<1>5. CASE SendRequest
  <2>1. SubsInv'
    <3>1. /\ requests \in Seq(DOMAIN Subs) /\ requests # <<>> /\ written \in Seq(DOMAIN Subs)
          /\ requests' = Tail(requests) /\ written' = Append(written, Head(requests))
          /\ next' = next /\ session' = session
      BY <1>1, <1>5 DEF SendRequest, SubsInv
    <3>2. requests' \in Seq(DOMAIN Subs) /\ written' \in Seq(DOMAIN Subs)
      BY <3>1
    <3> QED
      BY <1>1, <3>1, <3>2 DEF SubsInv
  <2>2. WireInv' /\ TaskInv' /\ RoutedAsSubscribed'
    BY <1>1, <1>5 DEF SendRequest, WireInv, TaskInv, RoutedAsSubscribed
  <2> QED
    BY <2>1, <2>2 DEF MqttInv
<1>9. CASE BrokerSubscribes
  <2>1. SubsInv'
    <3>1. /\ written \in Seq(DOMAIN Subs) /\ written # <<>> /\ written' = Tail(written)
          /\ session' = session \cup {Head(written)}
          /\ next' = next /\ requests' = requests
      BY <1>1, <1>9 DEF BrokerSubscribes, SubsInv
    <3>2. written' \in Seq(DOMAIN Subs) /\ Head(written) \in DOMAIN Subs
      BY <3>1
    <3> QED
      BY <1>1, <3>1, <3>2 DEF SubsInv
  <2>2. WireInv' /\ TaskInv' /\ RoutedAsSubscribed'
    BY <1>1, <1>9 DEF BrokerSubscribes, WireInv, TaskInv, RoutedAsSubscribed
  <2> QED
    BY <2>1, <2>2 DEF MqttInv
<1>6. CASE ConnectRefused \/ ConnectionLost
  <2>0. PollError
    BY <1>6 DEF ConnectRefused, ConnectionLost
  <2>1. SubsInv' /\ WireInv'
    <3>1. CASE ConnectRefused
      BY <1>1, <3>1 DEF ConnectRefused, PollError, SubsInv, WireInv
    <3>2. CASE ConnectionLost
      BY <1>1, <3>2 DEF ConnectionLost, PollError, SubsInv, WireInv
    <3> QED
      BY <1>6, <3>1, <3>2
  <2>2. count' \in [Counters -> Nat] /\ \A c \in Counters \ {"reconnects"} : count'[c] = count[c]
    BY <1>1, <2>0, BumpedCounts DEF PollError, TaskInv
  <2>3. TaskInv' /\ bus' = bus
    BY <1>1, <2>0, <2>2 DEF PollError, TaskInv
  <2>4. RoutedAsSubscribed'
    BY <1>1, <2>2, <2>3 DEF RoutedAsSubscribed, Counters
  <2> QED
    BY <2>1, <2>3, <2>4 DEF MqttInv
<1>7. CASE Drain
  <2>1. SubsInv' /\ WireInv'
    BY <1>1, <1>7 DEF Drain, SubsInv, WireInv
  <2>2. bus \in Seq(Envelope) /\ bus # <<>> /\ bus' = Tail(bus) /\ count' = count
    BY <1>1, <1>7 DEF Drain, TaskInv
  <2>3. /\ bus' \in Seq(Envelope)
        /\ \A i \in 1 .. Len(bus') : i + 1 \in 1 .. Len(bus) /\ bus'[i] = bus[i + 1]
    BY <2>2
  <2>4. TaskInv'
    BY <1>1, <2>2, <2>3 DEF TaskInv
  <2>5. (/\ count["unmatched"] = 0
         /\ count["received"] = count["unmatched"] + count["decode_failed"]
                                  + count["dropped"] + count["sent"]
         /\ \A i \in 1 .. Len(bus) : WellBuilt(bus[i]))'
    BY <1>1, <2>2, <2>3, RoutedParts DEF WellBuilt
  <2>6. RoutedAsSubscribed'
    BY <2>4, <2>5, RoutedParts, PTL
  <2> QED
    BY <2>1, <2>4, <2>6 DEF MqttInv
<1>8. CASE \E t \in Topics, p \in Payloads : Publish(t, p)
  BY <1>8, PublishKeeps
<1> QED
  BY <1>2, <1>3, <1>4, <1>5, <1>6, <1>7, <1>8, <1>9 DEF Next, Task, World

-----------------------------------------------------------------------------
(* Theorem                                                                 *)

\* The task's first-match routing (route, TopicMatcher::captures) agrees with
\* the broker's matching for every set of filters that MQTT allows: no message
\* it is sent counts as unmatched, every message is counted once, and every
\* envelope on the bus was built by a subscription that decodes it.
THEOREM RoutingAgrees == Spec => []RoutedAsSubscribed
<1>1. MqttInv => RoutedAsSubscribed
  BY DEF MqttInv
<1> QED
  BY MqttInit, MqttNext, <1>1, PTL DEF Spec
=============================================================================
