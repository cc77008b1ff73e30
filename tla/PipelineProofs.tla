--------------------------- MODULE PipelineProofs ---------------------------
(***************************************************************************)
(* Theorems about Pipeline, for any number of requests, brokers, pairs and *)
(* sources, any payloads, channel depth, batch sizes and ring limits:      *)
(* first what consumers may rely on, then what producers may rely on       *)
(* (their events stay in order, WebSocket clients may trust the frames     *)
(* they get, shutdown drains the bus), sequence numbers, and hot rings.    *)
(***************************************************************************)
EXTENDS Pipeline, SequenceTheorems, FiniteSetTheorems, TLAPS

\* Every non-empty set of natural numbers has a least element.
LEMMA NatMin ==
  ASSUME NEW T \in SUBSET Nat, T # {}
  PROVE  \E x \in T : \A y \in T : x <= y
<1>1. PICK x \in T : \A y \in T : ~(<<y, x>> \in OpToRel(<, Nat))
  BY NatLessThanWellFounded, WFMin
<1>2. ASSUME NEW y \in T PROVE x <= y
  <2>1. y < x => <<y, x>> \in OpToRel(<, Nat)
    BY DEF OpToRel
  <2>2. ~(y < x)
    BY <2>1, <1>1, Zenon
  <2>3. x \in Nat /\ y \in Nat
    OBVIOUS
  <2> QED
    BY <2>2, <2>3, SMT
<1> QED
  BY <1>2

-----------------------------------------------------------------------------
(* Sequences and rings                                                     *)

\* The loop that pops expired events from the front of a ring ends: there is
\* always a first position that is not expired, if only the one past the end.
LEMMA FirstFreshExists ==
  ASSUME NEW s \in Seq(RingEntry), NEW cutoff \in Int
  PROVE  /\ FirstFresh(s, cutoff) \in 1 .. Len(s) + 1
         /\ \A j \in 1 .. FirstFresh(s, cutoff) - 1 : s[j].ingest < cutoff
         /\ FirstFresh(s, cutoff) <= Len(s)
              => s[FirstFresh(s, cutoff)].ingest >= cutoff
<1> DEFINE F == {i \in 1 .. Len(s) : s[i].ingest >= cutoff} \cup {Len(s) + 1}
<1>1. F \in SUBSET Nat /\ F # {}
  OBVIOUS
<1>2. PICK m \in F : \A y \in F : m <= y
  BY <1>1, NatMin
<1>3. \A j \in 1 .. Len(s) : s[j].ingest \in Nat
  <2>1. \A j \in 1 .. Len(s) : s[j] \in RingEntry
    BY ElementOfSeq
  <2> QED
    BY <2>1 DEF RingEntry
<1>4. \A j \in 1 .. m - 1 : s[j].ingest < cutoff
  <2> TAKE j \in 1 .. m - 1
  <2>1. j \in 1 .. Len(s) /\ j < m
    BY <1>2
  <2>2. j \notin F
    BY <2>1, <1>2
  <2> QED
    BY <2>1, <2>2, <1>3
<1>5. m \in 1 .. Len(s) + 1 /\ (m <= Len(s) => s[m].ingest >= cutoff)
  BY <1>2
<1> QED
  BY <1>4, <1>5 DEF FirstFresh

\* HotRings::push yields a ring.
LEMMA PushType ==
  ASSUME NEW s \in Seq(RingEntry), NEW e \in RingEntry, NEW now \in Nat
  PROVE  Push(s, e, now) \in Seq(RingEntry)
<1>1. CapByCount(Append(s, e)) \in Seq(RingEntry)
  BY HotRingAssumption DEF CapByCount
<1>2. ASSUME NEW q \in Seq(RingEntry) PROVE CapByAge(q, now - MaxAge) \in Seq(RingEntry)
  <2>1. FirstFresh(q, now - MaxAge) \in 1 .. Len(q) + 1
    <3>1. now - MaxAge \in Int
      BY HotRingAssumption
    <3> QED
      BY <3>1, FirstFreshExists
  <2>2. \A i \in FirstFresh(q, now - MaxAge) .. Len(q) : q[i] \in RingEntry
    BY <2>1, ElementOfSeq
  <2> QED
    BY <2>1, <2>2, SubSeqProperties DEF CapByAge
<1> QED
  BY <1>1, <1>2 DEF Push

\* Appending to the second of two sequences appends to both.
LEMMA AppendConcat ==
  ASSUME NEW s \in Seq(Nat), NEW t \in Seq(Nat), NEW x \in Nat
  PROVE  s \o Append(t, x) = Append(s \o t, x)
<1>1. Append(t, x) = t \o <<x>> /\ Append(s \o t, x) = (s \o t) \o <<x>>
  BY AppendIsConcat, ConcatProperties
<1>2. <<x>> \in Seq(Nat)
  OBVIOUS
<1> QED
  BY <1>1, <1>2, ConcatAssociative

\* A sequence is not empty after an append.
LEMMA AppendNonEmpty ==
  ASSUME NEW S, NEW s \in Seq(S), NEW x
  PROVE  Append(s, x) # <<>>
<1>1. s \in Seq(S \cup {x})
  OBVIOUS
<1> QED
  BY <1>1, AppendProperties

\* Moving the head of t to the end of s leaves s followed by t as it is:
\* the step of a consumer from channel to batch.
LEMMA MoveHead ==
  ASSUME NEW S, NEW s \in Seq(S), NEW t \in Seq(S), t # <<>>
  PROVE  Append(s, Head(t)) \o Tail(t) = s \o t
<1>1. Head(t) \in S /\ Tail(t) \in Seq(S) /\ <<Head(t)>> \in Seq(S)
  OBVIOUS
<1>2. <<Head(t)>> \o Tail(t) = t
  <2>1. <<Head(t)>> \o Tail(t) \in Seq(S) /\ Len(<<Head(t)>> \o Tail(t)) = Len(t)
    BY <1>1
  <2>2. \A i \in 1 .. Len(t) : (<<Head(t)>> \o Tail(t))[i] = t[i]
    BY <1>1
  <2> QED
    BY <2>1, <2>2, SeqEqual
<1>3. Append(s, Head(t)) = s \o <<Head(t)>>
  BY <1>1, AppendIsConcat
<1> QED
  BY <1>1, <1>2, <1>3, ConcatAssociative

-----------------------------------------------------------------------------
(* Types                                                                   *)

\* A handler that has not answered yet has something left to send, and so
\* has a session inside a message.
SendBound ==
  /\ \A r \in Requests :
       http[r] \in {"new", "sending"} => tried[r] < Len(Payload[r])
  /\ \A w \in Sessions :
       ws[w] = "sending" => tried[w] < Len(Payload[w])

TypeInv == TypeOK /\ SendBound

\* What the assumption on the constants says of origins and consumers.
LEMMA PayloadFacts ==
  /\ \A o \in Origins : Payload[o] \in Seq(Pairs) /\ Len(Payload[o]) \in Nat
  /\ Requests \subseteq Origins /\ Brokers \subseteq Origins
  /\ Sessions \subseteq Origins
  /\ \A r \in Requests : r \notin Brokers /\ r \notin Sessions
  /\ \A w \in Sessions : w \notin Brokers /\ w \notin Requests
  /\ \A c \in Consumers : c \in AllConsumers
  BY PipelineAssumption DEF Origins

\* A message that has begun has an end.
LEMMA MsgEndType ==
  ASSUME NEW w \in Sessions, NEW k \in Nat, k < Len(Payload[w])
  PROVE  MsgEnd(w, k) \in Nat
<1> DEFINE E == {e \in MsgEnds[w] : e > k}
<1>1. E \in SUBSET Nat
  BY PipelineAssumption
<1>2. Len(Payload[w]) \in E
  BY PayloadFacts, PipelineAssumption
<1>3. PICK m \in E : \A y \in E : m <= y
  BY <1>1, <1>2, NatMin
<1>4. MsgEnd(w, k) \in MsgEnds[w]
  BY <1>3 DEF MsgEnd
<1> QED
  BY <1>4, PipelineAssumption

\* The types hold initially.
LEMMA TypeInit == Init => TypeInv
<1> SUFFICES ASSUME Init PROVE TypeInv
  OBVIOUS
<1>1. ws \in [Sessions -> WsStates]
  BY DEF Init, WsStates
<1>2. TypeOK
  BY <1>1, PipelineAssumption DEF Init, TypeOK, Origins, Stages
<1>3. \A r \in Requests : tried[r] = 0 /\ Len(Payload[r]) > 0
  BY PipelineAssumption, PayloadFacts DEF Init
<1>4. \A w \in Sessions : ws[w] = "new"
  BY DEF Init
<1> QED
  BY <1>2, <1>3, <1>4 DEF TypeInv, SendBound

\* A message refused or shed: its frame reaches the client or not, and ends
\* the answer unless an accepted count is to follow.
Answered(w, got, ends) ==
  LET e == MsgEnd(w, tried[w])
  IN  /\ got => link[w]
      /\ link' = [link EXCEPT ![w] = got]
      /\ refused' = [refused EXCEPT ![w] = IF got THEN @ \cup {e} ELSE @]
      /\ heard' = [heard EXCEPT ![w] = IF got /\ ends THEN e ELSE @]

LEMMA MessageAnswered ==
  ASSUME NEW w
  PROVE  /\ WsRefuse(w) => \E got \in BOOLEAN : Answered(w, got, TRUE)
         /\ WsBusFull(w) => \E got \in BOOLEAN : Answered(w, got, wsCount[w] = 0)
<1>1. ASSUME WsRefuse(w) PROVE \E got \in BOOLEAN : Answered(w, got, TRUE)
  BY <1>1 DEF WsRefuse, Frame, Answered
<1>2. ASSUME WsBusFull(w)
      PROVE  \E got \in BOOLEAN : Answered(w, got, wsCount[w] = 0)
  BY <1>2 DEF WsBusFull, Frame, Answered
<1> QED
  BY <1>1, <1>2

\* What the normalizer makes of a post is an event.
LEMMA NormalizedType ==
  ASSUME TypeOK, NEW x \in Post, NEW t \in Nat
  PROVE  /\ Normalized(x, t) \in Event
         /\ Normalized(x, t).pair \in Pairs
         /\ SourceOf[Normalized(x, t).pair] \in Sources
         /\ Normalized(x, t).seq = seqOf[SourceOf[Normalized(x, t).pair]] + 1
<1>1. PICK p \in Pairs : p = Payload[x.from][x.k]
  BY PipelineAssumption, ElementOfSeq DEF Post
<1>2. SourceOf[p] \in Sources
  BY PipelineAssumption
<1>3. PICK n \in Nat : n = seqOf[SourceOf[p]]
  BY <1>2 DEF TypeOK
<1>4. Normalized(x, t) = [post |-> x, pair |-> p, seq |-> n + 1, ingest |-> t]
  BY <1>1, <1>3 DEF Normalized
<1> QED
  BY <1>2, <1>3, <1>4 DEF Event

\* Every action keeps them.
LEMMA TypeNext == TypeInv /\ [Next]_vars => TypeInv'
<1> SUFFICES ASSUME TypeInv, [Next]_vars PROVE TypeInv'
  OBVIOUS
<1> USE DEF TypeInv, SendBound, answers, wsVars, inVars, normVars, outVars
<1>1. ASSUME NEW r \in Requests, HttpReject(r) PROVE TypeInv'
  BY <1>1 DEF HttpReject, TypeOK
<1>2. ASSUME NEW r \in Requests, HttpAdmit(r) PROVE TypeInv'
  BY <1>2 DEF HttpAdmit, TypeOK
<1>3. ASSUME NEW r \in Requests, HttpSend(r) PROVE TypeInv'
  <2>1. [from |-> r, k |-> tried[r] + 1] \in Post
    BY <1>3, PipelineAssumption DEF HttpSend, TypeOK, Post, Origins
  <2>2. bus' \in Seq(Post)
    BY <1>3, <2>1 DEF HttpSend, TypeOK
  <2>3. TypeOK'
    <3>1. /\ http \in [Requests -> {"new", "sending", "ok", "shed", "rejected"}]
          /\ sent \in [Origins -> Nat] /\ tried \in [Origins -> Nat]
      BY DEF TypeOK
    <3>2. /\ tried' = [tried EXCEPT ![r] = @ + 1] /\ sent' = [sent EXCEPT ![r] = @ + 1]
          /\ http' = [http EXCEPT ![r] =
                        IF tried[r] + 1 = Len(Payload[r]) THEN "ok" ELSE "sending"]
          /\ UNCHANGED <<wsVars, shed, normVars, drops, chan, outVars, phase>>
      BY <1>3 DEF HttpSend
    <3>3. /\ http' \in [Requests -> {"new", "sending", "ok", "shed", "rejected"}]
          /\ sent' \in [Origins -> Nat] /\ tried' \in [Origins -> Nat]
      BY <3>1, <3>2, PayloadFacts
    <3> QED
      BY <2>2, <3>2, <3>3 DEF TypeOK
  <2>5. \A w \in Sessions : ws'[w] = ws[w] /\ tried'[w] = tried[w]
    BY <1>3, PayloadFacts DEF HttpSend, TypeOK
  <2>4. SendBound'
    <3> SUFFICES ASSUME NEW q \in Requests, http'[q] \in {"new", "sending"}
                 PROVE  tried'[q] < Len(Payload[q])
      BY <2>5
    <3>1. CASE q # r
      BY <1>3, <3>1, PayloadFacts DEF HttpSend, TypeOK
    <3>2. CASE q = r
      <4>1. tried'[r] = tried[r] + 1 /\ tried[r] \in Nat
        BY <1>3, PayloadFacts DEF HttpSend, TypeOK
      <4>2. tried[r] < Len(Payload[r]) /\ tried[r] + 1 # Len(Payload[r])
        BY <1>3, <3>2 DEF HttpSend, TypeOK
      <4> QED
        BY <3>2, <4>1, <4>2, PayloadFacts
    <3> QED
      BY <3>1, <3>2
  <2> QED
    BY <2>3, <2>4
<1>4. ASSUME NEW r \in Requests, HttpBusFull(r) PROVE TypeInv'
  BY <1>4 DEF HttpBusFull, TypeOK
<1>5. ASSUME NEW b \in Brokers, MqttPublish(b) PROVE TypeInv'
  <2>1. [from |-> b, k |-> tried[b] + 1] \in Post
    <3>1. b \in Origins /\ tried[b] \in Nat /\ tried[b] < Len(Payload[b])
      BY <1>5, PayloadFacts DEF MqttPublish, TypeOK
    <3> QED
      BY <3>1, PayloadFacts DEF Post
  <2>2. /\ bus' \in Seq(Post)
        /\ sent' \in [Origins -> Nat]
        /\ drops' \in [AllConsumers \cup {"mqtt_subscriber"} -> Nat]
    <3>1. CASE Len(bus) < BusDepth /\ bus' = Append(bus, [from |-> b, k |-> tried[b] + 1])
               /\ sent' = [sent EXCEPT ![b] = @ + 1] /\ UNCHANGED drops
      BY <3>1, <2>1, PayloadFacts DEF TypeOK
    <3>2. CASE drops' = [drops EXCEPT !["mqtt_subscriber"] = @ + 1]
               /\ UNCHANGED <<bus, sent>>
      BY <3>2 DEF TypeOK
    <3> QED
      BY <1>5, <3>1, <3>2 DEF MqttPublish
  <2>3. tried' \in [Origins -> Nat]
        /\ \A o \in Requests \cup Sessions : tried'[o] = tried[o]
    BY <1>5, PayloadFacts DEF MqttPublish, TypeOK
  <2> QED
    BY <1>5, <2>2, <2>3 DEF MqttPublish, TypeOK
<1>6. ASSUME NEW b \in Brokers, MqttUnrouted(b) PROVE TypeInv'
  <2>1. tried' \in [Origins -> Nat]
        /\ \A o \in Requests \cup Sessions : tried'[o] = tried[o]
    BY <1>6, PayloadFacts DEF MqttUnrouted, TypeOK
  <2> QED
    BY <1>6, <2>1 DEF MqttUnrouted, TypeOK
<1>20. ASSUME NEW w \in Sessions,
              WsUpgrade(w) \/ WsTake(w) \/ WsAnswer(w) \/ WsClose(w)
       PROVE  TypeInv'
  <2>1. CASE WsUpgrade(w)
    BY <2>1 DEF WsUpgrade, TypeOK, WsStates
  <2>2. CASE WsTake(w)
    BY <2>2 DEF WsTake, TypeOK, WsStates
  <2>3. CASE WsAnswer(w)
    <3>1. /\ link' \in [Sessions -> BOOLEAN] /\ told' \in [Sessions -> Nat]
          /\ heard' \in [Sessions -> Nat]
      BY <2>3, PayloadFacts DEF WsAnswer, Frame, TypeOK
    <3> QED
      BY <2>3, <3>1 DEF WsAnswer, TypeOK, WsStates
  <2>4. CASE WsClose(w)
    BY <2>4 DEF WsClose, TypeOK, WsStates
  <2> QED
    BY <1>20, <2>1, <2>2, <2>3, <2>4
<1>21. ASSUME NEW w \in Sessions, WsRefuse(w) \/ WsBusFull(w) PROVE TypeInv'
  <2>1. tried[w] \in Nat /\ tried[w] < Len(Payload[w])
    BY <1>21, PayloadFacts DEF WsRefuse, WsBusFull, TypeOK
  <2>2. MsgEnd(w, tried[w]) \in Nat
    BY <2>1, MsgEndType
  <2>3. /\ tried' = [tried EXCEPT ![w] = MsgEnd(w, tried[w])]
        /\ UNCHANGED <<http, wsCount, told, sent, bus, normVars, drops, chan,
                       outVars, phase>>
    BY <1>21 DEF WsRefuse, WsBusFull
  <2>8. /\ link' \in [Sessions -> BOOLEAN] /\ refused' \in [Sessions -> SUBSET Nat]
        /\ heard' \in [Sessions -> Nat]
    <3>1. PICK got \in BOOLEAN, ends \in BOOLEAN : Answered(w, got, ends)
      BY <1>21, MessageAnswered
    <3> QED
      BY <2>2, <3>1, Zenon DEF TypeOK, Answered
  <2>4. /\ tried' \in [Origins -> Nat]
        /\ \A o \in Origins : o # w => tried'[o] = tried[o]
    BY <2>2, <2>3, PayloadFacts DEF TypeOK
  <2>5. /\ ws' \in [Sessions -> WsStates] /\ ws'[w] # "sending" /\ shed' \in Nat
        /\ \A v \in Sessions : v # w => ws'[v] = ws[v]
    <3>1. CASE WsRefuse(w)
      BY <3>1 DEF WsRefuse, TypeOK
    <3>2. CASE WsBusFull(w)
      BY <3>2 DEF WsBusFull, TypeOK, WsStates
    <3> QED
      BY <1>21, <3>1, <3>2
  <2>6. SendBound'
    <3>1. \A r \in Requests : http'[r] = http[r] /\ tried'[r] = tried[r]
      BY <2>3, <2>4, PayloadFacts
    <3>2. \A v \in Sessions : v # w => tried'[v] = tried[v] /\ ws'[v] = ws[v]
      BY <2>4, <2>5, PayloadFacts
    <3> QED
      BY <2>5, <3>1, <3>2
  <2>7. TypeOK'
    BY <2>3, <2>4, <2>5, <2>8 DEF TypeOK
  <2> QED
    BY <2>6, <2>7
<1>22. ASSUME NEW w \in Sessions, WsSend(w) PROVE TypeInv'
  <2>1. w \in Origins /\ tried[w] \in Nat /\ sent[w] \in Nat
        /\ tried[w] < Len(Payload[w]) /\ Len(Payload[w]) \in Nat
    BY <1>22, PayloadFacts DEF WsSend, TypeOK
  <2>2. [from |-> w, k |-> tried[w] + 1] \in Post
    BY <2>1 DEF Post
  <2>3. bus' \in Seq(Post)
    BY <1>22, <2>2 DEF WsSend, TypeOK
  <2>4. /\ tried' \in [Origins -> Nat] /\ sent' \in [Origins -> Nat]
        /\ tried'[w] = tried[w] + 1
        /\ \A o \in Origins : o # w => tried'[o] = tried[o]
    <3>1. sent \in [Origins -> Nat] /\ tried \in [Origins -> Nat]
      BY DEF TypeOK
    <3>2. tried' = [tried EXCEPT ![w] = @ + 1] /\ sent' = [sent EXCEPT ![w] = @ + 1]
      BY <1>22 DEF WsSend
    <3> QED
      BY <2>1, <3>1, <3>2
  <2>5. /\ ws' \in [Sessions -> WsStates] /\ wsCount' \in [Sessions -> Nat]
        /\ ws'[w] = "sending" => tried[w] + 1 \notin MsgEnds[w]
        /\ \A v \in Sessions : v # w => ws'[v] = ws[v]
    BY <1>22 DEF WsSend, TypeOK, WsStates
  <2>6. SendBound'
    <3>1. \A r \in Requests : http'[r] = http[r] /\ tried'[r] = tried[r]
      BY <1>22, <2>4, PayloadFacts DEF WsSend
    <3>2. \A v \in Sessions : v # w => tried'[v] = tried[v] /\ ws'[v] = ws[v]
      BY <2>4, <2>5, PayloadFacts
    <3>3. ws'[w] = "sending" => tried'[w] < Len(Payload[w])
      <4>1. Len(Payload[w]) \in MsgEnds[w]
        BY <2>1, PipelineAssumption
      <4> QED
        BY <4>1, <2>1, <2>4, <2>5
    <3> QED
      BY <3>1, <3>2, <3>3
  <2>7. TypeOK'
    BY <1>22, <2>3, <2>4, <2>5 DEF WsSend, TypeOK
  <2> QED
    BY <2>6, <2>7
<1>7. ASSUME Receive PROVE TypeInv'
  <2> DEFINE Stamp(t, now) ==
        LET e == Normalized(Head(bus), t)
            n == Len(log) + 1
        IN  /\ log' = Append(log, e)
            /\ seqOf' = [seqOf EXCEPT ![SourceOf[e.pair]] = e.seq]
            /\ ring' = [ring EXCEPT ![e.pair] =
                          Push(@, [n |-> n, ingest |-> t], now)]
            /\ clock' = now
  <2>a. PICK t \in clock .. MaxClock : \E now \in t .. MaxClock : Stamp(t, now)
    BY <1>7 DEF Receive
  <2>1. PICK now \in t .. MaxClock : Stamp(t, now)
    BY <2>a
  <2> DEFINE e == Normalized(Head(bus), t)
  <2>2. t \in Nat /\ now \in Nat
    BY <2>a, <2>1, PipelineAssumption DEF TypeOK
  <2>3. Head(bus) \in Post /\ bus' \in Seq(Post)
    BY <1>7 DEF Receive, TypeOK
  <2>5. e \in Event /\ SourceOf[e.pair] \in Sources
    BY <2>2, <2>3, NormalizedType
  <2>6. log' \in Seq(Event) /\ seqOf' \in [Sources -> Nat]
    <3> HIDE DEF e
    <3>1. e.seq \in Nat
      BY <2>5 DEF Event
    <3>2. log' = Append(log, e) /\ seqOf' = [seqOf EXCEPT ![SourceOf[e.pair]] = e.seq]
      BY <2>1 DEF e
    <3> QED
      BY <3>1, <3>2, <2>5 DEF TypeOK
  <2>7. ring' \in [Pairs -> Seq(RingEntry)]
    <3>1. [n |-> Len(log) + 1, ingest |-> t] \in RingEntry
      BY <2>2 DEF RingEntry, TypeOK
    <3>2. e.pair \in Pairs /\ ring[e.pair] \in Seq(RingEntry)
      BY <2>5 DEF Event, TypeOK
    <3>3. Push(ring[e.pair], [n |-> Len(log) + 1, ingest |-> t], now)
            \in Seq(RingEntry)
      BY <3>1, <3>2, <2>2, PushType
    <3> QED
      BY <2>1, <3>2, <3>3 DEF TypeOK
  <2> QED
    BY <1>7, <2>1, <2>2, <2>3, <2>6, <2>7 DEF Receive, TypeOK, Stages
<1>8. ASSUME NEW c \in AllConsumers, Offer(c) PROVE TypeInv'
  <2>1. norm' \in Stages
    BY <1>8 DEF Offer, After, AllConsumers, Stages
  <2>2. /\ chan' \in [AllConsumers -> Seq(Nat)]
        /\ drops' \in [AllConsumers \cup {"mqtt_subscriber"} -> Nat]
    <3>0. Len(log) \in Nat
      BY DEF TypeOK
    <3>1. CASE chan' = [chan EXCEPT ![c] = Append(@, Len(log))] /\ UNCHANGED drops
      BY <3>0, <3>1 DEF TypeOK
    <3>2. CASE drops' = [drops EXCEPT ![c] = @ + 1] /\ UNCHANGED chan
      BY <3>2 DEF TypeOK
    <3>3. CASE UNCHANGED <<chan, drops>>
      BY <3>3 DEF TypeOK
    <3> QED
      BY <1>8, <3>1, <3>2, <3>3 DEF Offer
  <2> QED
    BY <1>8, <2>1, <2>2 DEF Offer, TypeOK
<1>9. ASSUME Count PROVE TypeInv'
  BY <1>9 DEF Count, TypeOK, Stages
<1>10. ASSUME NormalizerExit PROVE TypeInv'
  BY <1>10 DEF NormalizerExit, TypeOK, Stages
<1>11. ASSUME NEW c \in Consumers, TaskRecv(c) PROVE TypeInv'
  <2>1. c \in AllConsumers
    BY PipelineAssumption
  <2>2. Head(chan[c]) \in Nat /\ Tail(chan[c]) \in Seq(Nat)
    BY <1>11, <2>1 DEF TaskRecv, TypeOK
  <2>3. /\ chan' \in [AllConsumers -> Seq(Nat)]
        /\ buf' \in [AllConsumers -> Seq(Nat)]
    BY <1>11, <2>1, <2>2 DEF TaskRecv, TypeOK
  <2> QED
    BY <1>11, <2>3 DEF TaskRecv, TypeOK
<1>12. ASSUME NEW c \in Consumers, TaskTick(c) PROVE TypeInv'
  BY <1>12 DEF TaskTick, TypeOK
<1>13. ASSUME NEW c \in Consumers, TaskClose(c) PROVE TypeInv'
  BY <1>13 DEF TaskClose, TypeOK
<1>14. ASSUME NEW c \in Consumers, FlushDone(c)
       PROVE  /\ buf' \in [AllConsumers -> Seq(Nat)]
              /\ task' \in [AllConsumers -> {"recv", "flush", "last", "exit"}]
  <2>1. buf' = [buf EXCEPT ![c] = <<>>]
    BY <1>14 DEF FlushDone
  <2>2. buf' \in [AllConsumers -> Seq(Nat)]
    BY <2>1, EmptySeq DEF TypeOK
  <2>3. task' = [task EXCEPT ![c] = IF @ = "last" THEN "exit" ELSE "recv"]
    BY <1>14 DEF FlushDone
  <2> QED
    BY <2>2, <2>3 DEF TypeOK
<1>15. ASSUME NEW c \in Consumers, FlushOk(c) PROVE TypeInv'
  <2>1. sink' \in [AllConsumers -> Seq(Nat)]
    BY <1>15, PipelineAssumption DEF FlushOk, TypeOK
  <2> QED
    BY <1>15, <1>14, <2>1 DEF FlushOk, FlushDone, TypeOK
<1>16. ASSUME NEW c \in Consumers, FlushErr(c) PROVE TypeInv'
  <2>1. failed' \in [AllConsumers -> Nat]
    BY <1>16, PipelineAssumption DEF FlushErr, TypeOK
  <2> QED
    BY <1>16, <1>14, <2>1 DEF FlushErr, FlushDone, TypeOK
<1>17. ASSUME Shutdown \/ ServeReturns \/ ProcessExit PROVE TypeInv'
  BY <1>17 DEF Shutdown, ServeReturns, ProcessExit, TypeOK
<1>18. CASE UNCHANGED vars
  BY <1>18 DEF vars, TypeOK
<1>19. ASSUME NEW c \in Consumers, FlushShort(c) PROVE TypeInv'
  <2>1. PICK k \in 0 .. Len(buf[c]) - 1 :
          /\ sink' = [sink EXCEPT ![c] = @ \o SubSeq(buf[c], 1, k)]
          /\ failed' = [failed EXCEPT ![c] = @ + (Len(buf[c]) - k)]
    BY <1>19 DEF FlushShort
  <2>2. buf[c] \in Seq(Nat) /\ sink[c] \in Seq(Nat) /\ failed[c] \in Nat
    BY PayloadFacts DEF TypeOK
  <2>3. sink[c] \o SubSeq(buf[c], 1, k) \in Seq(Nat) /\ failed[c] + (Len(buf[c]) - k) \in Nat
    <3>1. SubSeq(buf[c], 1, k) \in Seq(Nat)
      BY <2>2
    <3> QED
      BY <2>2, <3>1, ConcatProperties
  <2>4. sink' \in [AllConsumers -> Seq(Nat)] /\ failed' \in [AllConsumers -> Nat]
    BY <2>1, <2>3 DEF TypeOK
  <2> QED
    BY <1>19, <1>14, <2>4 DEF FlushShort, FlushDone, TypeOK
<1> QED
  BY <1>1, <1>2, <1>3, <1>4, <1>5, <1>6, <1>7, <1>8, <1>9, <1>10, <1>11,
     <1>12, <1>13, <1>15, <1>16, <1>17, <1>18, <1>19, <1>20, <1>21, <1>22
  DEF Next, Handler, Socket, Subscriber, Normalizer, Consumer, Flush, Server

\* The type invariant of the pipeline: in particular no envelope refers past
\* the end of its producer's payload.
THEOREM TypeCorrect == Spec => []TypeOK
<1>1. TypeInv => TypeOK
  BY DEF TypeInv
<1> QED
  BY TypeInit, TypeNext, <1>1, PTL DEF Spec

-----------------------------------------------------------------------------
(* One consumer is a lossy FIFO                                            *)

\* While the normalizer offers an event it has one in hand.
InHand == norm \in {"cold_writer", "embedder", "forwarder", "count"}
            => log # <<>>

\* A flush is only started for a non-empty batch.
BatchReady == \A c \in Consumers : task[c] \in {"flush", "last"} => buf[c] # <<>>

FifoInv == TypeInv /\ InHand /\ BatchReady

\* The invariant of the fan-out holds initially.
LEMMA FifoInit == Init => FifoInv
<1>1. Init => InHand /\ BatchReady
  BY PayloadFacts DEF Init, InHand, BatchReady
<1> QED
  BY <1>1, TypeInit DEF FifoInv

\* Every action keeps it.
LEMMA FifoNext == FifoInv /\ [Next]_vars => FifoInv'
<1> SUFFICES ASSUME FifoInv, [Next]_vars PROVE FifoInv'
  OBVIOUS
<1>0. TypeInv /\ TypeInv' /\ TypeOK /\ TypeOK'
  BY TypeNext DEF FifoInv, TypeInv
<1> USE DEF InHand, BatchReady
<1>1. InHand'
  <2>1. ASSUME Receive PROVE log' # <<>>
    <3>1. PICK t \in clock .. MaxClock : log' = Append(log, Normalized(Head(bus), t))
      BY <2>1 DEF Receive
    <3>2. log \in Seq(Event)
      BY <1>0 DEF TypeOK
    <3> QED
      BY <3>1, <3>2, AppendNonEmpty
  <2>2. ASSUME NEW c \in AllConsumers, Offer(c) PROVE InHand'
    BY <2>2 DEF Offer, FifoInv, AllConsumers
  <2>3. ASSUME Count \/ NormalizerExit PROVE InHand'
    BY <2>3 DEF Count, NormalizerExit, FifoInv
  <2>4. ASSUME UNCHANGED <<norm, log>> PROVE InHand'
    BY <2>4 DEF FifoInv
  <2> QED
    BY <2>1, <2>2, <2>3, <2>4
    DEF Next, Handler, Socket, Subscriber, Normalizer, Consumer, Flush, Server,
        HttpReject, HttpAdmit, HttpSend, HttpBusFull, WsUpgrade, WsRefuse, WsTake,
        WsSend, WsBusFull, WsAnswer, WsClose, MqttPublish, MqttUnrouted,
        TaskRecv, TaskTick, TaskClose, FlushOk, FlushErr, FlushShort, FlushDone,
        Shutdown, ServeReturns, ProcessExit, vars, normVars
<1>2. BatchReady'
  <2>1. ASSUME NEW c \in Consumers, TaskRecv(c) PROVE BatchReady'
    <3>1. buf'[c] # <<>>
      <4>1. c \in AllConsumers /\ chan[c] # <<>>
        BY <2>1, PayloadFacts DEF TaskRecv
      <4>2. chan[c] \in Seq(Nat) /\ buf[c] \in Seq(Nat)
        BY <4>1, <1>0 DEF TypeOK
      <4>3. Append(buf[c], Head(chan[c])) # <<>>
        BY <4>1, <4>2
      <4> QED
        BY <4>1, <4>3, <2>1, <1>0 DEF TaskRecv, TypeOK
    <3> QED
      BY <3>1, <2>1, <1>0, PayloadFacts DEF TaskRecv, TypeOK, FifoInv
  <2>2. ASSUME NEW c \in Consumers, TaskTick(c) PROVE BatchReady'
    BY <2>2, <1>0, PayloadFacts DEF TaskTick, TypeOK, FifoInv
  <2>3. ASSUME NEW c \in Consumers, TaskClose(c) PROVE BatchReady'
    BY <2>3, <1>0, PayloadFacts DEF TaskClose, TypeOK, FifoInv
  <2>4. ASSUME NEW c \in Consumers, FlushDone(c) PROVE BatchReady'
    BY <2>4, <1>0, PayloadFacts DEF FlushDone, TypeOK, FifoInv
  <2>5. ASSUME UNCHANGED outVars PROVE BatchReady'
    BY <2>5 DEF FifoInv, outVars
  <2> QED
    BY <2>1, <2>2, <2>3, <2>4, <2>5
    DEF Next, Handler, Socket, Subscriber, Normalizer, Consumer, Flush, Server,
        HttpReject, HttpAdmit, HttpSend, HttpBusFull, WsUpgrade, WsRefuse, WsTake,
        WsSend, WsBusFull, WsAnswer, WsClose, MqttPublish, MqttUnrouted,
        Receive, Offer, Count, NormalizerExit, FlushOk, FlushErr, FlushShort,
        Shutdown, ServeReturns, ProcessExit, vars
<1> QED
  BY <1>0, <1>1, <1>2 DEF FifoInv

Pending(c) == buf[c] \o chan[c]

\* The steps consumer c can see: none of its business, one more arrival kept
\* or dropped, its whole batch delivered or lost.
Same(c) == /\ sink'[c] = sink[c]
           /\ Pending(c)' = Pending(c)
           /\ Offered(c)' = Offered(c)
           /\ drops'[c] = drops[c] /\ failed'[c] = failed[c]

Kept(c) == /\ sink'[c] = sink[c]
           /\ Pending(c)' = Append(Pending(c), Offered(c) + 1)
           /\ Offered(c)' = Offered(c) + 1
           /\ Offered(c) < Len(log)
           /\ Selected(c, log[Offered(c) + 1].pair)
           /\ drops'[c] = drops[c] /\ failed'[c] = failed[c]

Dropped(c) == /\ sink'[c] = sink[c]
              /\ Pending(c)' = Pending(c)
              /\ Offered(c)' = Offered(c) + 1
              /\ c \in Consumers \cap CountsLosses => drops'[c] = drops[c] + 1
              /\ failed'[c] = failed[c]

Flushed(c) == /\ buf[c] # <<>>
              /\ \/ sink'[c] = sink[c] \o buf[c] /\ failed'[c] = failed[c]
                 \/ /\ sink'[c] = sink[c]
                    /\ c \in CountsLosses => failed'[c] = failed[c] + Len(buf[c])
                 \/ /\ c = "forwarder"
                    /\ \E k \in 0 .. Len(buf[c]) - 1 :
                         /\ sink'[c] = sink[c] \o SubSeq(buf[c], 1, k)
                         /\ failed'[c] = failed[c] + (Len(buf[c]) - k)
              /\ Pending(c)' = chan[c]
              /\ Offered(c)' = Offered(c)
              /\ drops'[c] = drops[c]

ConsumerStep(c) == Same(c) \/ Kept(c) \/ Dropped(c) \/ Flushed(c)

\* The log is append-only and at most one longer.
LogGrows == /\ Len(log') \in {Len(log), Len(log) + 1}
            /\ \A n \in 1 .. Len(log) : log'[n] = log[n]

\* The log only grows at its end.
LEMMA LogStep ==
  ASSUME FifoInv, [Next]_vars PROVE LogGrows
<1>1. log \in Seq(Event) /\ log' \in Seq(Event)
  BY TypeNext DEF FifoInv, TypeInv, TypeOK
<1>2. ASSUME Receive PROVE LogGrows
  <2>1. PICK t \in clock .. MaxClock : log' = Append(log, Normalized(Head(bus), t))
    BY <1>2 DEF Receive
  <2> QED
    BY <1>1, <2>1 DEF LogGrows
<1>3. ASSUME log' = log PROVE LogGrows
  BY <1>1, <1>3 DEF LogGrows
<1> QED
  BY <1>2, <1>3
  DEF Next, Handler, Socket, Subscriber, Normalizer, Consumer, Flush, Server,
      HttpReject, HttpAdmit, HttpSend, HttpBusFull, WsUpgrade, WsRefuse, WsTake,
        WsSend, WsBusFull, WsAnswer, WsClose, MqttPublish, MqttUnrouted,
      Offer, Count, NormalizerExit,
      TaskRecv, TaskTick, TaskClose, FlushOk, FlushErr, FlushShort, FlushDone,
      Shutdown, ServeReturns, ProcessExit, vars, normVars

\* Every step of the pipeline is one of these steps for every consumer.
LEMMA StepIsConsumerStep ==
  ASSUME FifoInv, [Next]_vars, NEW d \in AllConsumers PROVE ConsumerStep(d)
<1>0. TypeOK /\ TypeOK' /\ d \in AllConsumers /\ InHand /\ BatchReady
  BY TypeNext DEF FifoInv, TypeInv
<1>d. d # "mqtt_subscriber" /\ d \in AllConsumers \cup {"mqtt_subscriber"}
  BY DEF AllConsumers
<1>t. /\ sink[d] \in Seq(Nat) /\ buf[d] \in Seq(Nat) /\ chan[d] \in Seq(Nat)
      /\ log \in Seq(Event)
  BY <1>0 DEF TypeOK
<1> USE DEF ConsumerStep
<1>1. ASSUME Receive PROVE ConsumerStep(d)
  <2>1. PICK t \in clock .. MaxClock : log' = Append(log, Normalized(Head(bus), t))
    BY <1>1 DEF Receive
  <2>2. Len(log') = Len(log) + 1
    BY <2>1, <1>t, <1>0 DEF TypeOK
  <2>3. norm = "recv" /\ norm' = "cold_writer"
    BY <1>1 DEF Receive
  <2>4. Offered(d)' = Offered(d)
    BY <2>2, <2>3, <1>0, <1>t DEF Offered, Before, AllConsumers
  <2>5. sink' = sink /\ buf' = buf /\ chan' = chan /\ drops' = drops /\ failed' = failed
    BY <1>1 DEF Receive, outVars
  <2> QED
    BY <2>4, <2>5 DEF Same, Pending
<1>2. ASSUME NEW c \in AllConsumers, Offer(c) PROVE ConsumerStep(d)
  <2>1. /\ norm = c /\ norm' = After[c] /\ log' = log
        /\ sink' = sink /\ buf' = buf /\ failed' = failed
    BY <1>2 DEF Offer, outVars
  <2>2. Len(log) \in Nat \ {0}
    BY <2>1, <1>0, <1>t, <1>2 DEF InHand, AllConsumers
  <2>3. CASE d # c
    <3>1. Offered(d)' = Offered(d)
      BY <2>1, <2>3, <1>0 DEF Offered, Before, After, AllConsumers
    <3>2. chan'[d] = chan[d] /\ drops'[d] = drops[d]
      BY <1>2, <2>3, <1>0, <1>d DEF Offer, TypeOK
    <3> QED
      BY <3>1, <3>2, <2>1 DEF Same, Pending
  <2>4. CASE d = c
    <3>1. Offered(d) = Len(log) - 1 /\ Offered(d)' = Len(log)
      BY <2>1, <2>4, <1>0 DEF Offered, Before, After, AllConsumers
    <3>2. CASE /\ Selected(c, log[Len(log)].pair) /\ drops' = drops
               /\ chan' = [chan EXCEPT ![c] = Append(@, Len(log))]
      <4>1. chan'[d] = Append(chan[d], Len(log))
        BY <3>2, <2>4, <1>0 DEF TypeOK
      <4>2. buf[d] \o Append(chan[d], Len(log)) = Append(buf[d] \o chan[d], Len(log))
        <5>1. Len(log) \in Nat
          BY <2>2
        <5> QED
          BY <1>t, <5>1, AppendConcat
      <4>3. Offered(d) + 1 = Len(log) /\ Offered(d) < Len(log)
        BY <3>1, <2>2
      <4> QED
        BY <3>1, <3>2, <4>1, <4>2, <4>3, <2>1, <2>4 DEF Kept, Pending
    <3>3. CASE /\ chan' = chan
               /\ \/ drops' = [drops EXCEPT ![c] = @ + 1]
                  \/ ~Selected(c, log[Len(log)].pair)
      <4>1. Offered(d)' = Offered(d) + 1
        BY <3>1, <2>2
      <4>2. d \in Consumers \cap CountsLosses => Selected(c, log[Len(log)].pair)
        BY <2>4 DEF Selected, CountsLosses
      <4>3. d \in Consumers \cap CountsLosses => drops'[d] = drops[d] + 1
        BY <4>2, <3>3, <2>4, <1>0, <1>d DEF TypeOK
      <4> QED
        BY <4>1, <4>3, <3>3, <2>1 DEF Dropped, Pending
    <3> QED
      BY <3>2, <3>3, <1>2 DEF Offer
  <2> QED
    BY <2>3, <2>4
<1>3. ASSUME Count \/ NormalizerExit PROVE ConsumerStep(d)
  <2>1. norm \in {"recv", "count"} /\ norm' \in {"recv", "done"} /\ log' = log
        /\ sink' = sink /\ buf' = buf /\ chan' = chan /\ drops' = drops /\ failed' = failed
    BY <1>3 DEF Count, NormalizerExit, outVars
  <2>2. Offered(d)' = Offered(d)
    BY <2>1, <1>0 DEF Offered, Before, AllConsumers
  <2> QED
    BY <2>1, <2>2 DEF Same, Pending
<1>4. ASSUME NEW c \in Consumers, TaskRecv(c) PROVE ConsumerStep(d)
  <2>1. /\ sink' = sink /\ norm' = norm /\ log' = log /\ c \in AllConsumers
        /\ drops' = drops /\ failed' = failed
    BY <1>4, PayloadFacts DEF TaskRecv, normVars
  <2>2. Offered(d)' = Offered(d)
    BY <2>1 DEF Offered
  <2>3. Pending(d)' = Pending(d)
    <3>1. CASE d # c
      BY <3>1, <1>4, <1>0 DEF Pending, TaskRecv, TypeOK
    <3>2. CASE d = c
      <4>1. chan[d] # <<>> /\ chan'[d] = Tail(chan[d]) /\ buf'[d] = Append(buf[d], Head(chan[d]))
        BY <3>2, <1>4, <1>0 DEF TaskRecv, TypeOK
      <4>2. Append(buf[d], Head(chan[d])) \o Tail(chan[d]) = buf[d] \o chan[d]
        BY <4>1, <1>t, MoveHead
      <4> QED
        BY <4>1, <4>2 DEF Pending
    <3> QED
      BY <3>1, <3>2
  <2> QED
    BY <2>1, <2>2, <2>3 DEF Same
<1>5. ASSUME NEW c \in Consumers, Flush(c) PROVE ConsumerStep(d)
  <2>1. norm' = norm /\ log' = log /\ chan' = chan /\ buf' = [buf EXCEPT ![c] = <<>>]
        /\ task[c] \in {"flush", "last"} /\ drops' = drops
    BY <1>5 DEF Flush, FlushOk, FlushErr, FlushShort, FlushDone, normVars
  <2>2. Offered(d)' = Offered(d)
    BY <2>1 DEF Offered
  <2>3. CASE d # c
    <3>1. sink'[d] = sink[d] /\ buf'[d] = buf[d] /\ failed'[d] = failed[d]
      BY <2>1, <2>3, <1>5, <1>0 DEF Flush, FlushOk, FlushErr, FlushShort, TypeOK
    <3> QED
      BY <3>1, <2>1, <2>2 DEF Same, Pending
  <2>4. CASE d = c
    <3>1. buf[d] # <<>>
      BY <2>1, <2>4, <1>0 DEF BatchReady
    <3>2. \/ sink'[d] = sink[d] \o buf[d] /\ failed'[d] = failed[d]
          \/ /\ sink'[d] = sink[d]
             /\ d \in CountsLosses => failed'[d] = failed[d] + Len(buf[d])
          \/ /\ d = "forwarder"
             /\ \E k \in 0 .. Len(buf[d]) - 1 :
                  /\ sink'[d] = sink[d] \o SubSeq(buf[d], 1, k)
                  /\ failed'[d] = failed[d] + (Len(buf[d]) - k)
      <4>1. CASE FlushOk(c)
        BY <2>4, <4>1, <1>0 DEF FlushOk, TypeOK
      <4>2. CASE FlushErr(c)
        BY <2>4, <4>2, <1>0 DEF FlushErr, TypeOK, CountsLosses
      <4>3. CASE FlushShort(c)
        <5>1. d = "forwarder"
          BY <2>4, <4>3 DEF FlushShort
        <5>2. PICK k \in 0 .. Len(buf[c]) - 1 :
                /\ sink' = [sink EXCEPT ![c] = @ \o SubSeq(buf[c], 1, k)]
                /\ failed' = [failed EXCEPT ![c] = @ + (Len(buf[c]) - k)]
          BY <4>3 DEF FlushShort
        <5>3. /\ sink'[d] = sink[d] \o SubSeq(buf[d], 1, k)
              /\ failed'[d] = failed[d] + (Len(buf[d]) - k)
          BY <5>2, <2>4, <1>0 DEF TypeOK
        <5> QED
          BY <5>1, <5>3, <2>4
      <4> QED
        BY <4>1, <4>2, <4>3, <1>5 DEF Flush
    <3>3. buf'[d] = <<>>
      BY <2>1, <2>4, <1>0 DEF TypeOK
    <3>4. <<>> \o chan[d] = chan[d]
      BY <1>t, ConcatEmptySeq
    <3> QED
      BY <3>1, <3>2, <3>3, <3>4, <2>1, <2>2 DEF Flushed, Pending
  <2> QED
    BY <2>3, <2>4
<1>6. ASSUME UNCHANGED <<norm, log, sink, buf, chan, failed>>, drops'[d] = drops[d]
      PROVE  ConsumerStep(d)
  BY <1>6 DEF Same, Offered, Pending
<1>7. ASSUME NEW b \in Brokers, MqttPublish(b) PROVE drops'[d] = drops[d]
  BY <1>7, <1>0, <1>d DEF MqttPublish, TypeOK
<1> QED
  BY <1>1, <1>2, <1>3, <1>4, <1>5, <1>6, <1>7
  DEF Next, Handler, Socket, Subscriber, Normalizer, Consumer, Flush, Server,
      HttpReject, HttpAdmit, HttpSend, HttpBusFull, WsUpgrade, WsRefuse, WsTake,
        WsSend, WsBusFull, WsAnswer, WsClose, MqttPublish, MqttUnrouted,
      TaskTick, TaskClose, Shutdown, ServeReturns, ProcessExit,
      vars, normVars, outVars

-----------------------------------------------------------------------------
(* Order                                                                   *)

\* h lists arrivals up to n, all of them in S, in increasing order.
Ordered(h, n, S) ==
  /\ Increasing(h)
  /\ \A i \in 1 .. Len(h) : h[i] \in 1 .. n /\ h[i] \in S

\* The next arrival can be added to an ordered sequence.
LEMMA OrderedAppend ==
  ASSUME NEW h \in Seq(Nat), NEW n \in Nat, NEW S, Ordered(h, n, S), n + 1 \in S
  PROVE  Ordered(Append(h, n + 1), n + 1, S)
  BY DEF Ordered, Increasing

\* A sequence stays ordered when more has arrived.
LEMMA OrderedMore ==
  ASSUME NEW h \in Seq(Nat), NEW n \in Nat, NEW m \in Nat, n <= m,
         NEW S, Ordered(h, n, S)
  PROVE  Ordered(h, m, S)
  BY DEF Ordered

\* How three sequences in a row associate.
LEMMA ConcatThree ==
  ASSUME NEW s \in Seq(Nat), NEW b \in Seq(Nat), NEW t \in Seq(Nat)
  PROVE  /\ (s \o b) \o t = s \o (b \o t)
         /\ (s \o b) \o t \in Seq(Nat)
         /\ b \o t \in Seq(Nat)
<1>1. s \o b \in Seq(Nat) /\ b \o t \in Seq(Nat)
  BY ConcatProperties
<1>2. (s \o b) \o t \in Seq(Nat)
  BY <1>1, ConcatProperties
<1>3. (s \o b) \o t = s \o (b \o t)
  BY <1>1, <1>2, SMTT(30)
<1> QED
  BY <1>1, <1>2, <1>3

\* What a consumer holds, as sink, batch and channel in a row.
LEMMA HeldSplit ==
  ASSUME TypeOK, TypeOK', NEW d \in AllConsumers
  PROVE  /\ Held(d) = sink[d] \o Pending(d) /\ Held(d) \in Seq(Nat)
         /\ Held(d)' = sink'[d] \o Pending(d)' /\ Held(d)' \in Seq(Nat)
         /\ Pending(d) \in Seq(Nat)
<1>1. sink[d] \in Seq(Nat) /\ buf[d] \in Seq(Nat) /\ chan[d] \in Seq(Nat)
  BY DEF TypeOK
<1>2. sink'[d] \in Seq(Nat) /\ buf'[d] \in Seq(Nat) /\ chan'[d] \in Seq(Nat)
  BY DEF TypeOK
<1>3. /\ (sink[d] \o buf[d]) \o chan[d] = sink[d] \o (buf[d] \o chan[d])
      /\ (sink[d] \o buf[d]) \o chan[d] \in Seq(Nat)
      /\ buf[d] \o chan[d] \in Seq(Nat)
  BY <1>1, ConcatThree, Zenon
<1>4. /\ (sink'[d] \o buf'[d]) \o chan'[d] = sink'[d] \o (buf'[d] \o chan'[d])
      /\ (sink'[d] \o buf'[d]) \o chan'[d] \in Seq(Nat)
  BY <1>2, ConcatThree, Zenon
<1>5. /\ Held(d) = (sink[d] \o buf[d]) \o chan[d]
      /\ Pending(d) = buf[d] \o chan[d]
  BY DEF Held, Pending
<1>6. /\ Held(d)' = (sink'[d] \o buf'[d]) \o chan'[d]
      /\ Pending(d)' = buf'[d] \o chan'[d]
  BY DEF Held, Pending
<1> QED
  BY <1>3, <1>4, <1>5, <1>6

\* Losing the batch in the middle leaves an order.
LEMMA OrderedCut ==
  ASSUME NEW s \in Seq(Nat), NEW b \in Seq(Nat), NEW t \in Seq(Nat),
         NEW n \in Nat, NEW S, Ordered((s \o b) \o t, n, S)
  PROVE  Ordered(s \o t, n, S)
<1> DEFINE h == (s \o b) \o t
           at(i) == IF i <= Len(s) THEN i ELSE i + Len(b)
<1>1. ASSUME NEW i \in 1 .. Len(s \o t)
      PROVE  at(i) \in 1 .. Len(h) /\ (s \o t)[i] = h[at(i)]
  <2>0. /\ Len(s \o t) = Len(s) + Len(t) /\ Len(h) = Len(s) + Len(b) + Len(t)
        /\ Len(s) \in Nat /\ Len(b) \in Nat /\ Len(t) \in Nat
    OBVIOUS
  <2>1. CASE i <= Len(s)
    BY <2>0, <2>1
  <2>2. CASE i > Len(s)
    <3>1. at(i) = i + Len(b) /\ at(i) \in 1 .. Len(h)
      BY <2>0, <2>2
    <3>2. (s \o t)[i] = t[i - Len(s)]
      BY <2>0, <2>2
    <3>3. h[i + Len(b)] = t[i - Len(s)]
      BY <2>0, <2>2
    <3> QED
      BY <3>1, <3>2, <3>3
  <2>3. i <= Len(s) \/ i > Len(s)
    BY <2>0
  <2> HIDE DEF at, h
  <2> QED
    BY <2>1, <2>2, <2>3, Zenon
<1>2. \A i, j \in 1 .. Len(s \o t) : i < j => at(i) < at(j)
  OBVIOUS
<1> QED
  BY <1>1, <1>2 DEF Ordered, Increasing

\* So does delivering a part of it only.
LEMMA OrderedShort ==
  ASSUME NEW s \in Seq(Nat), NEW b \in Seq(Nat), NEW t \in Seq(Nat),
         NEW n \in Nat, NEW S, Ordered((s \o b) \o t, n, S),
         NEW c \in Seq(Nat), Len(c) <= Len(b), \A i \in 1 .. Len(c) : c[i] = b[i]
  PROVE  Ordered((s \o c) \o t, n, S)
<1> DEFINE h == (s \o b) \o t
           g == (s \o c) \o t
           at(i) == IF i <= Len(s) + Len(c) THEN i ELSE (i + Len(b)) - Len(c)
<1>1. ASSUME NEW i \in 1 .. Len(g)
      PROVE  at(i) \in 1 .. Len(h) /\ g[i] = h[at(i)]
  <2>0. /\ Len(g) = Len(s) + Len(c) + Len(t) /\ Len(h) = Len(s) + Len(b) + Len(t)
        /\ Len(s) \in Nat /\ Len(b) \in Nat /\ Len(c) \in Nat /\ Len(t) \in Nat
    OBVIOUS
  <2>1. CASE i <= Len(s)
    BY <2>0, <2>1
  <2>2. CASE i > Len(s) /\ i <= Len(s) + Len(c)
    <3>1. i - Len(s) \in 1 .. Len(c)
      BY <2>0, <2>2
    <3>2. g[i] = c[i - Len(s)] /\ h[i] = b[i - Len(s)]
      BY <2>0, <2>2
    <3>3. at(i) = i /\ at(i) \in 1 .. Len(h)
      BY <2>0, <2>2
    <3> QED
      BY <3>1, <3>2, <3>3
  <2>3. CASE i > Len(s) + Len(c)
    <3>1. at(i) = (i + Len(b)) - Len(c) /\ at(i) \in 1 .. Len(h)
      BY <2>0, <2>3
    <3>2. g[i] = t[i - (Len(s) + Len(c))]
      BY <2>0, <2>3
    <3>3. h[(i + Len(b)) - Len(c)] = t[i - (Len(s) + Len(c))]
      BY <2>0, <2>3
    <3> QED
      BY <3>1, <3>2, <3>3
  <2>4. \/ i <= Len(s)
        \/ i > Len(s) /\ i <= Len(s) + Len(c)
        \/ i > Len(s) + Len(c)
    BY <2>0
  <2> QED
    BY <2>1, <2>2, <2>3, <2>4, Zenon
<1>2. \A i, j \in 1 .. Len(g) : i < j => at(i) < at(j)
  OBVIOUS
<1> QED
  BY <1>1, <1>2 DEF Ordered, Increasing

\* The first k elements of a sequence.
LEMMA FirstElements ==
  ASSUME NEW b \in Seq(Nat), NEW k \in 0 .. Len(b) - 1
  PROVE  /\ SubSeq(b, 1, k) \in Seq(Nat) /\ Len(SubSeq(b, 1, k)) = k
         /\ Len(SubSeq(b, 1, k)) <= Len(b)
         /\ \A i \in 1 .. Len(SubSeq(b, 1, k)) : SubSeq(b, 1, k)[i] = b[i]
  OBVIOUS

\* The arrivals meant for consumer c.
Meant(c) == {n \in Nat : Selected(c, log[n].pair)}

\* InOrder says that each consumer holds an ordered sequence.
LEMMA InOrderIsOrdered ==
  InOrder <=> \A c \in Consumers : Ordered(Held(c), Offered(c), Meant(c))
  BY DEF InOrder, Ordered, Meant

\* Every step keeps InOrder.
LEMMA InOrderNext ==
  ASSUME FifoInv, InOrder, [Next]_vars PROVE InOrder'
<1>1. SUFFICES ASSUME NEW d \in Consumers
               PROVE  Ordered(Held(d), Offered(d), Meant(d))'
  BY InOrderIsOrdered, Zenon DEF InOrder, Ordered, Meant
<1>0. TypeOK /\ TypeOK' /\ d \in AllConsumers /\ InHand
  BY TypeNext, PayloadFacts DEF FifoInv, TypeInv
<1>2. /\ sink[d] \in Seq(Nat) /\ buf[d] \in Seq(Nat) /\ chan[d] \in Seq(Nat)
      /\ sink'[d] \in Seq(Nat) /\ buf'[d] \in Seq(Nat) /\ chan'[d] \in Seq(Nat)
      /\ log \in Seq(Event) /\ log' \in Seq(Event)
  BY <1>0 DEF TypeOK
<1>3. Offered(d) \in Nat /\ Offered(d) <= Len(log)
  <2>1. norm \in Before(d) => Len(log) \in Nat \ {0}
    BY <1>0, <1>2 DEF InHand, Before, AllConsumers
  <2> QED
    BY <2>1, <1>2 DEF Offered
<1>4. /\ Held(d) = sink[d] \o Pending(d) /\ Held(d) \in Seq(Nat)
      /\ Held(d)' = sink'[d] \o Pending(d)' /\ Held(d)' \in Seq(Nat)
      /\ Pending(d) \in Seq(Nat)
  BY <1>0, HeldSplit
<1>5. Ordered(Held(d), Offered(d), Meant(d))
  BY InOrderIsOrdered
<1>6. ASSUME NEW h, NEW m \in Nat, m <= Len(log), Ordered(h, m, Meant(d))
      PROVE  Ordered(h, m, Meant(d)')
  <2>1. \A n \in 1 .. m : log'[n] = log[n]
    <3>1. LogGrows
      BY LogStep
    <3>2. Len(log) \in Nat
      BY <1>2
    <3> QED
      BY <1>6, <3>1, <3>2 DEF LogGrows
  <2> QED
    BY <1>6, <2>1 DEF Ordered, Meant
<1>7. CASE Same(d)
  <2>1. Held(d)' = Held(d) /\ Offered(d)' = Offered(d)
    BY <1>4, <1>7 DEF Same
  <2> QED
    BY <2>1, <1>3, <1>5, <1>6 DEF Ordered
<1>8. CASE Kept(d)
  <2>1. Offered(d)' = Offered(d) + 1 /\ Offered(d) + 1 <= Len(log)
        /\ Offered(d) + 1 \in Meant(d)
    BY <1>8, <1>2, <1>3 DEF Kept, Meant
  <2>2. Held(d)' = Append(Held(d), Offered(d) + 1)
    <3>1. Offered(d) + 1 \in Nat
      BY <1>3
    <3>2. sink'[d] = sink[d] /\ Pending(d)' = Append(Pending(d), Offered(d) + 1)
      BY <1>8 DEF Kept
    <3>3. sink[d] \o Append(Pending(d), Offered(d) + 1)
            = Append(sink[d] \o Pending(d), Offered(d) + 1)
      BY <3>1, <1>2, <1>4, AppendConcat
    <3> QED
      BY <3>2, <3>3, <1>4
  <2>3. Ordered(Append(Held(d), Offered(d) + 1), Offered(d) + 1, Meant(d))
    BY <1>3, <1>4, <1>5, <2>1, OrderedAppend
  <2>4. Ordered(Append(Held(d), Offered(d) + 1), Offered(d) + 1, Meant(d)')
    <3>1. Offered(d) + 1 \in Nat
      BY <1>3
    <3> QED
      BY <3>1, <2>1, <2>3, <1>6
  <2> QED
    BY <2>1, <2>2, <2>4 DEF Ordered
<1>9. CASE Dropped(d)
  <2>1. Held(d)' = Held(d) /\ Offered(d)' = Offered(d) + 1
    BY <1>4, <1>9 DEF Dropped
  <2>2. Ordered(Held(d), Offered(d), Meant(d)')
    BY <1>3, <1>5, <1>6
  <2>3. Ordered(Held(d), Offered(d) + 1, Meant(d)')
    <3>1. Offered(d) + 1 \in Nat /\ Offered(d) <= Offered(d) + 1
      BY <1>3
    <3> QED
      BY <3>1, <2>2, <1>3, <1>4, OrderedMore
  <2> QED
    BY <2>1, <2>3 DEF Ordered
<1>10. CASE Flushed(d)
  <2>1. Offered(d)' = Offered(d) /\ Pending(d)' = chan[d]
    BY <1>10 DEF Flushed
  <2>2. CASE sink'[d] = sink[d] \o buf[d]
    <3>1. Held(d)' = Held(d)
      BY <2>1, <2>2, <1>4 DEF Held
    <3> QED
      BY <2>1, <3>1, <1>3, <1>5, <1>6 DEF Ordered
  <2>3. CASE sink'[d] = sink[d]
    <3>1. Held(d)' = sink[d] \o chan[d]
      BY <2>1, <2>3, <1>4
    <3>2. Ordered(sink[d] \o chan[d], Offered(d), Meant(d))
      BY <1>2, <1>3, <1>5, OrderedCut DEF Held
    <3> QED
      BY <2>1, <3>1, <3>2, <1>3, <1>6 DEF Ordered
  <2>4. ASSUME NEW k \in 0 .. Len(buf[d]) - 1,
               sink'[d] = sink[d] \o SubSeq(buf[d], 1, k)
        PROVE  Ordered(Held(d), Offered(d), Meant(d))'
    <3>1. Held(d)' = (sink[d] \o SubSeq(buf[d], 1, k)) \o chan[d]
      BY <2>1, <2>4, <1>4
    <3>2. Ordered((sink[d] \o SubSeq(buf[d], 1, k)) \o chan[d], Offered(d), Meant(d))
      <4>1. Ordered((sink[d] \o buf[d]) \o chan[d], Offered(d), Meant(d))
        BY <1>5 DEF Held
      <4>2. /\ SubSeq(buf[d], 1, k) \in Seq(Nat) /\ Len(SubSeq(buf[d], 1, k)) <= Len(buf[d])
            /\ \A i \in 1 .. Len(SubSeq(buf[d], 1, k)) : SubSeq(buf[d], 1, k)[i] = buf[d][i]
        BY <2>4, <1>2, FirstElements, Zenon
      <4> QED
        BY <4>1, <4>2, <1>2, <1>3, OrderedShort, Zenon
    <3> QED
      BY <2>1, <3>1, <3>2, <1>3, <1>6 DEF Ordered
  <2> QED
    BY <2>2, <2>3, <2>4, <1>10 DEF Flushed
<1> QED
  BY <1>0, <1>7, <1>8, <1>9, <1>10, StepIsConsumerStep DEF ConsumerStep

\* Every consumer receives arrivals in arrival order and none twice, however
\* channels overflow and flushes fail, for every depth, batch size and load.
THEOREM ConsumersInOrder == Spec => []InOrder
<1>1. Init => InOrder
  BY PayloadFacts DEF Init, InOrder, Held, Increasing
<1>2. FifoInv /\ InOrder /\ [Next]_vars => (FifoInv /\ InOrder)'
  BY FifoNext, InOrderNext
<1> QED
  BY FifoInit, <1>1, <1>2, PTL DEF Spec

-----------------------------------------------------------------------------
(* Refinement                                                              *)

\* What leaves first from a batch followed by a channel is the batch.
LEMMA CutBatch ==
  ASSUME NEW b \in Seq(Nat), NEW t \in Seq(Nat)
  PROVE  /\ SubSeq(b \o t, 1, Len(b)) = b
         /\ SubSeq(b \o t, Len(b) + 1, Len(b \o t)) = t
         /\ b # <<>> => Len(b) \in 1 .. Len(b \o t)
<1>1. b \o t \in Seq(Nat) /\ Len(b \o t) = Len(b) + Len(t)
      /\ Len(b) \in Nat /\ Len(t) \in Nat
  BY ConcatProperties
<1>2. \A i \in 1 .. Len(b) : (b \o t)[i] = b[i]
  OBVIOUS
<1>3. \A i \in 1 .. Len(t) : (b \o t)[Len(b) + i] = t[i]
  OBVIOUS
<1>4. SubSeq(b \o t, 1, Len(b)) = b
  <2>1. SubSeq(b \o t, 1, Len(b)) \in Seq(Nat)
        /\ Len(SubSeq(b \o t, 1, Len(b))) = Len(b)
        /\ \A i \in 1 .. Len(b) : SubSeq(b \o t, 1, Len(b))[i] = b[i]
    BY <1>1, <1>2
  <2> QED
    BY <2>1, SeqEqual
<1>5. SubSeq(b \o t, Len(b) + 1, Len(b \o t)) = t
  <2>1. SubSeq(b \o t, Len(b) + 1, Len(b \o t)) \in Seq(Nat)
        /\ Len(SubSeq(b \o t, Len(b) + 1, Len(b \o t))) = Len(t)
        /\ \A i \in 1 .. Len(t) : SubSeq(b \o t, Len(b) + 1, Len(b \o t))[i] = t[i]
    BY <1>1, <1>3
  <2> QED
    BY <2>1, SeqEqual
<1> QED
  BY <1>1, <1>4, <1>5

\* The initial states and the steps of the cold writer's queue are those of
\* a lossy FIFO.
LEMMA ColdFifoStep ==
  /\ Init => ColdFifo!Init
  /\ FifoInv /\ [Next]_vars => [ColdFifo!Next]_(ColdFifo!fifoVars)
<1> DEFINE d == "cold_writer"
<1>1. d \in AllConsumers
  BY DEF AllConsumers
<1>2. Init => ColdFifo!Init
  BY <1>1 DEF Init, ColdFifo!Init, Offered, Before
<1>3. FifoInv /\ [Next]_vars => [ColdFifo!Next]_(ColdFifo!fifoVars)
  <2> SUFFICES ASSUME FifoInv, [Next]_vars
               PROVE  [ColdFifo!Next]_(ColdFifo!fifoVars)
    OBVIOUS
  <2>1. ConsumerStep(d)
    BY <1>1, StepIsConsumerStep
  <2>2. sink[d] \in Seq(Nat) /\ buf[d] \in Seq(Nat) /\ chan[d] \in Seq(Nat)
    BY <1>1 DEF FifoInv, TypeInv, TypeOK
  <2>3. CASE Same(d)
    BY <2>3 DEF Same, Pending, ColdFifo!fifoVars
  <2>4. CASE Kept(d)
    BY <2>4 DEF Kept, Pending, ColdFifo!Next, ColdFifo!Keep
  <2>5. CASE Dropped(d)
    BY <2>5 DEF Dropped, Pending, ColdFifo!Next, ColdFifo!Drop
  <2>6. CASE Flushed(d)
    <3>1. Len(buf[d]) \in 1 .. Len(buf[d] \o chan[d])
      <4>1. buf[d] # <<>>
        BY <2>6 DEF Flushed
      <4> QED
        BY <4>1, <2>2, CutBatch, Zenon
    <3>2. ColdFifo!Leave(Len(buf[d]))
      <4>1. SubSeq(buf[d] \o chan[d], Len(buf[d]) + 1, Len(buf[d] \o chan[d])) = chan[d]
        BY <2>2, CutBatch
      <4> QED
        BY <4>1, <2>6 DEF ColdFifo!Leave, Flushed, Pending
    <3>3. SubSeq(buf[d] \o chan[d], 1, Len(buf[d])) = buf[d]
      BY <2>2, CutBatch
    <3>4. CASE sink'[d] = sink[d] \o buf[d]
      BY <3>1, <3>2, <3>3, <3>4 DEF ColdFifo!Deliver, ColdFifo!Next
    <3>5. CASE sink'[d] = sink[d]
      BY <3>1, <3>2, <3>5 DEF ColdFifo!Lose, ColdFifo!Next
    <3> QED
      BY <3>4, <3>5, <2>6 DEF Flushed
  <2> QED
    BY <2>1, <2>3, <2>4, <2>5, <2>6 DEF ConsumerStep
<1> QED
  BY <1>2, <1>3

\* The initial states and the steps of the embedder's queue are those of
\* a lossy FIFO.
LEMMA EmbedFifoStep ==
  /\ Init => EmbedFifo!Init
  /\ FifoInv /\ [Next]_vars => [EmbedFifo!Next]_(EmbedFifo!fifoVars)
<1> DEFINE d == "embedder"
<1>1. d \in AllConsumers
  BY DEF AllConsumers
<1>2. Init => EmbedFifo!Init
  BY <1>1 DEF Init, EmbedFifo!Init, Offered, Before
<1>3. FifoInv /\ [Next]_vars => [EmbedFifo!Next]_(EmbedFifo!fifoVars)
  <2> SUFFICES ASSUME FifoInv, [Next]_vars
               PROVE  [EmbedFifo!Next]_(EmbedFifo!fifoVars)
    OBVIOUS
  <2>1. ConsumerStep(d)
    BY <1>1, StepIsConsumerStep
  <2>2. sink[d] \in Seq(Nat) /\ buf[d] \in Seq(Nat) /\ chan[d] \in Seq(Nat)
    BY <1>1 DEF FifoInv, TypeInv, TypeOK
  <2>3. CASE Same(d)
    BY <2>3 DEF Same, Pending, EmbedFifo!fifoVars
  <2>4. CASE Kept(d)
    BY <2>4 DEF Kept, Pending, EmbedFifo!Next, EmbedFifo!Keep
  <2>5. CASE Dropped(d)
    BY <2>5 DEF Dropped, Pending, EmbedFifo!Next, EmbedFifo!Drop
  <2>6. CASE Flushed(d)
    <3>1. Len(buf[d]) \in 1 .. Len(buf[d] \o chan[d])
      <4>1. buf[d] # <<>>
        BY <2>6 DEF Flushed
      <4> QED
        BY <4>1, <2>2, CutBatch, Zenon
    <3>2. EmbedFifo!Leave(Len(buf[d]))
      <4>1. SubSeq(buf[d] \o chan[d], Len(buf[d]) + 1, Len(buf[d] \o chan[d])) = chan[d]
        BY <2>2, CutBatch
      <4> QED
        BY <4>1, <2>6 DEF EmbedFifo!Leave, Flushed, Pending
    <3>3. SubSeq(buf[d] \o chan[d], 1, Len(buf[d])) = buf[d]
      BY <2>2, CutBatch
    <3>4. CASE sink'[d] = sink[d] \o buf[d]
      BY <3>1, <3>2, <3>3, <3>4 DEF EmbedFifo!Deliver, EmbedFifo!Next
    <3>5. CASE sink'[d] = sink[d]
      BY <3>1, <3>2, <3>5 DEF EmbedFifo!Lose, EmbedFifo!Next
    <3> QED
      BY <3>4, <3>5, <2>6 DEF Flushed
  <2> QED
    BY <2>1, <2>3, <2>4, <2>5, <2>6 DEF ConsumerStep
<1> QED
  BY <1>2, <1>3

\* Channel, batch buffer and sink of the cold writer, and those of the
\* embedder, form a lossy FIFO of the normalizer's output, for every depth,
\* batch size and load: Pipeline implements LossyFifo twice over.
THEOREM StoresRefineLossyFifo == Spec => StoresAreLossyFifos
<1>1. Spec => ColdFifo!Spec
  BY ColdFifoStep, FifoInit, FifoNext, PTL DEF Spec, ColdFifo!Spec
<1>2. Spec => EmbedFifo!Spec
  BY EmbedFifoStep, FifoInit, FifoNext, PTL DEF Spec, EmbedFifo!Spec
<1> QED
  BY <1>1, <1>2 DEF StoresAreLossyFifos

-----------------------------------------------------------------------------
(* Accounting                                                              *)

\* How much is held when the batch in the middle is gone.
LEMMA HeldLength ==
  ASSUME NEW s \in Seq(Nat), NEW b \in Seq(Nat), NEW t \in Seq(Nat)
  PROVE  /\ Len((s \o b) \o t) \in Nat
         /\ Len(s \o t) = Len((s \o b) \o t) - Len(b)
         /\ Len(b) \in Nat
  BY ConcatProperties

\* How much it holds after a flush that lost a part.
LEMMA HeldShort ==
  ASSUME NEW s \in Seq(Nat), NEW t \in Seq(Nat)
  PROVE  \A b, c \in Seq(Nat) :
           Len((s \o c) \o t) = Len((s \o b) \o t) - (Len(b) - Len(c))
  BY ConcatProperties

\* How much it holds after an arrival.
LEMMA HeldOneMore ==
  ASSUME NEW s \in Seq(Nat), NEW b \in Seq(Nat), NEW n \in Nat
  PROVE  Len(s \o Append(b, n)) = Len(s \o b) + 1
  BY ConcatProperties, AppendProperties

HeldLen(c) == Len(Held(c))
BatchLen(c) == Len(buf[c])

\* Every step keeps the accounts balanced.
LEMMA AccountingNext ==
  ASSUME FifoInv, Accounting, [Next]_vars PROVE Accounting'
<1>0. TypeOK /\ TypeOK' /\ InHand
  BY TypeNext DEF FifoInv, TypeInv
<1>1. accepted' = (Offered("forwarder") - (IF norm = "count" THEN 1 ELSE 0))'
  <2>0. /\ Offered("forwarder") = IF norm \in {"cold_writer", "embedder", "forwarder"}
                                 THEN Len(log) - 1 ELSE Len(log)
        /\ Offered("forwarder")' = IF norm' \in {"cold_writer", "embedder", "forwarder"}
                                  THEN Len(log') - 1 ELSE Len(log')
    BY DEF Offered, Before
  <2>1. /\ Len(log) \in Nat
        /\ accepted = Offered("forwarder") - (IF norm = "count" THEN 1 ELSE 0)
    BY <1>0 DEF TypeOK, Accounting
  <2>2. ASSUME Receive PROVE <1>1!:
    <3>1. PICK t \in clock .. MaxClock : log' = Append(log, Normalized(Head(bus), t))
      BY <2>2 DEF Receive
    <3>2. Len(log') = Len(log) + 1
      BY <3>1, <1>0 DEF TypeOK
    <3> QED
      BY <3>2, <2>0, <2>1, <2>2 DEF Receive
  <2>3. ASSUME NEW c \in AllConsumers, Offer(c) PROVE <1>1!:
    BY <2>0, <2>1, <2>3 DEF Offer, After, AllConsumers
  <2>4. ASSUME Count \/ NormalizerExit PROVE <1>1!:
    BY <2>0, <2>1, <2>4 DEF Count, NormalizerExit
  <2>5. ASSUME UNCHANGED <<norm, log, accepted>> PROVE <1>1!:
    BY <2>0, <2>1, <2>5
  <2> QED
    BY <2>2, <2>3, <2>4, <2>5
    DEF Next, Handler, Socket, Subscriber, Normalizer, Consumer, Flush, Server,
        HttpReject, HttpAdmit, HttpSend, HttpBusFull, WsUpgrade, WsRefuse, WsTake,
        WsSend, WsBusFull, WsAnswer, WsClose, MqttPublish, MqttUnrouted,
        TaskRecv, TaskTick, TaskClose, FlushOk, FlushErr, FlushShort, FlushDone,
        Shutdown, ServeReturns, ProcessExit, vars, normVars
<1>2. ASSUME NEW d \in Consumers \cap CountsLosses
      PROVE  (Offered(d) = Len(Held(d)) + drops[d] + failed[d])'
  <2>1. d \in AllConsumers /\ d \in AllConsumers \cup {"mqtt_subscriber"} /\ ConsumerStep(d)
    BY StepIsConsumerStep, PayloadFacts
  <2>2. /\ sink[d] \in Seq(Nat) /\ buf[d] \in Seq(Nat) /\ chan[d] \in Seq(Nat)
        /\ sink'[d] \in Seq(Nat) /\ buf'[d] \in Seq(Nat) /\ chan'[d] \in Seq(Nat)
        /\ drops[d] \in Nat /\ failed[d] \in Nat
    BY <1>0, <2>1 DEF TypeOK
  <2>3. /\ Held(d) = sink[d] \o Pending(d) /\ Held(d)' = sink'[d] \o Pending(d)'
        /\ Pending(d) \in Seq(Nat)
    BY <1>0, <2>1, HeldSplit
  <2>4. /\ Held(d) = (sink[d] \o buf[d]) \o chan[d]
        /\ Held(d)' = (sink'[d] \o buf'[d]) \o chan'[d]
    BY DEF Held
  <2>5. /\ HeldLen(d) \in Nat /\ BatchLen(d) \in Nat
        /\ Len(sink[d] \o chan[d]) = HeldLen(d) - BatchLen(d)
    <3>1. /\ Len((sink[d] \o buf[d]) \o chan[d]) \in Nat /\ Len(buf[d]) \in Nat
          /\ Len(sink[d] \o chan[d]) = Len((sink[d] \o buf[d]) \o chan[d]) - Len(buf[d])
      BY <2>2, HeldLength, Zenon
    <3> QED
      BY <3>1, <2>4, Zenon DEF HeldLen, BatchLen
  <2>0. Offered(d) = HeldLen(d) + drops[d] + failed[d]
    BY DEF Accounting, HeldLen
  <2> SUFFICES Offered(d)' = HeldLen(d)' + drops'[d] + failed'[d]
    BY DEF HeldLen
  <2>6. CASE Same(d)
    <3>1. HeldLen(d)' = HeldLen(d)
      BY <2>3, <2>6 DEF Same, HeldLen
    <3> QED
      BY <3>1, <2>0, <2>6 DEF Same
  <2>7. CASE Kept(d)
    <3>1. Offered(d) + 1 \in Nat
      BY <2>0, <2>2, <2>5
    <3>2. Held(d)' = sink[d] \o Append(Pending(d), Offered(d) + 1)
      BY <2>3, <2>7 DEF Kept
    <3>3. Len(sink[d] \o Append(Pending(d), Offered(d) + 1))
            = Len(sink[d] \o Pending(d)) + 1
      BY <3>1, <2>2, <2>3, HeldOneMore, Zenon
    <3>4. HeldLen(d)' = HeldLen(d) + 1
      BY <3>2, <3>3, <2>3, Zenon DEF HeldLen
    <3> QED
      BY <3>4, <2>0, <2>2, <2>5, <2>7 DEF Kept
  <2>8. CASE Dropped(d)
    <3>1. HeldLen(d)' = HeldLen(d)
      BY <2>3, <2>8 DEF Dropped, HeldLen
    <3> QED
      <4>1. /\ Offered(d)' = Offered(d) + 1 /\ failed'[d] = failed[d]
            /\ drops'[d] = drops[d] + 1
        BY <2>8 DEF Dropped
      <4> QED
        BY <3>1, <4>1, <2>0, <2>2, <2>5
  <2>9. CASE Flushed(d)
    <3>1. Held(d)' = sink'[d] \o chan[d]
      BY <2>3, <2>9 DEF Flushed
    <3>2. CASE sink'[d] = sink[d] \o buf[d] /\ failed'[d] = failed[d]
      <4>1. HeldLen(d)' = HeldLen(d)
        BY <3>1, <3>2, <2>4 DEF HeldLen
      <4> QED
        BY <4>1, <3>2, <2>0, <2>9 DEF Flushed
    <3>3. CASE sink'[d] = sink[d] /\ failed'[d] = failed[d] + Len(buf[d])
      <4>1. HeldLen(d)' = HeldLen(d) - BatchLen(d)
        BY <3>1, <3>3, <2>5 DEF HeldLen
      <4>2. failed'[d] = failed[d] + BatchLen(d)
        BY <3>3 DEF BatchLen
      <4> QED
        BY <4>1, <4>2, <2>0, <2>2, <2>5, <2>9 DEF Flushed
    <3>4. ASSUME NEW k \in 0 .. Len(buf[d]) - 1,
                 sink'[d] = sink[d] \o SubSeq(buf[d], 1, k),
                 failed'[d] = failed[d] + (Len(buf[d]) - k)
          PROVE  Offered(d)' = HeldLen(d)' + drops'[d] + failed'[d]
      <4>1. Len((sink[d] \o SubSeq(buf[d], 1, k)) \o chan[d])
              = Len((sink[d] \o buf[d]) \o chan[d]) - (Len(buf[d]) - k)
        <5> DEFINE c == SubSeq(buf[d], 1, k)
        <5>1. c \in Seq(Nat) /\ Len(c) = k
          BY <2>2, <3>4, FirstElements, Zenon
        <5> HIDE DEF c
        <5>2. Len((sink[d] \o c) \o chan[d])
                = Len((sink[d] \o buf[d]) \o chan[d]) - (Len(buf[d]) - Len(c))
          <6>1. sink[d] \in Seq(Nat) /\ buf[d] \in Seq(Nat) /\ chan[d] \in Seq(Nat)
            BY <2>2
          <6>2. \A x, y \in Seq(Nat) : Len((sink[d] \o y) \o chan[d])
                  = Len((sink[d] \o x) \o chan[d]) - (Len(x) - Len(y))
            BY <6>1, HeldShort, Zenon
          <6> QED
            BY <5>1, <6>1, <6>2, Zenon
        <5> QED
          BY <5>1, <5>2, Zenon DEF c
      <4>2. HeldLen(d)' = HeldLen(d) - (BatchLen(d) - k)
        BY <4>1, <3>1, <3>4, <2>4, Zenon DEF HeldLen, BatchLen
      <4>3. failed'[d] = failed[d] + (BatchLen(d) - k) /\ k \in Int
        BY <3>4, <2>2 DEF BatchLen
      <4> QED
        BY <4>2, <4>3, <2>0, <2>2, <2>5, <2>9 DEF Flushed
    <3> QED
      BY <3>2, <3>3, <3>4, <2>9 DEF Flushed
  <2> QED
    BY <2>1, <2>6, <2>7, <2>8, <2>9 DEF ConsumerStep
<1> QED
  BY <1>1, <1>2 DEF Accounting

\* No event offered to the cold writer or the forwarder vanishes uncounted
\* while the process lives, and inc_accepted counts the events that have
\* been through the whole fan-out.
THEOREM EventsAccounted == Spec => []Accounting
<1>1. Init => Accounting
  BY PayloadFacts DEF Init, Accounting, Held, Offered, Before, CountsLosses
<1>2. FifoInv /\ Accounting /\ [Next]_vars => (FifoInv /\ Accounting)'
  BY FifoNext, AccountingNext
<1> QED
  BY FifoInit, <1>1, <1>2, PTL DEF Spec
-----------------------------------------------------------------------------
(* What producers may rely on, sequence numbers and rings: invariants      *)

\* Nothing was enqueued that was not looked at, and a request enqueues all
\* it looks at.
PostsInv ==
  /\ \A i \in 1 .. Len(Posts) : Posts[i].k <= tried[Posts[i].from]
  /\ \A r \in Requests : tried[r] = sent[r]

\* sent counts the posts of an origin.
PostsOf(o) == {i \in 1 .. Len(Posts) : Posts[i].from = o}
CountInv == \A o \in Origins : Cardinality(PostsOf(o)) = sent[o]

\* Once the normalizer has returned no sender is left, and none comes back.
DoneInv ==
  norm = "done" =>
    /\ phase \in {"stopped", "exited"} /\ bus = <<>> /\ Brokers = {}
    /\ \A r \in Requests : http[r] # "sending"
    /\ \A w \in Sessions : ws[w] \in {"new", "closed"}

\* A consumer task ends after the normalizer, with an empty channel.
ExitInv ==
  \A c \in Consumers :
    /\ task[c] \in {"last", "exit"} => norm = "done" /\ chan[c] = <<>>
    /\ task[c] = "exit" => buf[c] = <<>>

\* Events of a session that the client has been answered for.
HeardPosts(w) == {i \in 1 .. Len(Posts) : Posts[i].from = w /\ Posts[i].k <= heard[w]}

\* An event was enqueued, or the client knows its message was refused.
Settled(w, k) ==
  \/ \E i \in 1 .. Len(Posts) : Posts[i] = [from |-> w, k |-> k]
  \/ MsgEnd(w, k - 1) \in refused[w]

\* What the session counts in the message in hand.
Untold(w) == IF ws[w] \in {"sending", "answer"} THEN wsCount[w] ELSE 0

\* What the client was answered is true and refers to the past, and a refused
\* message was not enqueued to its end.
HeardOk(w) ==
  /\ heard[w] <= tried[w]
  /\ Cardinality(HeardPosts(w)) = told[w]
  /\ \A k \in 1 .. heard[w] : Settled(w, k)
RefusedOk(w) ==
  \A e \in refused[w] :
    /\ e <= tried[w]
    /\ \A i \in 1 .. Len(Posts) : Posts[i] # [from |-> w, k |-> e]

\* While no frame is lost the client is up to date: what the session has
\* enqueued it has told, or counts in the message in hand; what it has looked
\* at it has enqueued, or its message was refused.
LinkOk(w) ==
  link[w] =>
    /\ sent[w] = told[w] + Untold(w)
    /\ \A k \in 1 .. tried[w] : Settled(w, k)
    /\ ws[w] \notin {"sending", "answer"} => heard[w] = tried[w]

SessionInv == \A w \in Sessions : HeardOk(w) /\ RefusedOk(w) /\ LinkOk(w)

\* The arrivals of a source among the first n; seqOf counts them.
ArrivalsOf(s, n) == {m \in 1 .. n : SourceOf[log[m].pair] = s}
SeqInv ==
  /\ \A s \in Sources : seqOf[s] = Cardinality(ArrivalsOf(s, Len(log)))
  /\ \A n \in 1 .. Len(log) :
       log[n].seq = Cardinality(ArrivalsOf(SourceOf[log[n].pair], n))

\* A ring is in the order of arrival and of the clock.
RingOrder ==
  \A p \in Pairs :
    /\ \A i, j \in 1 .. Len(ring[p]) : i <= j => ring[p][i].ingest <= ring[p][j].ingest
    /\ \A i \in 1 .. Len(ring[p]) : ring[p][i].ingest <= clock

-----------------------------------------------------------------------------
(* Posts                                                                   *)

LogPosts == [n \in 1 .. Len(log) |-> log[n].post]

LEMMA PostsType ==
  ASSUME TypeOK
  PROVE  /\ LogPosts \in Seq(Post) /\ Len(LogPosts) = Len(log)
         /\ Posts = LogPosts \o bus /\ Posts \in Seq(Post)
         /\ Len(Posts) \in Nat
<1>1. log \in Seq(Event) /\ bus \in Seq(Post) /\ Len(log) \in Nat
  BY DEF TypeOK
<1>2. \A n \in 1 .. Len(log) : log[n].post \in Post
  <2>1. \A n \in 1 .. Len(log) : log[n] \in Event
    BY <1>1, ElementOfSeq
  <2> QED
    BY <2>1 DEF Event
<1>3. LogPosts \in Seq(Post) /\ Len(LogPosts) = Len(log)
  BY <1>1, <1>2 DEF LogPosts
<1>4. Posts = LogPosts \o bus
  BY DEF Posts, LogPosts
<1>5. Posts \in Seq(Post)
  BY <1>1, <1>3, <1>4, ConcatProperties
<1> QED
  BY <1>3, <1>4, <1>5

\* An origin puts its next event on the bus ...
Enqueue(o) ==
  /\ Posts' = Append(Posts, [from |-> o, k |-> tried[o] + 1])
  /\ tried' = [tried EXCEPT ![o] = @ + 1]
  /\ sent' = [sent EXCEPT ![o] = @ + 1]

\* ... or, except for a request, skips some.
NoEnqueue ==
  /\ Posts' = Posts /\ sent' = sent
  /\ \A o \in Origins : tried[o] <= tried'[o]
  /\ \A r \in Requests : tried'[r] = tried[r]

\* The end of a message lies ahead of every position in it, and is the same
\* for all of them.
LEMMA MsgEndFacts ==
  ASSUME NEW w \in Sessions, NEW k \in Nat, k < Len(Payload[w])
  PROVE  /\ MsgEnd(w, k) \in Nat /\ MsgEnd(w, k) > k
         /\ \A j \in k .. MsgEnd(w, k) - 1 : MsgEnd(w, j) = MsgEnd(w, k)
<1> DEFINE E(j) == {e \in MsgEnds[w] : e > j}
           Least(e, j) == e \in MsgEnds[w] /\ e > j /\ \A f \in MsgEnds[w] : f > j => e <= f
<1>1. E(k) \in SUBSET Nat /\ MsgEnds[w] \in SUBSET Nat
  BY PipelineAssumption
<1>2. Len(Payload[w]) \in E(k)
  BY PayloadFacts, PipelineAssumption
<1>3. PICK m \in E(k) : \A y \in E(k) : m <= y
  BY <1>1, <1>2, NatMin
<1>4. Least(MsgEnd(w, k), k)
  BY <1>3 DEF MsgEnd
<1>5. ASSUME NEW j \in k .. MsgEnd(w, k) - 1 PROVE MsgEnd(w, j) = MsgEnd(w, k)
  <2>1. MsgEnd(w, k) \in Nat /\ j \in Nat /\ j < MsgEnd(w, k) /\ k <= j
    BY <1>1, <1>4
  <2>2. Least(MsgEnd(w, k), j)
    BY <1>1, <1>4, <2>1
  <2>3. Least(MsgEnd(w, j), j)
    BY <2>2 DEF MsgEnd
  <2>4. MsgEnd(w, j) \in Nat
    BY <1>1, <2>3
  <2> QED
    BY <2>1, <2>2, <2>3, <2>4
<1> QED
  BY <1>1, <1>4, <1>5

\* Putting an envelope on the bus adds it to the posts.
LEMMA BusAppend ==
  ASSUME TypeOK, NEW x \in Post, bus' = Append(bus, x), log' = log
  PROVE  Posts' = Append(Posts, x)
<1>1. LogPosts \in Seq(Post) /\ bus \in Seq(Post) /\ Posts = LogPosts \o bus
  BY PostsType DEF TypeOK
<1>2. Posts' = LogPosts \o Append(bus, x)
  BY DEF Posts, LogPosts
<1>3. /\ Append(bus, x) = bus \o <<x>> /\ Append(LogPosts \o bus, x) = (LogPosts \o bus) \o <<x>>
  BY <1>1, AppendIsConcat, ConcatProperties
<1>4. <<x>> \in Seq(Post)
  OBVIOUS
<1> QED
  BY <1>1, <1>2, <1>3, <1>4, ConcatAssociative

\* The normalizer moves an envelope from the bus to the log.
LEMMA ReceiveMoves ==
  ASSUME TypeOK, TypeOK', Receive
  PROVE  Posts' = Posts
<1>1. PICK t \in clock .. MaxClock : log' = Append(log, Normalized(Head(bus), t))
  BY DEF Receive
<1> DEFINE e == Normalized(Head(bus), t)
<1>2. e.post = Head(bus)
  BY DEF Normalized
<1>3. bus # <<>> /\ bus' = Tail(bus) /\ bus \in Seq(Post) /\ log \in Seq(Event)
      /\ log' \in Seq(Event)
  BY DEF Receive, TypeOK
<1> HIDE DEF e
<1>4. log' = Append(log, e)
  BY <1>1 DEF e
<1>5. Head(bus) \in Post
  BY <1>3
<1>6. /\ Len(log') = Len(log) + 1 /\ log'[Len(log) + 1] = e /\ Len(log) \in Nat
      /\ \A n \in 1 .. Len(log) : log'[n] = log[n]
  BY <1>3, <1>4
<1>7. LogPosts' = Append(LogPosts, Head(bus))
  <2>1. LogPosts \in Seq(Post) /\ Len(LogPosts) = Len(log)
    BY PostsType
  <2>2. Append(LogPosts, Head(bus)) \in Seq(Post) /\ Len(Append(LogPosts, Head(bus))) = Len(log) + 1
    BY <1>5, <2>1
  <2>3. LogPosts' \in Seq(Post) /\ Len(LogPosts') = Len(log) + 1
    <3>1. (LogPosts \in Seq(Post) /\ Len(LogPosts) = Len(log))'
      BY PostsType, PTL
    <3> QED
      BY <1>6, <3>1
  <2>4. ASSUME NEW n \in 1 .. Len(log) + 1 PROVE LogPosts'[n] = Append(LogPosts, Head(bus))[n]
    <3>1. LogPosts'[n] = log'[n].post
      BY <1>6 DEF LogPosts
    <3>2. CASE n = Len(log) + 1
      <4>1. Append(LogPosts, Head(bus))[Len(LogPosts) + 1] = Head(bus)
        BY <1>5, <2>1
      <4>2. log'[n].post = e.post
        BY <1>6, <3>2
      <4> QED
        BY <1>2, <2>1, <3>1, <3>2, <4>1, <4>2
    <3>3. CASE n \in 1 .. Len(log)
      <4>1. Append(LogPosts, Head(bus))[n] = LogPosts[n]
        BY <1>5, <2>1, <3>3
      <4>2. LogPosts[n] = log[n].post
        BY <3>3 DEF LogPosts
      <4> QED
        BY <1>6, <3>1, <3>3, <4>1, <4>2
    <3>4. n = Len(log) + 1 \/ n \in 1 .. Len(log)
      BY <1>3
    <3> QED
      BY <3>2, <3>3, <3>4, Zenon
  <2> QED
    BY <2>2, <2>3, <2>4, SeqEqual
<1>8. Posts = LogPosts \o bus /\ LogPosts \in Seq(Post)
  BY PostsType
<1>9. Posts' = LogPosts' \o bus'
  BY DEF Posts, LogPosts
<1> QED
  BY <1>3, <1>7, <1>8, <1>9, MoveHead

\* Every step is one or the other.
LEMMA PostsStep ==
  ASSUME TypeInv, [Next]_vars
  PROVE  NoEnqueue \/ \E o \in Origins : Enqueue(o)
<1>0. TypeOK /\ TypeOK'
  BY TypeNext DEF TypeInv
<1>t. tried \in [Origins -> Nat]
  BY <1>0 DEF TypeOK
<1> USE DEF answers, wsVars, inVars, normVars
<1>1. ASSUME UNCHANGED <<log, bus, sent, tried>> PROVE NoEnqueue
  BY <1>1, <1>t, PayloadFacts DEF NoEnqueue, Posts
<1>2. ASSUME NEW o \in Origins, tried[o] < Len(Payload[o]), log' = log,
             bus' = Append(bus, [from |-> o, k |-> tried[o] + 1]),
             tried' = [tried EXCEPT ![o] = @ + 1], sent' = [sent EXCEPT ![o] = @ + 1]
      PROVE  Enqueue(o)
  <2>1. [from |-> o, k |-> tried[o] + 1] \in Post
    BY <1>2, <1>t, PayloadFacts DEF Post
  <2> QED
    BY <1>0, <1>2, <2>1, BusAppend DEF Enqueue
<1>3. ASSUME NEW r \in Requests, HttpSend(r) PROVE Enqueue(r) /\ r \in Origins
  BY <1>2, <1>3, PayloadFacts DEF HttpSend, TypeInv, SendBound
<1>4. ASSUME NEW w \in Sessions, WsSend(w) PROVE Enqueue(w) /\ w \in Origins
  BY <1>2, <1>4, PayloadFacts DEF WsSend, TypeInv, SendBound
<1>5. ASSUME NEW o \in Origins, o \notin Requests, NEW x \in Nat, tried[o] <= x,
             tried' = [tried EXCEPT ![o] = x], UNCHANGED <<log, bus, sent>>
      PROVE  NoEnqueue
  <2>1. \A q \in Origins : tried'[q] = (IF q = o THEN x ELSE tried[q]) /\ tried[q] \in Nat
    BY <1>5, <1>t
  <2> QED
    BY <1>5, <2>1, PayloadFacts DEF NoEnqueue, Posts
<1>6. ASSUME NEW w \in Sessions, WsRefuse(w) \/ WsBusFull(w) PROVE NoEnqueue
  <2>1. tried[w] \in Nat /\ tried[w] < Len(Payload[w]) /\ w \in Origins /\ w \notin Requests
    <3>1. CASE WsRefuse(w)
      BY <1>t, <3>1, PayloadFacts DEF WsRefuse
    <3>2. CASE WsBusFull(w)
      BY <1>t, <3>2, PayloadFacts DEF WsBusFull, TypeInv, SendBound
    <3> QED
      BY <1>6, <3>1, <3>2
  <2>2. MsgEnd(w, tried[w]) \in Nat /\ MsgEnd(w, tried[w]) > tried[w]
    BY <2>1, MsgEndFacts
  <2>3. tried' = [tried EXCEPT ![w] = MsgEnd(w, tried[w])] /\ UNCHANGED <<log, bus, sent>>
    BY <1>6 DEF WsRefuse, WsBusFull
  <2>4. tried[w] <= MsgEnd(w, tried[w])
    BY <2>1, <2>2
  <2> QED
    BY <1>5, <2>1, <2>2, <2>3, <2>4, Zenon
<1>7. ASSUME NEW b \in Brokers, MqttPublish(b) \/ MqttUnrouted(b)
      PROVE  NoEnqueue \/ \E o \in Origins : Enqueue(o)
  <2>1. b \in Origins /\ b \notin Requests /\ tried[b] \in Nat /\ tried[b] < Len(Payload[b])
    BY <1>7, <1>t, PayloadFacts DEF MqttPublish, MqttUnrouted
  <2>2. tried' = [tried EXCEPT ![b] = tried[b] + 1] /\ log' = log
    BY <1>7 DEF MqttPublish, MqttUnrouted
  <2>3. \/ UNCHANGED <<bus, sent>>
        \/ /\ bus' = Append(bus, [from |-> b, k |-> tried[b] + 1])
           /\ sent' = [sent EXCEPT ![b] = @ + 1]
    BY <1>7 DEF MqttPublish, MqttUnrouted
  <2>4. CASE UNCHANGED <<bus, sent>>
    <3>1. tried[b] + 1 \in Nat /\ tried[b] <= tried[b] + 1
      BY <2>1
    <3> QED
      BY <1>5, <2>1, <2>2, <2>4, <3>1
  <2>5. CASE /\ bus' = Append(bus, [from |-> b, k |-> tried[b] + 1])
             /\ sent' = [sent EXCEPT ![b] = @ + 1]
    BY <1>2, <2>1, <2>2, <2>5
  <2> QED
    BY <2>3, <2>4, <2>5
<1>8. ASSUME Receive PROVE NoEnqueue
  <2>1. Posts' = Posts
    BY <1>0, <1>8, ReceiveMoves
  <2>2. sent' = sent /\ tried' = tried
    BY <1>8 DEF Receive
  <2> QED
    BY <1>t, <2>1, <2>2, PayloadFacts DEF NoEnqueue
<1> QED
  BY <1>1, <1>3, <1>4, <1>6, <1>7, <1>8
  DEF Next, Handler, Socket, Subscriber, Normalizer, Consumer, Flush, Server,
      HttpReject, HttpAdmit, HttpBusFull, WsUpgrade, WsTake, WsAnswer, WsClose,
      Offer, Count, NormalizerExit,
      TaskRecv, TaskTick, TaskClose, FlushOk, FlushErr, FlushShort, FlushDone,
      Shutdown, ServeReturns, ProcessExit, vars

\* What an enqueue changes, event by event.
LEMMA EnqueueFacts ==
  ASSUME TypeOK, NEW o \in Origins, Enqueue(o)
  PROVE  /\ Len(Posts) \in Nat /\ Len(Posts') = Len(Posts) + 1
         /\ \A i \in 1 .. Len(Posts) :
              /\ Posts'[i] = Posts[i] /\ Posts[i].from \in Origins /\ Posts[i].k \in Nat \ {0}
         /\ Posts'[Len(Posts) + 1] = [from |-> o, k |-> tried[o] + 1]
         /\ \A q \in Origins : /\ tried[q] \in Nat /\ sent[q] \in Nat
                               /\ tried'[q] = IF q = o THEN tried[o] + 1 ELSE tried[q]
                               /\ sent'[q] = IF q = o THEN sent[o] + 1 ELSE sent[q]
<1>1. Posts \in Seq(Post) /\ Posts \in Seq(Post \cup {[from |-> o, k |-> tried[o] + 1]})
  BY PostsType
<1>2. \A i \in 1 .. Len(Posts) : Posts[i] \in Post
  BY <1>1, ElementOfSeq
<1>3. \A i \in 1 .. Len(Posts) : Posts[i].from \in Origins /\ Posts[i].k \in Nat \ {0}
  BY <1>2 DEF Post
<1>4. /\ Len(Posts) \in Nat /\ Len(Posts') = Len(Posts) + 1
      /\ \A i \in 1 .. Len(Posts) : Posts'[i] = Posts[i]
      /\ Posts'[Len(Posts) + 1] = [from |-> o, k |-> tried[o] + 1]
  BY <1>1, AppendProperties DEF Enqueue
<1>5. \A q \in Origins : /\ tried[q] \in Nat /\ sent[q] \in Nat
                         /\ tried'[q] = IF q = o THEN tried[o] + 1 ELSE tried[q]
                         /\ sent'[q] = IF q = o THEN sent[o] + 1 ELSE sent[q]
  BY DEF Enqueue, TypeOK
<1> QED
  BY <1>3, <1>4, <1>5

\* Nothing that was not looked at is enqueued: kept by every step.
LEMMA PostsNext ==
  ASSUME TypeInv, PostsInv, [Next]_vars PROVE PostsInv'
<1>0. TypeOK
  BY DEF TypeInv
<1>1. CASE NoEnqueue
  <2>1. \A i \in 1 .. Len(Posts) : Posts[i] \in Post
    BY <1>0, PostsType, ElementOfSeq
  <2>2. \A i \in 1 .. Len(Posts) : Posts[i].from \in Origins /\ Posts[i].k \in Nat
    BY <2>1 DEF Post
  <2>3. \A q \in Origins : tried[q] \in Nat /\ tried'[q] \in Nat
    BY <1>0, TypeNext DEF TypeInv, TypeOK
  <2>4. Posts' = Posts /\ sent' = sent
        /\ (\A o \in Origins : tried[o] <= tried'[o]) /\ \A r \in Requests : tried'[r] = tried[r]
    BY <1>1 DEF NoEnqueue
  <2>5. \A i \in 1 .. Len(Posts) : Posts[i].k <= tried'[Posts[i].from]
    BY <2>2, <2>3, <2>4 DEF PostsInv
  <2> QED
    BY <2>4, <2>5 DEF PostsInv
<1>2. ASSUME NEW o \in Origins, Enqueue(o) PROVE PostsInv'
  <2>1. /\ Len(Posts) \in Nat /\ Len(Posts') = Len(Posts) + 1
        /\ \A i \in 1 .. Len(Posts) :
             /\ Posts'[i] = Posts[i] /\ Posts[i].from \in Origins /\ Posts[i].k \in Nat \ {0}
        /\ Posts'[Len(Posts) + 1] = [from |-> o, k |-> tried[o] + 1]
        /\ \A q \in Origins : /\ tried[q] \in Nat /\ sent[q] \in Nat
                              /\ tried'[q] = IF q = o THEN tried[o] + 1 ELSE tried[q]
                              /\ sent'[q] = IF q = o THEN sent[o] + 1 ELSE sent[q]
    BY <1>0, <1>2, EnqueueFacts
  <2>2. ASSUME NEW i \in 1 .. Len(Posts) + 1 PROVE Posts'[i].k <= tried'[Posts'[i].from]
    <3>1. CASE i \in 1 .. Len(Posts)
      BY <2>1, <3>1 DEF PostsInv
    <3>2. CASE i = Len(Posts) + 1
      BY <2>1, <3>2
    <3> QED
      BY <2>1, <3>1, <3>2
  <2>3. \A r \in Requests : tried'[r] = sent'[r]
    BY <2>1, PayloadFacts DEF PostsInv
  <2> QED
    BY <2>1, <2>2, <2>3 DEF PostsInv
<1> QED
  BY <1>1, <1>2, PostsStep

-----------------------------------------------------------------------------
(* Producers                                                               *)

\* The posts of a request are its first sent[r] events.
Exactly(r) ==
  /\ \A i \in 1 .. Len(Posts) : Posts[i].from = r => Posts[i].k \in 1 .. sent[r]
  /\ \A k \in 1 .. sent[r] : \E i \in 1 .. Len(Posts) : Posts[i].from = r /\ Posts[i].k = k

\* The posts of one origin are in order.
PostOrder ==
  \A i, j \in 1 .. Len(Posts) :
    i < j /\ Posts[i].from = Posts[j].from => Posts[i].k < Posts[j].k

LEMMA ProducerParts == ProducerOrder <=> PostOrder /\ \A r \in Requests : Exactly(r)
<1>1. ASSUME NEW r
      PROVE  {Posts[i].k : i \in {j \in 1 .. Len(Posts) : Posts[j].from = r}} = 1 .. sent[r]
               <=> Exactly(r)
  <2> DEFINE K == {Posts[i].k : i \in {j \in 1 .. Len(Posts) : Posts[j].from = r}}
  <2>1. \A x : x \in K <=> \E i \in 1 .. Len(Posts) : Posts[i].from = r /\ Posts[i].k = x
    OBVIOUS
  <2> HIDE DEF K
  <2>2. K = 1 .. sent[r] <=> (\A x \in K : x \in 1 .. sent[r]) /\ \A x \in 1 .. sent[r] : x \in K
    BY Zenon
  <2>3. K = 1 .. sent[r] <=> Exactly(r)
    BY <2>1, <2>2, Zenon DEF Exactly
  <2> QED
    BY <2>3 DEF K
<1> QED
  BY <1>1, Zenon DEF ProducerOrder, PostOrder

LEMMA ProducerNext ==
  ASSUME TypeInv, PostsInv, ProducerOrder, [Next]_vars PROVE ProducerOrder'
<1>0. TypeOK /\ PostOrder /\ \A r \in Requests : Exactly(r)
  BY ProducerParts DEF TypeInv
<1>1. CASE NoEnqueue
  <2>1. Posts' = Posts /\ sent' = sent
    BY <1>1 DEF NoEnqueue
  <2> QED
    BY <2>1 DEF ProducerOrder
<1>2. ASSUME NEW o \in Origins, Enqueue(o) PROVE ProducerOrder'
  <2>1. /\ Len(Posts) \in Nat /\ Len(Posts') = Len(Posts) + 1
        /\ \A i \in 1 .. Len(Posts) :
             /\ Posts'[i] = Posts[i] /\ Posts[i].from \in Origins /\ Posts[i].k \in Nat \ {0}
        /\ Posts'[Len(Posts) + 1] = [from |-> o, k |-> tried[o] + 1]
        /\ \A q \in Origins : /\ tried[q] \in Nat /\ sent[q] \in Nat
                              /\ tried'[q] = IF q = o THEN tried[o] + 1 ELSE tried[q]
                              /\ sent'[q] = IF q = o THEN sent[o] + 1 ELSE sent[q]
    BY <1>0, <1>2, EnqueueFacts
  <2>2. Posts'[Len(Posts) + 1].from = o /\ Posts'[Len(Posts) + 1].k = tried[o] + 1
    BY <2>1
  <2>3. ASSUME NEW i \in 1 .. Len(Posts) + 1, NEW j \in 1 .. Len(Posts) + 1, i < j,
               Posts'[i].from = Posts'[j].from
        PROVE  Posts'[i].k < Posts'[j].k
    <3>1. CASE j \in 1 .. Len(Posts)
      <4>1. i \in 1 .. Len(Posts)
        BY <2>1, <2>3, <3>1
      <4> QED
        BY <1>0, <2>1, <2>3, <3>1, <4>1 DEF PostOrder
    <3>2. CASE j = Len(Posts) + 1
      <4>1. i \in 1 .. Len(Posts)
        BY <2>1, <2>3, <3>2
      <4>2. Posts[i].from = o /\ Posts[i].k <= tried[o]
        BY <2>1, <2>2, <2>3, <3>2, <4>1 DEF PostsInv
      <4> QED
        BY <2>1, <2>2, <3>2, <4>1, <4>2
    <3> QED
      BY <2>1, <3>1, <3>2
  <2>4. ASSUME NEW r \in Requests PROVE Exactly(r)'
    <3>0. r \in Origins /\ tried[r] = sent[r]
      BY PayloadFacts DEF PostsInv
    <3>1. ASSUME NEW i \in 1 .. Len(Posts) + 1, Posts'[i].from = r
          PROVE  Posts'[i].k \in 1 .. sent'[r]
      <4>1. CASE i \in 1 .. Len(Posts)
        <5>1. Posts[i].k \in 1 .. sent[r]
          BY <1>0, <2>1, <3>1, <4>1 DEF Exactly
        <5> QED
          BY <2>1, <3>0, <4>1, <5>1
      <4>2. CASE i = Len(Posts) + 1
        BY <2>1, <2>2, <3>0, <3>1, <4>2
      <4> QED
        BY <2>1, <4>1, <4>2
    <3>2. ASSUME NEW k \in 1 .. sent'[r]
          PROVE  \E i \in 1 .. Len(Posts) + 1 : Posts'[i].from = r /\ Posts'[i].k = k
      <4>1. CASE k \in 1 .. sent[r]
        <5>1. PICK i \in 1 .. Len(Posts) : Posts[i].from = r /\ Posts[i].k = k
          BY <1>0, <4>1 DEF Exactly
        <5>2. i \in 1 .. Len(Posts) + 1 /\ Posts'[i] = Posts[i]
          BY <2>1, <5>1
        <5> QED
          BY <5>1, <5>2
      <4>2. CASE r = o /\ k = sent[o] + 1
        <5>1. Len(Posts) + 1 \in 1 .. Len(Posts) + 1
          BY <2>1
        <5> QED
          BY <2>2, <3>0, <4>2, <5>1
      <4> QED
        BY <2>1, <3>0, <3>2, <4>1, <4>2
    <3> QED
      BY <2>1, <3>1, <3>2 DEF Exactly
  <2>5. (PostOrder /\ \A r \in Requests : Exactly(r))'
    BY <2>1, <2>3, <2>4 DEF PostOrder
  <2> QED
    BY <2>5, ProducerParts, PTL
<1> QED
  BY <1>1, <1>2, PostsStep

\* Nothing is on the bus or in the log at first.
LEMMA NoPosts == Init => Posts = <<>>
<1> SUFFICES ASSUME Init PROVE Posts = <<>>
  OBVIOUS
<1>1. TypeOK /\ bus = <<>> /\ Len(log) = 0
  BY TypeInit DEF TypeInv, Init
<1>2. LogPosts \in Seq(Post) /\ Len(LogPosts) = 0 /\ Posts = LogPosts \o bus
  BY <1>1, PostsType
<1> QED
  BY <1>1, <1>2

\* The events of one producer are normalized in the order in which it sent
\* them, and of a request exactly the first sent[r], once each, also after a
\* bus_full answer (ingest_handler, run_session, the MQTT subscriber and
\* Normalizer::run), for any number of producers, payloads and bus depth.
THEOREM ProducersInOrder == Spec => []ProducerOrder
<1>1. Init => PostsInv /\ ProducerOrder
  <2> SUFFICES ASSUME Init PROVE PostsInv /\ ProducerOrder
    OBVIOUS
  <2>1. Len(Posts) = 0 /\ \A r \in Requests : tried[r] = 0 /\ sent[r] = 0
    BY NoPosts, PayloadFacts DEF Init
  <2>2. PostOrder /\ \A r \in Requests : Exactly(r)
    BY <2>1 DEF PostOrder, Exactly
  <2> QED
    BY <2>1, <2>2, ProducerParts DEF PostsInv
<1>2. TypeInv /\ PostsInv /\ ProducerOrder /\ [Next]_vars => (TypeInv /\ PostsInv /\ ProducerOrder)'
  BY TypeNext, PostsNext, ProducerNext
<1> QED
  BY TypeInit, <1>1, <1>2, PTL DEF Spec

-----------------------------------------------------------------------------
(* Shutdown                                                                *)

\* One more element in a stretch of the natural numbers.
LEMMA CountOneMore ==
  ASSUME NEW n \in Nat, NEW S \in SUBSET (1 .. n)
  PROVE  /\ IsFiniteSet(S) /\ Cardinality(S) \in Nat
         /\ Cardinality(S \cup {n + 1}) = Cardinality(S) + 1
<1>1. IsFiniteSet(S)
  <2>1. n \in Int /\ 1 \in Int
    OBVIOUS
  <2>2. IsFiniteSet(1 .. n)
    BY <2>1, FS_Interval, Zenon
  <2> QED
    BY <2>2, FS_Subset, Zenon
<1>2. n + 1 \notin S
  OBVIOUS
<1> QED
  BY <1>1, <1>2, FS_CardinalityType, FS_AddElement, Zenon

\* sent counts the posts of an origin: kept by every step.
LEMMA CountNext ==
  ASSUME TypeInv, CountInv, [Next]_vars PROVE CountInv'
<1>0. TypeOK
  BY DEF TypeInv
<1>1. CASE NoEnqueue
  <2>1. Posts' = Posts /\ sent' = sent
    BY <1>1 DEF NoEnqueue
  <2> QED
    BY <2>1 DEF CountInv, PostsOf
<1>2. ASSUME NEW o \in Origins, Enqueue(o) PROVE CountInv'
  <2>1. /\ Len(Posts) \in Nat /\ Len(Posts') = Len(Posts) + 1
        /\ \A i \in 1 .. Len(Posts) : Posts'[i] = Posts[i]
        /\ Posts'[Len(Posts) + 1] = [from |-> o, k |-> tried[o] + 1]
        /\ \A q \in Origins : /\ sent[q] \in Nat
                              /\ sent'[q] = IF q = o THEN sent[o] + 1 ELSE sent[q]
    BY <1>0, <1>2, EnqueueFacts
  <2>2. Posts'[Len(Posts) + 1].from = o
    BY <2>1
  <2> SUFFICES ASSUME NEW q \in Origins PROVE Cardinality(PostsOf(q)') = sent'[q]
    BY DEF CountInv
  <2>3. CASE q = o
    <3>1. PostsOf(q)' = PostsOf(q) \cup {Len(Posts) + 1}
      BY <2>1, <2>2, <2>3 DEF PostsOf
    <3>2. PostsOf(q) \in SUBSET (1 .. Len(Posts))
      BY DEF PostsOf
    <3>3. Cardinality(PostsOf(q) \cup {Len(Posts) + 1}) = Cardinality(PostsOf(q)) + 1
      BY <2>1, <3>2, CountOneMore, Zenon
    <3> QED
      BY <2>1, <2>3, <3>1, <3>3 DEF CountInv
  <2>4. CASE q # o
    <3>1. PostsOf(q)' = PostsOf(q)
      BY <2>1, <2>2, <2>4 DEF PostsOf
    <3> QED
      BY <2>1, <2>4, <3>1 DEF CountInv
  <2> QED
    BY <2>3, <2>4
<1> QED
  BY <1>1, <1>2, PostsStep

\* No sender comes back once the normalizer has returned.
LEMMA DoneNext ==
  ASSUME TypeInv, DoneInv, [Next]_vars PROVE DoneInv' /\ (norm = "done" => norm' = "done")
<1> USE DEF answers, wsVars, inVars, normVars
<1>1. CASE norm = "done"
  <2>0. /\ phase \in {"stopped", "exited"} /\ bus = <<>> /\ Brokers = {}
        /\ \A r \in Requests : http[r] # "sending"
        /\ \A w \in Sessions : ws[w] \in {"new", "closed"}
    BY <1>1 DEF DoneInv
  <2>1. UNCHANGED <<http, ws, bus, norm>> /\ phase' \in {"stopped", "exited"}
    <3>1. ASSUME NEW r \in Requests, Handler(r) PROVE FALSE
      BY <2>0, <3>1 DEF Handler, HttpReject, HttpAdmit, HttpSend, HttpBusFull
    <3>2. ASSUME NEW w \in Sessions, Socket(w) PROVE FALSE
      BY <2>0, <3>2 DEF Socket, WsUpgrade, WsRefuse, WsTake, WsSend, WsBusFull,
                        WsAnswer, WsClose
    <3>3. ~Normalizer
      BY <1>1 DEF Normalizer, Receive, Offer, Count, NormalizerExit, AllConsumers
    <3>4. ASSUME NEW c \in Consumers, Consumer(c) PROVE UNCHANGED <<http, ws, bus, norm, phase>>
      BY <3>4 DEF Consumer, Flush, TaskRecv, TaskTick, TaskClose, FlushOk, FlushErr,
                  FlushShort, FlushDone
    <3>5. ASSUME Server PROVE UNCHANGED <<http, ws, bus, norm>> /\ phase' = "exited"
      BY <2>0, <3>5 DEF Server, Shutdown, ServeReturns, ProcessExit
    <3> QED
      BY <2>0, <3>1, <3>2, <3>3, <3>4, <3>5 DEF Next, vars
  <2> QED
    BY <1>1, <2>0, <2>1 DEF DoneInv
<1>2. CASE norm # "done"
  <2>1. CASE NormalizerExit
    BY <1>2, <2>1 DEF NormalizerExit, BusClosed, LiveSessions, DoneInv
  <2>2. CASE ~NormalizerExit
    <3>1. norm' # "done"
      <4>1. ASSUME NEW c \in AllConsumers, Offer(c) PROVE norm' # "done"
        BY <4>1 DEF Offer, After, AllConsumers
      <4>2. ASSUME Receive \/ Count PROVE norm' # "done"
        BY <4>2 DEF Receive, Count
      <4> QED
        BY <1>2, <2>2, <4>1, <4>2
        DEF Next, Handler, Socket, Subscriber, Normalizer, Consumer, Flush, Server,
            HttpReject, HttpAdmit, HttpSend, HttpBusFull, WsUpgrade, WsRefuse, WsTake,
            WsSend, WsBusFull, WsAnswer, WsClose, MqttPublish, MqttUnrouted,
            TaskRecv, TaskTick, TaskClose, FlushOk, FlushErr, FlushShort, FlushDone,
            Shutdown, ServeReturns, ProcessExit, vars
    <3> QED
      BY <1>2, <3>1 DEF DoneInv
  <2> QED
    BY <2>1, <2>2
<1> QED
  BY <1>1, <1>2

\* A task ends empty: kept by every step.
LEMMA ExitNext ==
  ASSUME TypeInv, DoneInv, ExitInv, [Next]_vars PROVE ExitInv'
<1>0. TypeOK /\ (norm = "done" => norm' = "done")
  BY DoneNext DEF TypeInv
<1>t. /\ task \in [AllConsumers -> {"recv", "flush", "last", "exit"}]
      /\ chan \in [AllConsumers -> Seq(Nat)] /\ buf \in [AllConsumers -> Seq(Nat)]
      /\ \A c \in Consumers : c \in AllConsumers
  BY <1>0, PayloadFacts DEF TypeOK
<1> USE DEF ExitInv
<1>1. ASSUME UNCHANGED <<task, chan, buf>> PROVE ExitInv'
  BY <1>0, <1>1
<1>2. ASSUME NEW c \in AllConsumers, Offer(c) PROVE ExitInv'
  <2>1. norm # "done" /\ UNCHANGED <<task, buf>>
    BY <1>2 DEF Offer, AllConsumers, outVars
  <2>2. \A d \in Consumers : task[d] \notin {"last", "exit"}
    BY <2>1
  <2> QED
    BY <2>1, <2>2
<1>3. ASSUME NEW c \in Consumers, TaskRecv(c) PROVE ExitInv'
  <2>1. norm' = norm
    BY <1>3 DEF TaskRecv, normVars
  <2> QED
    BY <1>3, <1>t, <2>1 DEF TaskRecv
<1>4. ASSUME NEW c \in Consumers, TaskTick(c) PROVE ExitInv'
  <2>1. norm' = norm
    BY <1>4 DEF TaskTick, normVars
  <2> QED
    BY <1>4, <1>t, <2>1 DEF TaskTick
<1>5. ASSUME NEW c \in Consumers, TaskClose(c) PROVE ExitInv'
  <2>1. norm' = norm
    BY <1>5 DEF TaskClose, normVars
  <2> QED
    BY <1>5, <1>t, <2>1 DEF TaskClose
<1>6. ASSUME NEW c \in Consumers, FlushDone(c) PROVE ExitInv'
  <2>1. norm' = norm
    BY <1>6 DEF FlushDone, normVars
  <2> QED
    BY <1>6, <1>t, <2>1 DEF FlushDone
<1> QED
  BY <1>1, <1>2, <1>3, <1>4, <1>5, <1>6
  DEF Next, Handler, Socket, Subscriber, Normalizer, Consumer, Flush, Server,
      HttpReject, HttpAdmit, HttpSend, HttpBusFull, WsUpgrade, WsRefuse, WsTake,
      WsSend, WsBusFull, WsAnswer, WsClose, MqttPublish, MqttUnrouted,
      Receive, Count, NormalizerExit, FlushOk, FlushErr, FlushShort,
      Shutdown, ServeReturns, ProcessExit, vars, outVars

\* All this holds at first.
LEMMA ShutdownInit == Init => CountInv /\ DoneInv /\ ExitInv
<1> SUFFICES ASSUME Init PROVE CountInv /\ DoneInv /\ ExitInv
  OBVIOUS
<1>1. Len(Posts) = 0 /\ \A o \in Origins : sent[o] = 0
  BY NoPosts DEF Init
<1>2. \A o \in Origins : PostsOf(o) = {}
  BY <1>1 DEF PostsOf
<1>3. CountInv
  BY <1>1, <1>2, FS_EmptySet DEF CountInv
<1>4. DoneInv /\ ExitInv
  BY PayloadFacts DEF Init, DoneInv, ExitInv
<1> QED
  BY <1>3, <1>4

\* When the normalizer returns no sender is left and every enqueued event
\* has been normalized; a consumer task returns after that, with nothing left
\* (Normalizer::run, ColdWriter::run, server.rs), for any load.
THEOREM ShutdownDrains == Spec => []NormalizerDrains
<1> DEFINE Inv == TypeInv /\ CountInv /\ DoneInv /\ ExitInv
<1>1. Init => Inv
  BY TypeInit, ShutdownInit
<1>2. Inv /\ [Next]_vars => Inv'
  BY TypeNext, CountNext, DoneNext, ExitNext
<1>3. Inv => NormalizerDrains
  <2> SUFFICES ASSUME Inv PROVE NormalizerDrains
    OBVIOUS
  <2>1. ASSUME norm = "done"
        PROVE  /\ \A r \in Requests : http[r] # "sending"
               /\ LiveSessions = {}
               /\ \A o \in Requests \cup Sessions :
                    Cardinality({n \in 1 .. Len(log) : log[n].post.from = o}) = sent[o]
    <3>1. bus = <<>> /\ (\A r \in Requests : http[r] # "sending") /\ LiveSessions = {}
      BY <2>1 DEF DoneInv, LiveSessions
    <3>2. Posts = LogPosts /\ Len(LogPosts) = Len(log)
      BY <3>1, PostsType DEF TypeInv
    <3>3. ASSUME NEW o \in Origins
          PROVE  Cardinality({n \in 1 .. Len(log) : log[n].post.from = o}) = sent[o]
      <4>1. PostsOf(o) = {n \in 1 .. Len(log) : log[n].post.from = o}
        BY <3>2 DEF PostsOf, LogPosts
      <4> QED
        BY <4>1 DEF CountInv
    <3> QED
      BY <3>1, <3>3, PayloadFacts
  <2> QED
    BY <2>1 DEF NormalizerDrains, ExitInv
<1> HIDE DEF Inv
<1> QED
  BY <1>1, <1>2, <1>3, PTL DEF Spec

-----------------------------------------------------------------------------
(* WebSocket sessions                                                      *)

\* What is settled stays settled: posts and refusals are never taken back.
LEMMA SettledStays ==
  ASSUME TypeInv, [Next]_vars, NEW w \in Sessions, NEW k, Settled(w, k),
         refused[w] \subseteq refused'[w]
  PROVE  Settled(w, k)'
<1>0. TypeOK
  BY DEF TypeInv
<1>1. ASSUME NEW i \in 1 .. Len(Posts), Posts[i] = [from |-> w, k |-> k]
      PROVE  \E j \in 1 .. Len(Posts') : Posts'[j] = [from |-> w, k |-> k]
  <2>1. CASE NoEnqueue
    BY <1>1, <2>1 DEF NoEnqueue
  <2>2. ASSUME NEW o \in Origins, Enqueue(o)
        PROVE  \E j \in 1 .. Len(Posts') : Posts'[j] = [from |-> w, k |-> k]
    <3>1. Len(Posts) \in Nat /\ Len(Posts') = Len(Posts) + 1 /\ Posts'[i] = Posts[i]
      BY <1>0, <2>2, EnqueueFacts
    <3>2. i \in 1 .. Len(Posts')
      BY <3>1
    <3> QED
      BY <1>1, <3>1, <3>2
  <2> QED
    BY <2>1, <2>2, PostsStep
<1> QED
  BY <1>1, Zenon DEF Settled

\* The rest of a message whose refusal or shed_reason frame was got is
\* settled.
LEMMA RefusedSettles ==
  ASSUME TypeInv, [Next]_vars, NEW w \in Sessions,
         \A k \in 1 .. tried[w] : Settled(w, k),
         tried[w] \in Nat, tried[w] < Len(Payload[w]),
         tried'[w] = MsgEnd(w, tried[w]),
         refused'[w] = refused[w] \cup {MsgEnd(w, tried[w])}
  PROVE  \A k \in 1 .. tried'[w] : Settled(w, k)'
<1>1. /\ MsgEnd(w, tried[w]) \in Nat /\ MsgEnd(w, tried[w]) > tried[w]
      /\ \A j \in tried[w] .. MsgEnd(w, tried[w]) - 1 : MsgEnd(w, j) = MsgEnd(w, tried[w])
  BY MsgEndFacts
<1> SUFFICES ASSUME NEW k \in 1 .. tried'[w] PROVE Settled(w, k)'
  OBVIOUS
<1>3. CASE k \in 1 .. tried[w]
  <2>1. Settled(w, k)
    BY <1>3
  <2> QED
    BY <2>1, SettledStays
<1>4. CASE k - 1 \in tried[w] .. MsgEnd(w, tried[w]) - 1
  <2>1. MsgEnd(w, k - 1) \in refused'[w]
    BY <1>1, <1>4
  <2> QED
    BY <2>1 DEF Settled
<1> QED
  BY <1>1, <1>3, <1>4

\* How a step changes the posts of a session: they stay, or its next event
\* joins them.
LEMMA SessionPosts ==
  ASSUME TypeInv, [Next]_vars, NEW w \in Sessions
  PROVE  /\ tried[w] \in Nat /\ tried'[w] \in Nat /\ tried[w] <= tried'[w]
         /\ Len(Posts) \in Nat
         /\ \A i \in 1 .. Len(Posts) : Posts[i].k \in Nat
         /\ \/ Posts' = Posts
            \/ /\ Len(Posts') = Len(Posts) + 1
               /\ \A i \in 1 .. Len(Posts) : Posts'[i] = Posts[i]
               /\ Posts'[Len(Posts) + 1].from = w => Posts'[Len(Posts) + 1].k = tried[w] + 1
<1>0. TypeOK /\ w \in Origins
  BY PayloadFacts DEF TypeInv
<1>1. \A i \in 1 .. Len(Posts) : Posts[i].k \in Nat
  <2>1. \A i \in 1 .. Len(Posts) : Posts[i] \in Post
    BY <1>0, PostsType, ElementOfSeq
  <2> QED
    BY <2>1 DEF Post
<1>2. Len(Posts) \in Nat /\ tried[w] \in Nat /\ tried'[w] \in Nat
  BY <1>0, TypeNext, PostsType DEF TypeInv, TypeOK
<1>3. CASE NoEnqueue
  BY <1>0, <1>1, <1>2, <1>3 DEF NoEnqueue
<1>4. ASSUME NEW o \in Origins, Enqueue(o)
      PROVE  /\ tried[w] <= tried'[w] /\ Len(Posts') = Len(Posts) + 1
             /\ \A i \in 1 .. Len(Posts) : Posts'[i] = Posts[i]
             /\ Posts'[Len(Posts) + 1].from = w => Posts'[Len(Posts) + 1].k = tried[w] + 1
  <2>1. /\ Len(Posts') = Len(Posts) + 1
        /\ \A i \in 1 .. Len(Posts) : Posts'[i] = Posts[i]
        /\ Posts'[Len(Posts) + 1] = [from |-> o, k |-> tried[o] + 1]
        /\ tried'[w] = IF w = o THEN tried[o] + 1 ELSE tried[w]
    BY <1>0, <1>4, EnqueueFacts
  <2>2. Posts'[Len(Posts) + 1].from = o /\ Posts'[Len(Posts) + 1].k = tried[o] + 1
    BY <2>1
  <2> QED
    BY <1>2, <2>1, <2>2
<1> QED
  BY <1>1, <1>2, <1>3, <1>4, PostsStep

\* A client that gets no last frame of a message knows what it knew.
LEMMA HeardKept ==
  ASSUME TypeInv, [Next]_vars, NEW w \in Sessions, HeardOk(w),
         heard'[w] = heard[w], told'[w] = told[w], refused[w] \subseteq refused'[w]
  PROVE  HeardOk(w)'
<1>1. heard[w] \in Nat
  BY DEF TypeInv, TypeOK
<1>2. heard'[w] <= tried'[w]
  BY <1>1, SessionPosts DEF HeardOk
<1>3. HeardPosts(w)' = HeardPosts(w)
  <2>1. CASE Posts' = Posts
    BY <2>1 DEF HeardPosts
  <2>2. CASE /\ Len(Posts') = Len(Posts) + 1
             /\ \A i \in 1 .. Len(Posts) : Posts'[i] = Posts[i]
             /\ Posts'[Len(Posts) + 1].from = w => Posts'[Len(Posts) + 1].k = tried[w] + 1
    <3>1. Len(Posts) \in Nat /\ tried[w] \in Nat
      BY SessionPosts
    <3>2. ~(/\ Posts'[Len(Posts) + 1].from = w
            /\ Posts'[Len(Posts) + 1].k <= heard'[w])
      BY <1>1, <2>2, <3>1 DEF HeardOk
    <3> QED
      BY <2>2, <3>1, <3>2 DEF HeardPosts
  <2> QED
    BY <2>1, <2>2, SessionPosts
<1>4. ASSUME NEW k \in 1 .. heard'[w] PROVE Settled(w, k)'
  <2>1. Settled(w, k)
    BY <1>4 DEF HeardOk
  <2> QED
    BY <2>1, SettledStays
<1> QED
  BY <1>2, <1>3, <1>4 DEF HeardOk

\* A client that gets the last frame of a message, and got all before, knows
\* of everything enqueued.
LEMMA HeardAll ==
  ASSUME TypeInv, PostsInv, CountInv, [Next]_vars, NEW w \in Sessions,
         heard'[w] = tried'[w], told'[w] = sent'[w],
         \A k \in 1 .. tried'[w] : Settled(w, k)'
  PROVE  HeardOk(w)'
<1>1. PostsInv' /\ CountInv' /\ w \in Origins
  BY PostsNext, CountNext, PayloadFacts
<1>2. tried'[w] \in Nat
  BY SessionPosts
<1>3. HeardPosts(w)' = PostsOf(w)'
  <2>1. \A i \in 1 .. Len(Posts') : Posts'[i].from = w => Posts'[i].k <= heard'[w]
    BY <1>1 DEF PostsInv
  <2> QED
    BY <2>1 DEF HeardPosts, PostsOf
<1>4. Cardinality(PostsOf(w)') = sent'[w]
  BY <1>1 DEF CountInv
<1> QED
  BY <1>2, <1>3, <1>4 DEF HeardOk

\* A message answered with a refusal is behind the session.
LEMMA RefusedKept ==
  ASSUME TypeInv, [Next]_vars, NEW w \in Sessions, RefusedOk(w),
         refused'[w] = refused[w]
  PROVE  RefusedOk(w)'
<1> SUFFICES ASSUME NEW e \in refused[w]
             PROVE  /\ e <= tried'[w]
                    /\ \A i \in 1 .. Len(Posts') : Posts'[i] # [from |-> w, k |-> e]
  BY DEF RefusedOk
<1>1. e \in Nat
  BY DEF TypeInv, TypeOK
<1>2. e <= tried[w] /\ \A i \in 1 .. Len(Posts) : Posts[i] # [from |-> w, k |-> e]
  BY DEF RefusedOk
<1>3. e <= tried'[w]
  BY <1>1, <1>2, SessionPosts
<1>4. ASSUME NEW i \in 1 .. Len(Posts'), Posts'[i] = [from |-> w, k |-> e] PROVE FALSE
  <2>1. CASE Posts' = Posts
    BY <1>2, <1>4, <2>1
  <2>2. CASE /\ Len(Posts') = Len(Posts) + 1
             /\ \A j \in 1 .. Len(Posts) : Posts'[j] = Posts[j]
             /\ Posts'[Len(Posts) + 1].from = w => Posts'[Len(Posts) + 1].k = tried[w] + 1
    <3>1. Len(Posts) \in Nat /\ tried[w] \in Nat
      BY SessionPosts
    <3>2. i \in 1 .. Len(Posts) \/ i = Len(Posts) + 1
      BY <2>2, <3>1
    <3>3. Posts'[i].from = w /\ Posts'[i].k = e
      BY <1>4
    <3> QED
      BY <1>1, <1>2, <1>4, <2>2, <3>1, <3>2, <3>3
  <2> QED
    BY <2>1, <2>2, SessionPosts
<1> QED
  BY <1>3, <1>4

\* The answers of a session are true as far as they are got: kept by a step
\* that does not concern it ...
LEMMA SessionQuiet ==
  ASSUME TypeInv, SessionInv, [Next]_vars, NEW v \in Sessions,
         ws'[v] = ws[v], wsCount'[v] = wsCount[v], told'[v] = told[v],
         refused'[v] = refused[v], heard'[v] = heard[v], link'[v] = link[v],
         sent'[v] = sent[v], tried'[v] = tried[v]
  PROVE  HeardOk(v)' /\ RefusedOk(v)' /\ LinkOk(v)'
<1>1. HeardOk(v) /\ RefusedOk(v) /\ LinkOk(v)
  BY DEF SessionInv
<1>2. HeardOk(v)' /\ RefusedOk(v)'
  BY <1>1, HeardKept, RefusedKept
<1>3. ASSUME link'[v] PROVE \A k \in 1 .. tried'[v] : Settled(v, k)'
  <2> SUFFICES ASSUME NEW k \in 1 .. tried'[v] PROVE Settled(v, k)'
    OBVIOUS
  <2>1. Settled(v, k)
    BY <1>1, <1>3 DEF LinkOk
  <2> QED
    BY <2>1, SettledStays
<1>4. LinkOk(v)'
  BY <1>1, <1>3 DEF LinkOk, Untold
<1> QED
  BY <1>2, <1>4

\* ... by the begin and the end of the session, and of a message ...
LEMMA SessionMoves ==
  ASSUME TypeInv, SessionInv, [Next]_vars, NEW v \in Sessions,
         WsUpgrade(v) \/ WsTake(v) \/ WsClose(v)
  PROVE  HeardOk(v)' /\ RefusedOk(v)' /\ LinkOk(v)'
<1>1. HeardOk(v) /\ RefusedOk(v) /\ LinkOk(v)
  BY DEF SessionInv
<1>2. /\ told' = told /\ refused' = refused /\ heard' = heard /\ link' = link
      /\ sent' = sent /\ tried' = tried
  BY DEF WsUpgrade, WsTake, WsClose, answers
<1>3. HeardOk(v)' /\ RefusedOk(v)'
  BY <1>1, <1>2, HeardKept, RefusedKept
<1>4. ASSUME link'[v] PROVE \A k \in 1 .. tried'[v] : Settled(v, k)'
  <2> SUFFICES ASSUME NEW k \in 1 .. tried'[v] PROVE Settled(v, k)'
    OBVIOUS
  <2>1. Settled(v, k) /\ refused[v] \subseteq refused'[v]
    BY <1>1, <1>2, <1>4 DEF LinkOk
  <2> QED
    BY <2>1, SettledStays
<1>5. ws \in [Sessions -> WsStates] /\ wsCount \in [Sessions -> Nat]
  BY DEF TypeInv, TypeOK
<1>6. /\ ws[v] \notin {"sending", "answer"}
      /\ ws'[v] = "sending" => wsCount'[v] = 0
      /\ ws'[v] # "answer"
  <2>1. CASE WsUpgrade(v)
    BY <1>5, <2>1 DEF WsUpgrade
  <2>2. CASE WsTake(v)
    BY <1>5, <2>2 DEF WsTake
  <2>3. CASE WsClose(v)
    BY <1>5, <2>3 DEF WsClose
  <2> QED
    BY <2>1, <2>2, <2>3
<1>7. Untold(v)' = Untold(v)
  BY <1>6 DEF Untold
<1>8. LinkOk(v)'
  BY <1>1, <1>2, <1>4, <1>6, <1>7 DEF LinkOk
<1> QED
  BY <1>3, <1>8

\* ... by a refusal or a shed_reason frame ...
LEMMA SessionRefuses ==
  ASSUME TypeInv, PostsInv, CountInv, SessionInv, [Next]_vars, NEW v \in Sessions,
         WsRefuse(v) \/ WsBusFull(v)
  PROVE  HeardOk(v)' /\ RefusedOk(v)' /\ LinkOk(v)'
<1>1. HeardOk(v) /\ RefusedOk(v) /\ LinkOk(v)
  BY DEF SessionInv
<1>t. /\ ws \in [Sessions -> WsStates] /\ wsCount \in [Sessions -> Nat]
      /\ link \in [Sessions -> BOOLEAN] /\ told \in [Sessions -> Nat]
      /\ refused \in [Sessions -> SUBSET Nat] /\ heard \in [Sessions -> Nat]
      /\ v \in Origins /\ tried \in [Origins -> Nat] /\ tried[v] \in Nat
      /\ sent[v] \in Nat
  BY PayloadFacts DEF TypeInv, TypeOK
<1>2. tried[v] < Len(Payload[v])
  <2>1. CASE WsRefuse(v)
    BY <2>1 DEF WsRefuse
  <2>2. CASE WsBusFull(v)
    BY <2>2 DEF WsBusFull, TypeInv, SendBound
  <2> QED
    BY <2>1, <2>2
<1> DEFINE e == MsgEnd(v, tried[v])
<1>3. e \in Nat /\ e > tried[v]
  BY <1>t, <1>2, MsgEndFacts
<1>4. /\ tried' = [tried EXCEPT ![v] = e] /\ sent' = sent /\ told' = told
      /\ bus' = bus /\ log' = log /\ wsCount' = wsCount
  BY DEF WsRefuse, WsBusFull, normVars
<1> HIDE DEF e
<1>5. tried'[v] = e /\ Posts' = Posts
  BY <1>t, <1>4 DEF Posts
<1>6. PICK got \in BOOLEAN, ends \in BOOLEAN :
        /\ Answered(v, got, ends)
        /\ ends => Untold(v) = 0 /\ ws'[v] = "open"
        /\ ~ends => ws[v] = "sending" /\ ws'[v] = "answer"
  <2>1. CASE WsRefuse(v)
    <3>1. PICK got \in BOOLEAN : Answered(v, got, TRUE)
      BY <2>1, MessageAnswered
    <3>2. ws[v] = "open" /\ ws'[v] = "open" /\ Untold(v) = 0
      BY <2>1 DEF WsRefuse, Untold
    <3> QED
      BY <3>1, <3>2
  <2>2. CASE WsBusFull(v)
    <3>1. PICK got \in BOOLEAN : Answered(v, got, wsCount[v] = 0)
      BY <2>2, MessageAnswered
    <3>2. ws[v] = "sending" /\ ws'[v] = IF wsCount[v] > 0 THEN "answer" ELSE "open"
      BY <1>t, <2>2 DEF WsBusFull
    <3>3. CASE wsCount[v] = 0
      <4>1. Answered(v, got, TRUE)
        BY <3>1, <3>3 DEF Answered
      <4>2. Untold(v) = 0 /\ ws'[v] = "open"
        BY <3>2, <3>3 DEF Untold
      <4> QED
        BY <4>1, <4>2
    <3>4. CASE wsCount[v] # 0
      <4>1. Answered(v, got, FALSE)
        BY <3>1, <3>4 DEF Answered
      <4>2. ws'[v] = "answer"
        BY <1>t, <3>2, <3>4
      <4> QED
        BY <3>2, <4>1, <4>2
    <3> QED
      BY <3>3, <3>4
  <2> QED
    BY <2>1, <2>2
<1>7. /\ got => link[v]
      /\ link'[v] = got
      /\ refused'[v] = IF got THEN refused[v] \cup {e} ELSE refused[v]
      /\ heard'[v] = IF got /\ ends THEN e ELSE heard[v]
      /\ told'[v] = told[v] /\ sent'[v] = sent[v]
  BY <1>t, <1>4, <1>6 DEF Answered, e
<1>8. CASE ~got
  <2>1. HeardOk(v)' /\ RefusedOk(v)'
    BY <1>1, <1>7, <1>8, HeardKept, RefusedKept
  <2> QED
    BY <1>7, <1>8, <2>1 DEF LinkOk
<1>9. CASE got
  <2>1. \A k \in 1 .. tried'[v] : Settled(v, k)'
    <3>1. \A k \in 1 .. tried[v] : Settled(v, k)
      BY <1>1, <1>7, <1>9 DEF LinkOk
    <3>2. tried'[v] = MsgEnd(v, tried[v]) /\ refused'[v] = refused[v] \cup {MsgEnd(v, tried[v])}
      BY <1>5, <1>7, <1>9 DEF e
    <3> QED
      BY <1>t, <1>2, <3>1, <3>2, RefusedSettles
  <2>2. RefusedOk(v)'
    <3>1. ASSUME NEW f \in refused'[v] PROVE f <= tried'[v]
      <4>1. f = e \/ (f \in refused[v] /\ f <= tried[v] /\ f \in Nat)
        BY <1>1, <1>t, <1>7, <1>9 DEF RefusedOk
      <4> QED
        BY <1>t, <1>3, <1>5, <4>1
    <3>2. ASSUME NEW f \in refused'[v], NEW i \in 1 .. Len(Posts), Posts[i] = [from |-> v, k |-> f]
          PROVE  FALSE
      <4>1. Posts[i].from = v /\ Posts[i].k = f
        BY <3>2
      <4>2. f <= tried[v]
        BY <4>1 DEF PostsInv
      <4>3. f # e
        BY <1>t, <1>3, <4>2
      <4> QED
        BY <1>1, <1>7, <1>9, <3>2, <4>3 DEF RefusedOk
    <3> QED
      BY <1>5, <3>1, <3>2 DEF RefusedOk
  <2>3. sent[v] = told[v] + Untold(v)
    BY <1>1, <1>7, <1>9 DEF LinkOk
  <2>4. CASE ends
    <3>1. told'[v] = sent'[v] /\ heard'[v] = tried'[v] /\ Untold(v)' = 0
      BY <1>t, <1>5, <1>6, <1>7, <1>9, <2>3, <2>4 DEF Untold
    <3>2. HeardOk(v)'
      BY <2>1, <3>1, HeardAll
    <3>3. LinkOk(v)'
      BY <1>t, <1>7, <2>1, <3>1 DEF LinkOk
    <3> QED
      BY <2>2, <3>2, <3>3
  <2>5. CASE ~ends
    <3>1. HeardOk(v)'
      BY <1>1, <1>7, <2>5, HeardKept
    <3>2. Untold(v)' = Untold(v) /\ ws'[v] = "answer"
      BY <1>4, <1>6, <2>5 DEF Untold
    <3>3. LinkOk(v)'
      BY <1>7, <2>1, <2>3, <3>2 DEF LinkOk
    <3> QED
      BY <2>2, <3>1, <3>3
  <2> QED
    BY <2>4, <2>5
<1> QED
  BY <1>8, <1>9

\* ... by an event put on the bus ...
LEMMA SessionEnqueues ==
  ASSUME TypeInv, SessionInv, [Next]_vars, NEW v \in Sessions, WsSend(v)
  PROVE  HeardOk(v)' /\ RefusedOk(v)' /\ LinkOk(v)'
<1>1. HeardOk(v) /\ RefusedOk(v) /\ LinkOk(v)
  BY DEF SessionInv
<1>0. TypeOK
  BY DEF TypeInv
<1>t. /\ ws \in [Sessions -> WsStates] /\ wsCount \in [Sessions -> Nat]
      /\ told[v] \in Nat /\ sent \in [Origins -> Nat] /\ tried \in [Origins -> Nat]
      /\ v \in Origins /\ sent[v] \in Nat /\ tried[v] \in Nat
  BY <1>0, PayloadFacts DEF TypeOK
<1>2. /\ sent'[v] = sent[v] + 1 /\ tried'[v] = tried[v] + 1 /\ wsCount'[v] = wsCount[v] + 1
      /\ ws[v] = "sending" /\ ws'[v] \in {"answer", "sending"}
      /\ told' = told /\ refused' = refused /\ heard' = heard /\ link' = link
  BY <1>t DEF WsSend, answers
<1>3. HeardOk(v)' /\ RefusedOk(v)'
  BY <1>1, <1>2, HeardKept, RefusedKept
<1>4. Enqueue(v)
  <2>1. [from |-> v, k |-> tried[v] + 1] \in Post
    <3>1. tried[v] < Len(Payload[v])
      BY <1>2 DEF TypeInv, SendBound
    <3> QED
      BY <1>t, <3>1, PayloadFacts DEF Post
  <2>2. bus' = Append(bus, [from |-> v, k |-> tried[v] + 1]) /\ log' = log
    BY DEF WsSend, normVars
  <2>3. Posts' = Append(Posts, [from |-> v, k |-> tried[v] + 1])
    BY <1>0, <2>1, <2>2, BusAppend
  <2> QED
    BY <2>3 DEF WsSend, Enqueue
<1>5. /\ Len(Posts) \in Nat /\ Len(Posts') = Len(Posts) + 1
      /\ Posts'[Len(Posts) + 1] = [from |-> v, k |-> tried[v] + 1]
  BY <1>0, <1>t, <1>4, EnqueueFacts
<1>6. ASSUME link'[v], NEW k \in 1 .. tried'[v] PROVE Settled(v, k)'
  <2>1. CASE k \in 1 .. tried[v]
    <3>1. Settled(v, k) /\ refused[v] \subseteq refused'[v]
      BY <1>1, <1>2, <1>6, <2>1 DEF LinkOk
    <3> QED
      BY <3>1, SettledStays
  <2>2. CASE k = tried[v] + 1
    <3>1. Len(Posts) + 1 \in 1 .. Len(Posts')
      BY <1>5
    <3>2. \E i \in 1 .. Len(Posts') : Posts'[i] = [from |-> v, k |-> k]
      BY <1>5, <2>2, <3>1
    <3> QED
      BY <3>2 DEF Settled
  <2> QED
    BY <1>t, <1>2, <2>1, <2>2
<1>7. link'[v] => sent'[v] = told'[v] + Untold(v)'
  BY <1>1, <1>t, <1>2 DEF LinkOk, Untold
<1> QED
  BY <1>2, <1>3, <1>6, <1>7 DEF LinkOk

\* ... and by the accepted frame.
LEMMA SessionAnswers ==
  ASSUME TypeInv, PostsInv, CountInv, SessionInv, [Next]_vars, NEW v \in Sessions,
         WsAnswer(v)
  PROVE  HeardOk(v)' /\ RefusedOk(v)' /\ LinkOk(v)'
<1>1. HeardOk(v) /\ RefusedOk(v) /\ LinkOk(v)
  BY DEF SessionInv
<1>t. /\ ws \in [Sessions -> WsStates] /\ wsCount \in [Sessions -> Nat]
      /\ link \in [Sessions -> BOOLEAN] /\ told \in [Sessions -> Nat]
      /\ heard \in [Sessions -> Nat] /\ tried[v] \in Nat /\ sent[v] \in Nat
  BY PayloadFacts DEF TypeInv, TypeOK
<1>2. /\ ws[v] = "answer" /\ ws'[v] = "open"
      /\ refused' = refused /\ sent' = sent /\ tried' = tried
  BY <1>t DEF WsAnswer
<1>3. PICK got \in BOOLEAN :
        /\ Frame(v, got)
        /\ told' = [told EXCEPT ![v] = IF got THEN @ + wsCount[v] ELSE @]
        /\ heard' = [heard EXCEPT ![v] = IF got THEN tried[v] ELSE @]
  BY DEF WsAnswer
<1>4. /\ got => link[v]
      /\ link'[v] = got
      /\ told'[v] = IF got THEN told[v] + wsCount[v] ELSE told[v]
      /\ heard'[v] = IF got THEN tried'[v] ELSE heard[v]
  BY <1>t, <1>2, <1>3 DEF Frame
<1>5. RefusedOk(v)'
  BY <1>1, <1>2, RefusedKept
<1>6. CASE ~got
  <2>1. HeardOk(v)'
    BY <1>1, <1>2, <1>4, <1>6, HeardKept
  <2> QED
    BY <1>4, <1>5, <1>6, <2>1 DEF LinkOk
<1>7. CASE got
  <2>1. told'[v] = sent'[v] /\ Untold(v)' = 0 /\ told'[v] \in Nat
    <3>1. sent[v] = told[v] + wsCount[v]
      BY <1>1, <1>2, <1>4, <1>7 DEF LinkOk, Untold
    <3> QED
      BY <1>t, <1>2, <1>4, <1>7, <3>1 DEF Untold
  <2>2. ASSUME NEW k \in 1 .. tried'[v] PROVE Settled(v, k)'
    <3>1. Settled(v, k) /\ refused[v] \subseteq refused'[v]
      BY <1>1, <1>2, <1>4, <1>7 DEF LinkOk
    <3> QED
      BY <3>1, SettledStays
  <2>3. HeardOk(v)'
    BY <1>4, <1>7, <2>1, <2>2, HeardAll
  <2>4. LinkOk(v)'
    BY <1>4, <1>7, <2>1, <2>2 DEF LinkOk
  <2> QED
    BY <1>5, <2>3, <2>4
<1> QED
  BY <1>6, <1>7

\* Every step keeps the invariant of the sessions.
LEMMA SessionNext ==
  ASSUME TypeInv, PostsInv, CountInv, SessionInv, [Next]_vars PROVE SessionInv'
<1>t. /\ ws \in [Sessions -> WsStates] /\ wsCount \in [Sessions -> Nat]
      /\ link \in [Sessions -> BOOLEAN] /\ told \in [Sessions -> Nat]
      /\ refused \in [Sessions -> SUBSET Nat] /\ heard \in [Sessions -> Nat]
      /\ sent \in [Origins -> Nat] /\ tried \in [Origins -> Nat]
      /\ \A w \in Sessions : w \in Origins
  BY PayloadFacts DEF TypeInv, TypeOK
<1> DEFINE Good(v) == HeardOk(v)' /\ RefusedOk(v)' /\ LinkOk(v)'
           Quiet(v) == /\ ws'[v] = ws[v] /\ wsCount'[v] = wsCount[v] /\ told'[v] = told[v]
                       /\ refused'[v] = refused[v] /\ heard'[v] = heard[v]
                       /\ link'[v] = link[v] /\ sent'[v] = sent[v] /\ tried'[v] = tried[v]
<1> SUFFICES ASSUME NEW v \in Sessions PROVE Good(v)
  BY DEF SessionInv
<1>1. Quiet(v) => Good(v)
  BY SessionQuiet
<1>2. ASSUME NEW w \in Sessions, Socket(w), w # v PROVE Quiet(v)
  <2>1. CASE WsRefuse(w) \/ WsBusFull(w)
    <3>1. PICK got \in BOOLEAN, ends \in BOOLEAN : Answered(w, got, ends)
      BY <2>1, MessageAnswered
    <3>2. /\ sent' = sent /\ told' = told /\ wsCount' = wsCount
          /\ tried'[v] = tried[v] /\ ws'[v] = ws[v]
      BY <1>2, <1>t, <2>1 DEF WsRefuse, WsBusFull
    <3> QED
      BY <1>2, <1>t, <3>1, <3>2 DEF Answered
  <2>2. CASE WsAnswer(w)
    BY <1>2, <1>t, <2>2 DEF WsAnswer, Frame
  <2>3. CASE WsUpgrade(w) \/ WsTake(w) \/ WsSend(w) \/ WsClose(w)
    BY <1>2, <1>t, <2>3 DEF WsUpgrade, WsTake, WsSend, WsClose, answers
  <2> QED
    BY <1>2, <2>1, <2>2, <2>3 DEF Socket
<1>3. ASSUME Socket(v) PROVE Good(v)
  BY <1>3, SessionMoves, SessionRefuses, SessionEnqueues, SessionAnswers DEF Socket
<1>4. ASSUME NEW w \in Sessions, Socket(w) PROVE Good(v)
  <2> HIDE DEF Good, Quiet
  <2> QED
    BY <1>1, <1>2, <1>3, <1>4
<1>5. ASSUME NEW r \in Requests, Handler(r) PROVE Quiet(v)
  BY <1>5, <1>t, PayloadFacts
  DEF Handler, HttpReject, HttpAdmit, HttpSend, HttpBusFull, wsVars, answers
<1>6. ASSUME NEW b \in Brokers, Subscriber(b) PROVE Quiet(v)
  BY <1>6, <1>t, PayloadFacts DEF Subscriber, MqttPublish, MqttUnrouted, wsVars, answers
<1>7. ASSUME UNCHANGED inVars PROVE Quiet(v)
  BY <1>7 DEF inVars, wsVars, answers
<1> HIDE DEF Good, Quiet
<1> QED
  BY <1>1, <1>4, <1>5, <1>6, <1>7
  DEF Next, Normalizer, Consumer, Flush, Server,
      Receive, Offer, Count, NormalizerExit,
      TaskRecv, TaskTick, TaskClose, FlushOk, FlushErr, FlushShort, FlushDone,
      Shutdown, ServeReturns, ProcessExit, vars

\* What a WebSocket client may conclude from the frames it got (run_session
\* ignores whether a frame was sent): up to the last message it has all the
\* frames of, the accepted counts add up to the events enqueued for it and a
\* message of which any event is missing was answered with an error or a
\* shed_reason frame; a message so answered was not enqueued to its end; with
\* no frame lost that covers all the session looked at.  For any sessions,
\* messages and bus depth.
THEOREM SessionsAreAnswered == Spec => []WsAnswered
<1> DEFINE Inv == TypeInv /\ PostsInv /\ CountInv /\ SessionInv
<1>1. Init => Inv
  <2> SUFFICES ASSUME Init PROVE Inv
    OBVIOUS
  <2>1. Len(Posts) = 0 /\ \A r \in Requests : tried[r] = 0 /\ sent[r] = 0
    BY NoPosts, PayloadFacts DEF Init
  <2>2. PostsInv
    BY <2>1 DEF PostsInv
  <2>3. ASSUME NEW w \in Sessions PROVE HeardOk(w) /\ RefusedOk(w) /\ LinkOk(w)
    <3>1. /\ heard[w] = 0 /\ told[w] = 0 /\ refused[w] = {} /\ ws[w] = "new"
          /\ tried[w] = 0 /\ sent[w] = 0
      BY PayloadFacts DEF Init
    <3>2. HeardPosts(w) = {}
      BY <2>1 DEF HeardPosts
    <3>3. Cardinality(HeardPosts(w)) = 0
      BY <3>2, FS_EmptySet
    <3> QED
      BY <3>1, <3>3 DEF HeardOk, RefusedOk, LinkOk, Untold
  <2> QED
    BY <2>2, <2>3, TypeInit, ShutdownInit DEF SessionInv
<1>2. Inv /\ [Next]_vars => Inv'
  BY TypeNext, PostsNext, CountNext, SessionNext
<1>3. Inv => WsAnswered
  <2> SUFFICES ASSUME Inv, NEW w \in Sessions
               PROVE  /\ told[w] = Cardinality({i \in 1 .. Len(Posts) :
                                       Posts[i].from = w /\ Posts[i].k <= heard[w]})
                      /\ \A k \in 1 .. heard[w] : Settled(w, k)
                      /\ \A e \in refused[w], i \in 1 .. Len(Posts) :
                           Posts[i] # [from |-> w, k |-> e]
                      /\ link[w] /\ ws[w] \in {"open", "closed"} => heard[w] = tried[w]
    BY Zenon DEF WsAnswered, Settled
  <2>1. HeardOk(w) /\ RefusedOk(w) /\ LinkOk(w)
    BY DEF SessionInv
  <2> QED
    BY <2>1 DEF HeardOk, HeardPosts, RefusedOk, LinkOk
<1> HIDE DEF Inv
<1> QED
  BY <1>1, <1>2, <1>3, PTL DEF Spec

-----------------------------------------------------------------------------
(* Stamps                                                                  *)

\* The normalizer stamps event e and pushes it on its ring.
Stamped(e, t, now) ==
  /\ clock <= t /\ t <= now /\ clock' = now
  /\ e.pair \in Pairs /\ SourceOf[e.pair] \in Sources
  /\ e.seq = seqOf[SourceOf[e.pair]] + 1
  /\ seqOf' = [seqOf EXCEPT ![SourceOf[e.pair]] = e.seq]
  /\ ring' = [ring EXCEPT ![e.pair] = Push(@, [n |-> Len(log) + 1, ingest |-> t], now)]
  /\ Len(log') = Len(log) + 1 /\ log'[Len(log) + 1] = e
  /\ \A n \in 1 .. Len(log) : log'[n] = log[n]

\* Only Receive touches log, counters and rings.
LEMMA StampStep ==
  ASSUME TypeInv, [Next]_vars
  PROVE  \/ UNCHANGED <<log, seqOf, ring, clock>>
         \/ \E e \in Event, t, now \in Nat : Stamped(e, t, now)
<1>0. TypeOK
  BY DEF TypeInv
<1>1. ASSUME Receive PROVE \E e \in Event, t, now \in Nat : Stamped(e, t, now)
  <2> DEFINE Stamp(t, now) ==
        LET e == Normalized(Head(bus), t)
            n == Len(log) + 1
        IN  /\ log' = Append(log, e)
            /\ seqOf' = [seqOf EXCEPT ![SourceOf[e.pair]] = e.seq]
            /\ ring' = [ring EXCEPT ![e.pair] =
                          Push(@, [n |-> n, ingest |-> t], now)]
            /\ clock' = now
  <2>a. PICK t \in clock .. MaxClock : \E now \in t .. MaxClock : Stamp(t, now)
    BY <1>1 DEF Receive
  <2>1. PICK now \in t .. MaxClock : Stamp(t, now)
    BY <2>a
  <2> DEFINE e == Normalized(Head(bus), t)
  <2>2. t \in Nat /\ now \in Nat /\ clock <= t /\ t <= now
    BY <1>0, <2>a, <2>1, PipelineAssumption DEF TypeOK
  <2>3. Head(bus) \in Post
    BY <1>0, <1>1 DEF Receive, TypeOK
  <2>7. /\ e \in Event /\ e.pair \in Pairs /\ SourceOf[e.pair] \in Sources
        /\ e.seq = seqOf[SourceOf[e.pair]] + 1
    BY <1>0, <2>2, <2>3, NormalizedType
  <2>8. /\ log' = Append(log, e) /\ seqOf' = [seqOf EXCEPT ![SourceOf[e.pair]] = e.seq]
        /\ ring' = [ring EXCEPT ![e.pair] = Push(@, [n |-> Len(log) + 1, ingest |-> t], now)]
        /\ clock' = now
    BY <2>1
  <2> HIDE DEF e
  <2>9. /\ Len(log') = Len(log) + 1 /\ log'[Len(log) + 1] = e
        /\ \A n \in 1 .. Len(log) : log'[n] = log[n]
    <3>1. log \in Seq(Event)
      BY <1>0 DEF TypeOK
    <3> QED
      BY <2>7, <2>8, <3>1
  <2> QED
    BY <2>2, <2>7, <2>8, <2>9 DEF Stamped
<1> DEFINE Untouched == UNCHANGED <<log, seqOf, ring, clock>>
<1>2. ASSUME NEW r \in Requests, Handler(r) PROVE Untouched
  BY <1>2 DEF Handler, HttpReject, HttpAdmit, HttpSend, HttpBusFull, normVars
<1>3. ASSUME NEW w \in Sessions, Socket(w) PROVE Untouched
  BY <1>3 DEF Socket, WsUpgrade, WsRefuse, WsTake, WsSend, WsBusFull, WsAnswer,
              WsClose, normVars
<1>4. ASSUME NEW b \in Brokers, Subscriber(b) PROVE Untouched
  BY <1>4 DEF Subscriber, MqttPublish, MqttUnrouted, normVars
<1>5. ASSUME Normalizer PROVE Untouched \/ Receive
  BY <1>5 DEF Normalizer, Offer, Count, NormalizerExit, normVars
<1>6. ASSUME NEW c \in Consumers, Consumer(c) PROVE Untouched
  BY <1>6 DEF Consumer, TaskRecv, TaskTick, TaskClose, Flush, FlushOk, FlushErr,
              FlushShort, FlushDone, normVars
<1>7. ASSUME Server PROVE Untouched
  BY <1>7 DEF Server, Shutdown, ServeReturns, ProcessExit, normVars
<1>8. ASSUME UNCHANGED vars PROVE Untouched
  BY <1>8 DEF vars, normVars
<1> HIDE DEF Untouched
<1>9. Untouched \/ Receive
  BY <1>2, <1>3, <1>4, <1>5, <1>6, <1>7, <1>8, Zenon DEF Next
<1> QED
  BY <1>1, <1>9 DEF Untouched

-----------------------------------------------------------------------------
(* Sequence numbers                                                        *)

\* The counters count: kept by every step.
LEMMA SeqNext ==
  ASSUME TypeInv, SeqInv, [Next]_vars PROVE SeqInv'
<1>0. TypeOK /\ Len(log) \in Nat
  BY DEF TypeInv, TypeOK
<1>1. CASE UNCHANGED <<log, seqOf, ring, clock>>
  BY <1>1 DEF SeqInv, ArrivalsOf
<1>2. ASSUME NEW e \in Event, NEW t \in Nat, NEW now \in Nat, Stamped(e, t, now)
      PROVE  SeqInv'
  <2> DEFINE N == Len(log)
             src == SourceOf[e.pair]
             Later(s, n) == {m \in 1 .. n : SourceOf[log'[m].pair] = s}
  <2>1. /\ e.pair \in Pairs /\ src \in Sources /\ e.seq = seqOf[src] + 1
        /\ seqOf' = [seqOf EXCEPT ![src] = e.seq]
        /\ Len(log') = N + 1 /\ log'[N + 1] = e /\ \A n \in 1 .. N : log'[n] = log[n]
    BY <1>2 DEF Stamped
  <2>2. \A s \in Sources : seqOf'[s] = IF s = src THEN seqOf[src] + 1 ELSE seqOf[s]
    BY <1>0, <2>1 DEF TypeOK
  <2>a. \A m \in 1 .. N : SourceOf[log'[m].pair] = SourceOf[log[m].pair]
    BY <2>1
  <2>3. ASSUME NEW s, NEW n \in 1 .. N PROVE Later(s, n) = ArrivalsOf(s, n)
    <3>1. \A m \in 1 .. n : m \in 1 .. N
      BY <1>0
    <3> QED
      BY <2>a, <3>1, Zenon DEF ArrivalsOf
  <2>4. ASSUME NEW s
        PROVE  Later(s, N + 1) = IF s = src THEN ArrivalsOf(s, N) \cup {N + 1}
                                 ELSE ArrivalsOf(s, N)
    <3>1. SourceOf[log'[N + 1].pair] = src
      BY <2>1
    <3>2. \A m : m \in 1 .. N + 1 <=> m \in 1 .. N \/ m = N + 1
      BY <1>0
    <3> QED
      BY <2>a, <3>1, <3>2 DEF ArrivalsOf
  <2>5. ASSUME NEW s
        PROVE  Cardinality(ArrivalsOf(s, N) \cup {N + 1}) = Cardinality(ArrivalsOf(s, N)) + 1
    <3>1. ArrivalsOf(s, N) \in SUBSET (1 .. N)
      BY DEF ArrivalsOf
    <3> QED
      BY <1>0, <3>1, CountOneMore, Zenon
  <2>b. \A n \in 1 .. N : log[n].seq = Cardinality(ArrivalsOf(SourceOf[log[n].pair], n))
    BY DEF SeqInv
  <2>c. \A s \in Sources : seqOf[s] = Cardinality(ArrivalsOf(s, N))
    BY DEF SeqInv
  <2>d. N \in Nat
    BY <1>0
  <2> HIDE DEF N, src, Later
  <2>6. \A s \in Sources : seqOf'[s] = Cardinality(Later(s, N + 1))
    BY <2>2, <2>4, <2>5, <2>c
  <2>7. ASSUME NEW n \in 1 .. N + 1
        PROVE  log'[n].seq = Cardinality(Later(SourceOf[log'[n].pair], n))
    <3>1. CASE n \in 1 .. N
      <4>1. log'[n] = log[n]
        BY <2>1, <3>1
      <4>2. Later(SourceOf[log[n].pair], n) = ArrivalsOf(SourceOf[log[n].pair], n)
        BY <2>3, <3>1
      <4> QED
        BY <2>b, <3>1, <4>1, <4>2
    <3>2. CASE n = N + 1
      <4>1. log'[n].seq = seqOf'[src] /\ SourceOf[log'[n].pair] = src
        BY <2>1, <2>2, <3>2 DEF src
      <4> QED
        BY <2>1, <2>6, <3>2, <4>1
    <3> QED
      BY <2>d, <3>1, <3>2
  <2>8. \A s \in Sources : seqOf'[s] = Cardinality(Later(s, Len(log')))
    BY <2>1, <2>6
  <2>9. \A n \in 1 .. Len(log') : log'[n].seq = Cardinality(Later(SourceOf[log'[n].pair], n))
    BY <2>1, <2>7
  <2> QED
    BY <2>8, <2>9, Zenon DEF SeqInv, ArrivalsOf, Later
<1> QED
  BY <1>1, <1>2, StampStep

\* Of two arrivals of a source the later has the greater number.
LEMMA SeqGrows ==
  ASSUME TypeOK, SeqInv, NEW a \in 1 .. Len(log), NEW b \in 1 .. Len(log), a < b,
         SourceOf[log[a].pair] = SourceOf[log[b].pair]
  PROVE  log[a].seq < log[b].seq
<1> DEFINE s == SourceOf[log[a].pair]
           A == ArrivalsOf(s, a)
           B == ArrivalsOf(s, b)
<1>1. a \in Nat /\ b \in Nat /\ Len(log) \in Nat
  BY DEF TypeOK
<1>2. A \in SUBSET (1 .. a) /\ B \in SUBSET (1 .. b) /\ A \in SUBSET B /\ b \in B /\ b \notin A
  BY <1>1 DEF ArrivalsOf
<1> HIDE DEF A, B
<1>3. /\ IsFiniteSet(A) /\ IsFiniteSet(B) /\ Cardinality(A) \in Nat /\ Cardinality(B) \in Nat
  BY <1>1, <1>2, CountOneMore, Zenon
<1>4. Cardinality(A) <= Cardinality(B) /\ Cardinality(B) # Cardinality(A)
  BY <1>2, <1>3, FS_Subset, Zenon
<1>5. log[a].seq = Cardinality(A) /\ log[b].seq = Cardinality(B)
  BY DEF SeqInv, A, B
<1> QED
  BY <1>3, <1>4, <1>5

\* The seq numbers of a source count its arrivals without a gap and reach
\* every consumer in strictly increasing order (Normalizer::normalize), so a
\* gap in the cold store is exactly a lost event.
THEOREM SeqNumbersInOrder == Spec => []SeqOrder
<1> DEFINE Inv == FifoInv /\ InOrder /\ SeqInv
<1>1. Init => Inv
  <2> SUFFICES ASSUME Init PROVE Inv
    OBVIOUS
  <2>1. SeqInv
    <3>1. Len(log) = 0
      BY DEF Init
    <3>2. \A s : ArrivalsOf(s, 0) = {}
      BY DEF ArrivalsOf
    <3>3. \A s : Cardinality(ArrivalsOf(s, Len(log))) = 0
      BY <3>1, <3>2, FS_EmptySet, Zenon
    <3>4. \A s \in Sources : seqOf[s] = 0
      BY DEF Init
    <3> QED
      BY <3>1, <3>3, <3>4 DEF SeqInv
  <2>2. InOrder
    BY PayloadFacts DEF Init, InOrder, Held, Increasing
  <2> QED
    BY <2>1, <2>2, FifoInit
<1>2. Inv /\ [Next]_vars => Inv'
  BY FifoNext, InOrderNext, SeqNext DEF FifoInv
<1>3. Inv => SeqOrder
  <2> SUFFICES ASSUME Inv PROVE SeqOrder
    OBVIOUS
  <2>0. TypeOK /\ Len(log) \in Nat
    BY DEF FifoInv, TypeInv, TypeOK
  <2>1. ASSUME NEW c \in Consumers, NEW i \in 1 .. Len(Held(c)), NEW j \in 1 .. Len(Held(c)),
               i < j, SourceOf[log[Held(c)[i]].pair] = SourceOf[log[Held(c)[j]].pair]
        PROVE  log[Held(c)[i]].seq < log[Held(c)[j]].seq
    <3>1. Held(c)[i] < Held(c)[j] /\ Held(c)[i] \in 1 .. Offered(c) /\ Held(c)[j] \in 1 .. Offered(c)
      BY <2>1 DEF InOrder, Increasing
    <3>2. Held(c)[i] \in 1 .. Len(log) /\ Held(c)[j] \in 1 .. Len(log)
      BY <2>0, <3>1 DEF Offered
    <3> QED
      BY <2>0, <2>1, <3>1, <3>2, SeqGrows
  <2>2. \A n \in 1 .. Len(log) :
          log[n].seq = Cardinality({m \in 1 .. n : SourceOf[log[m].pair] = SourceOf[log[n].pair]})
    BY DEF SeqInv, ArrivalsOf
  <2> QED
    BY <2>1, <2>2 DEF SeqOrder
<1> HIDE DEF Inv
<1> QED
  BY <1>1, <1>2, <1>3, PTL DEF Spec

-----------------------------------------------------------------------------
(* Hot rings                                                               *)

\* What the last elements of a sequence are.
LEMMA LastElements ==
  ASSUME NEW s \in Seq(RingEntry), NEW f \in 1 .. Len(s) + 1
  PROVE  /\ Len(s) \in Nat /\ SubSeq(s, f, Len(s)) \in Seq(RingEntry)
         /\ Len(SubSeq(s, f, Len(s))) = Len(s) - f + 1
         /\ \A i \in 1 .. Len(s) - f + 1 : SubSeq(s, f, Len(s))[i] = s[f - 1 + i]
<1>1. Len(s) \in Nat /\ \A i \in f .. Len(s) : s[i] \in RingEntry
  BY ElementOfSeq
<1> QED
  BY <1>1, SubSeqProperties

\* A clock-ordered sequence of ring entries.
ByClock(s) == \A i, j \in 1 .. Len(s) : i <= j => s[i].ingest <= s[j].ingest

\* HotRings::push keeps the newest of the ring and the event, at most
\* MaxEvents of them, none older than the cutoff, although CapByAge stops at
\* the first entry that is young enough: the entries are in clock order.
LEMMA PushKeeps ==
  ASSUME NEW s \in Seq(RingEntry), NEW e \in RingEntry, NEW now \in Nat,
         ByClock(Append(s, e))
  PROVE  \E a \in 0 .. Len(s) + 1 :
           /\ Len(Push(s, e, now)) = Len(s) + 1 - a /\ Len(Push(s, e, now)) <= MaxEvents
           /\ \A i \in 1 .. Len(s) + 1 - a :
                /\ Push(s, e, now)[i] = Append(s, e)[a + i]
                /\ Push(s, e, now)[i].ingest >= now - MaxAge
<1> DEFINE A == Append(s, e)
           q == CapByCount(A)
           c == IF Len(A) > MaxEvents THEN Len(A) - MaxEvents ELSE 0
           f == FirstFresh(q, now - MaxAge)
           r == CapByAge(q, now - MaxAge)
<1>0. MaxEvents \in Nat \ {0} /\ MaxAge \in Nat
  BY HotRingAssumption
<1>1. A \in Seq(RingEntry) /\ Len(A) = Len(s) + 1 /\ Len(s) \in Nat
  OBVIOUS
<1>2. ByClock(A) /\ r = Push(s, e, now)
  BY DEF Push
<1> HIDE DEF A
<1>3. /\ c \in 0 .. Len(A) /\ q \in Seq(RingEntry) /\ Len(q) = Len(A) - c /\ Len(q) <= MaxEvents
      /\ \A i \in 1 .. Len(q) : q[i] = A[c + i]
  <2>1. CASE Len(A) > MaxEvents
    <3>1. q = SubSeq(A, Len(A) - MaxEvents + 1, Len(A)) /\ c = Len(A) - MaxEvents
      BY <2>1 DEF CapByCount
    <3>2. Len(A) - MaxEvents + 1 \in 1 .. Len(A) + 1
      BY <1>0, <1>1, <2>1
    <3> DEFINE g == Len(A) - MaxEvents + 1
    <3>3. /\ SubSeq(A, g, Len(A)) \in Seq(RingEntry)
          /\ Len(SubSeq(A, g, Len(A))) = Len(A) - g + 1
          /\ \A i \in 1 .. Len(A) - g + 1 : SubSeq(A, g, Len(A))[i] = A[g - 1 + i]
      <4> HIDE DEF g
      <4>1. g \in 1 .. Len(A) + 1
        BY <3>2 DEF g
      <4> QED
        BY <1>1, <4>1, LastElements, Zenon
    <3>4. /\ c \in 0 .. Len(A) /\ Len(A) - g + 1 = MaxEvents /\ Len(A) - c = MaxEvents
          /\ \A i \in 1 .. MaxEvents : g - 1 + i = c + i
      BY <1>0, <1>1, <2>1, <3>1
    <3> HIDE DEF g, c, q
    <3>5. q = SubSeq(A, g, Len(A))
      BY <3>1 DEF g
    <3>6. Len(q) = MaxEvents /\ q \in Seq(RingEntry) /\ \A i \in 1 .. MaxEvents : q[i] = A[g - 1 + i]
      BY <3>3, <3>4, <3>5
    <3> QED
      BY <1>0, <3>4, <3>6
  <2>2. CASE ~(Len(A) > MaxEvents)
    <3>1. q = A /\ c = 0
      BY <2>2 DEF CapByCount
    <3> HIDE DEF c, q
    <3> QED
      BY <1>0, <1>1, <2>2, <3>1
  <2> QED
    BY <2>1, <2>2
<1>4. now - MaxAge \in Int
  BY <1>0
<1>5. /\ f \in 1 .. Len(q) + 1 /\ (f <= Len(q) => q[f].ingest >= now - MaxAge)
  <2> HIDE DEF q
  <2> QED
    BY <1>3, <1>4, FirstFreshExists
<1>6. r = SubSeq(q, f, Len(q))
  BY DEF CapByAge
<1> HIDE DEF c, q, f, r
<1>7. /\ Len(q) \in Nat /\ Len(r) = Len(q) - f + 1
      /\ \A i \in 1 .. Len(q) - f + 1 : r[i] = q[f - 1 + i]
  BY <1>3, <1>5, <1>6, LastElements
<1> DEFINE a == c + f - 1
<1>8. a \in 0 .. Len(s) + 1 /\ Len(r) = Len(s) + 1 - a /\ Len(r) <= MaxEvents
  BY <1>0, <1>1, <1>3, <1>5, <1>7
<1>9. ASSUME NEW i \in 1 .. Len(r) PROVE r[i] = A[a + i] /\ r[i].ingest >= now - MaxAge
  <2>1. f - 1 + i \in 1 .. Len(q) /\ r[i] = q[f - 1 + i] /\ f \in 1 .. Len(q) /\ f <= Len(q)
    BY <1>5, <1>7
  <2>2. q[f - 1 + i] = A[c + (f - 1 + i)] /\ q[f] = A[c + f]
    BY <1>3, <2>1
  <2>3. c + (f - 1 + i) = a + i /\ c + f \in 1 .. Len(A) /\ a + i \in 1 .. Len(A) /\ c + f <= a + i
    BY <1>1, <1>3, <1>5, <1>7, <2>1
  <2>4. A[c + f].ingest <= A[a + i].ingest
    BY <1>2, <2>3 DEF ByClock
  <2>5. A[c + f] \in RingEntry /\ A[a + i] \in RingEntry
    BY <1>1, <2>3, ElementOfSeq
  <2>6. A[c + f].ingest \in Nat /\ A[a + i].ingest \in Nat
    BY <2>5 DEF RingEntry
  <2>7. A[c + f].ingest >= now - MaxAge
    BY <1>5, <2>1, <2>2
  <2>8. r[i] = A[a + i]
    BY <2>1, <2>2, <2>3
  <2> HIDE DEF a
  <2> QED
    BY <1>4, <2>4, <2>6, <2>7, <2>8
<1> HIDE DEF a
<1>10. /\ Len(Push(s, e, now)) = Len(s) + 1 - a /\ Len(Push(s, e, now)) <= MaxEvents
       /\ \A i \in 1 .. Len(s) + 1 - a :
            /\ Push(s, e, now)[i] = Append(s, e)[a + i]
            /\ Push(s, e, now)[i].ingest >= now - MaxAge
  BY <1>2, <1>8, <1>9 DEF A
<1> QED
  BY <1>8, <1>10

\* What RingIsNewest says of the ring of pair p, entry by entry.
Newest(p) ==
  /\ Len(ring[p]) <= MaxEvents
  /\ \A i, j \in 1 .. Len(ring[p]) : i < j => ring[p][i].n < ring[p][j].n
  /\ \A i \in 1 .. Len(ring[p]) :
       /\ ring[p][i].n \in 1 .. Len(log) /\ log[ring[p][i].n].pair = p
       /\ \A m \in ring[p][i].n .. Len(log) :
            log[m].pair = p => \E j \in 1 .. Len(ring[p]) : ring[p][j].n = m
  /\ \A i \in 1 .. Len(ring[p]) :
       ring[p][i].ingest >= ring[p][Len(ring[p])].ingest - MaxAge

LEMMA NewestParts ==
  ASSUME TypeOK PROVE RingIsNewest <=> \A p \in Pairs : Newest(p)
<1> DEFINE Ns(p) == {ring[p][i].n : i \in 1 .. Len(ring[p])}
           Part(p) == /\ Len(ring[p]) <= MaxEvents
                      /\ Increasing([i \in 1 .. Len(ring[p]) |-> ring[p][i].n])
                      /\ \A n \in Ns(p) : /\ n \in 1 .. Len(log)
                                            /\ log[n].pair = p
                                            /\ \A m \in n .. Len(log) :
                                                 log[m].pair = p => m \in Ns(p)
                      /\ \A i \in 1 .. Len(ring[p]) :
                           ring[p][i].ingest >= Latest(ring[p]).ingest - MaxAge
<1>1. RingIsNewest <=> \A p \in Pairs : Part(p)
  BY Zenon DEF RingIsNewest
<1>2. ASSUME NEW p \in Pairs PROVE Part(p) <=> Newest(p)
  <2>1. Increasing([i \in 1 .. Len(ring[p]) |-> ring[p][i].n]) <=>
          \A i, j \in 1 .. Len(ring[p]) : i < j => ring[p][i].n < ring[p][j].n
    <3>1. Len(ring[p]) \in Nat
      BY DEF TypeOK
    <3> DEFINE ns == [i \in 1 .. Len(ring[p]) |-> ring[p][i].n]
    <3>2. Len(ns) = Len(ring[p]) /\ \A i \in 1 .. Len(ring[p]) : ns[i] = ring[p][i].n
      BY <3>1
    <3> HIDE DEF ns
    <3>3. Increasing(ns) <=> \A i, j \in 1 .. Len(ring[p]) : i < j => ring[p][i].n < ring[p][j].n
      BY <3>2 DEF Increasing
    <3> QED
      BY <3>3 DEF ns
  <2>2. \A x : x \in Ns(p) <=> \E i \in 1 .. Len(ring[p]) : ring[p][i].n = x
    OBVIOUS
  <2> DEFINE Whole(n) == /\ n \in 1 .. Len(log) /\ log[n].pair = p
                         /\ \A m \in n .. Len(log) : log[m].pair = p => m \in Ns(p)
             WholeE(n) == /\ n \in 1 .. Len(log) /\ log[n].pair = p
                          /\ \A m \in n .. Len(log) : log[m].pair = p =>
                               \E j \in 1 .. Len(ring[p]) : ring[p][j].n = m
  <2>3. \A n : Whole(n) <=> WholeE(n)
    <3> HIDE DEF Ns
    <3> QED
      BY <2>2, Zenon
  <2>4. (\A n \in Ns(p) : Whole(n)) <=> \A i \in 1 .. Len(ring[p]) : WholeE(ring[p][i].n)
    <3> HIDE DEF Ns, Whole, WholeE
    <3> QED
      BY <2>2, <2>3, Zenon
  <2>5. Part(p) <=> /\ Len(ring[p]) <= MaxEvents
                    /\ Increasing([i \in 1 .. Len(ring[p]) |-> ring[p][i].n])
                    /\ \A n \in Ns(p) : Whole(n)
                    /\ \A i \in 1 .. Len(ring[p]) :
                         ring[p][i].ingest >= ring[p][Len(ring[p])].ingest - MaxAge
    <3> HIDE DEF Ns
    <3> QED
      BY Zenon DEF Latest
  <2>6. Newest(p) <=> /\ Len(ring[p]) <= MaxEvents
                      /\ \A i, j \in 1 .. Len(ring[p]) : i < j => ring[p][i].n < ring[p][j].n
                      /\ \A i \in 1 .. Len(ring[p]) : WholeE(ring[p][i].n)
                      /\ \A i \in 1 .. Len(ring[p]) :
                           ring[p][i].ingest >= ring[p][Len(ring[p])].ingest - MaxAge
    BY Zenon DEF Newest
  <2> HIDE DEF Part, Whole, WholeE, Ns
  <2> QED
    BY <2>1, <2>4, <2>5, <2>6, Zenon
<1> HIDE DEF Part
<1> QED
  BY <1>1, <1>2, Zenon

\* Rings stay in order and newest: kept by every step.
LEMMA RingNext ==
  ASSUME TypeInv, RingOrder, RingIsNewest, [Next]_vars
  PROVE  RingOrder' /\ RingIsNewest'
<1>0. TypeOK /\ TypeOK' /\ \A p \in Pairs : Newest(p)
  BY TypeNext, NewestParts DEF TypeInv
<1>1. CASE UNCHANGED <<log, seqOf, ring, clock>>
  <2>1. RingOrder'
    BY <1>1 DEF RingOrder
  <2>2. ASSUME NEW p \in Pairs PROVE Newest(p)'
    <3>1. Newest(p)
      BY <1>0
    <3> QED
      BY <1>1, <3>1 DEF Newest
  <2>3. (\A p \in Pairs : Newest(p))'
    BY <2>2
  <2> QED
    BY <1>0, <2>1, <2>3, NewestParts, PTL
<1>2. ASSUME NEW e \in Event, NEW t \in Nat, NEW now \in Nat, Stamped(e, t, now)
      PROVE  RingOrder' /\ RingIsNewest'
  <2> DEFINE N == Len(log)
             P == e.pair
             entry == [n |-> N + 1, ingest |-> t]
             s == ring[P]
             A == Append(s, entry)
  <2>0. N \in Nat /\ clock \in Nat /\ MaxAge \in Nat /\ MaxEvents \in Nat
    BY <1>0, HotRingAssumption DEF TypeOK
  <2>1. /\ clock <= t /\ t <= now /\ clock' = now /\ P \in Pairs
        /\ ring' = [ring EXCEPT ![P] = Push(@, entry, now)]
        /\ Len(log') = N + 1 /\ log'[N + 1] = e /\ \A n \in 1 .. N : log'[n] = log[n]
    BY <1>2 DEF Stamped
  <2>2. s \in Seq(RingEntry) /\ entry \in RingEntry /\ Len(s) \in Nat
        /\ entry.n = N + 1 /\ entry.ingest = t
    BY <1>0, <2>0, <2>1 DEF TypeOK, RingEntry
  <2>3. \A i \in 1 .. Len(s) : s[i].ingest \in Nat /\ s[i].n \in Nat
    <3>1. \A i \in 1 .. Len(s) : s[i] \in RingEntry
      BY <2>2, ElementOfSeq
    <3> QED
      BY <3>1 DEF RingEntry
  <2>4. Newest(P) /\ ring[P] = s
    BY <1>0, <2>1
  <2>5. /\ \A i, j \in 1 .. Len(s) : i <= j => s[i].ingest <= s[j].ingest
        /\ \A i \in 1 .. Len(s) : s[i].ingest <= clock
    BY <2>1 DEF RingOrder
  <2>6. /\ ring'[P] = Push(s, entry, now)
        /\ \A p \in Pairs : p # P => ring'[p] = ring[p]
    BY <1>0, <2>1 DEF TypeOK
  <2>7. P = e.pair
    OBVIOUS
  <2>a. /\ \A i, j \in 1 .. Len(s) : i < j => s[i].n < s[j].n
        /\ \A i \in 1 .. Len(s) :
             /\ s[i].n \in 1 .. N /\ log[s[i].n].pair = P
             /\ \A m \in s[i].n .. N :
                  log[m].pair = P => \E j \in 1 .. Len(s) : s[j].n = m
    BY <2>4 DEF Newest
  <2> HIDE DEF entry, s, P, N
  <2>8. /\ Len(A) = Len(s) + 1 /\ A[Len(s) + 1] = entry /\ \A i \in 1 .. Len(s) : A[i] = s[i]
    BY <2>2
  <2> HIDE DEF A
  <2>9. ByClock(A)
    <3> SUFFICES ASSUME NEW i \in 1 .. Len(s) + 1, NEW j \in 1 .. Len(s) + 1, i <= j
                 PROVE  A[i].ingest <= A[j].ingest
      BY <2>8 DEF ByClock
    <3>1. CASE j \in 1 .. Len(s)
      <4>1. i \in 1 .. Len(s)
        BY <2>2, <3>1
      <4> QED
        BY <2>5, <2>8, <3>1, <4>1
    <3>2. CASE j = Len(s) + 1 /\ i \in 1 .. Len(s)
      BY <2>0, <2>1, <2>2, <2>3, <2>5, <2>8, <3>2
    <3>3. CASE j = Len(s) + 1 /\ i = Len(s) + 1
      BY <2>2, <2>8, <3>3
    <3> QED
      BY <2>2, <3>1, <3>2, <3>3
  <2>10. PICK a \in 0 .. Len(s) + 1 :
           /\ Len(ring'[P]) = Len(s) + 1 - a /\ Len(ring'[P]) <= MaxEvents
           /\ \A i \in 1 .. Len(s) + 1 - a :
                ring'[P][i] = A[a + i] /\ ring'[P][i].ingest >= now - MaxAge
    <3>1. ByClock(Append(s, entry))
      BY <2>9 DEF A
    <3>2. \E a \in 0 .. Len(s) + 1 :
            /\ Len(Push(s, entry, now)) = Len(s) + 1 - a /\ Len(Push(s, entry, now)) <= MaxEvents
            /\ \A i \in 1 .. Len(s) + 1 - a :
                 /\ Push(s, entry, now)[i] = Append(s, entry)[a + i]
                 /\ Push(s, entry, now)[i].ingest >= now - MaxAge
      BY <2>2, <3>1, PushKeeps
    <3> QED
      BY <2>6, <3>2, Zenon DEF A
  <2> DEFINE L == Len(s) + 1 - a
  <2>11. /\ L \in Nat /\ Len(ring'[P]) = L /\ \A i \in 1 .. L : a + i \in 1 .. Len(s) + 1
         /\ L >= 1 => a + L = Len(s) + 1
    BY <2>2, <2>10
  <2>12. \A i \in 1 .. L : ring'[P][i] = A[a + i] /\ ring'[P][i].ingest >= now - MaxAge
    BY <2>10
  <2> HIDE DEF L
  <2>13. \A i \in 1 .. Len(s) + 1 : /\ A[i].n \in 1 .. N + 1 /\ A[i].ingest \in Nat
                                    /\ A[i].ingest <= t
    <3> TAKE i \in 1 .. Len(s) + 1
    <3>1. CASE i \in 1 .. Len(s)
      BY <2>0, <2>1, <2>3, <2>5, <2>8, <2>a, <3>1
    <3>2. CASE i = Len(s) + 1
      BY <2>0, <2>2, <2>8, <3>2
    <3> QED
      BY <2>2, <3>1, <3>2
  <2>14. ASSUME NEW i \in 1 .. L, NEW j \in 1 .. L, i < j PROVE ring'[P][i].n < ring'[P][j].n
    <3>1. a + i \in 1 .. Len(s) /\ a + j \in 1 .. Len(s) + 1 /\ a + i < a + j
      BY <2>2, <2>11, <2>14
    <3>2. CASE a + j \in 1 .. Len(s)
      BY <2>8, <2>12, <2>a, <3>1, <3>2, SMTT(30)
    <3>3. CASE a + j = Len(s) + 1
      <4>1. A[a + i].n \in 1 .. N
        BY <2>8, <2>a, <3>1
      <4>2. A[a + j].n = N + 1
        BY <2>2, <2>8, <3>3
      <4>3. ring'[P][i] = A[a + i] /\ ring'[P][j] = A[a + j]
        BY <2>12
      <4>4. A[a + i].n < A[a + j].n
        BY <2>0, <4>1, <4>2
      <4> QED
        BY <4>3, <4>4
    <3> QED
      BY <2>2, <3>1, <3>2, <3>3
  <2>15. ASSUME NEW i \in 1 .. L
         PROVE  /\ ring'[P][i].n \in 1 .. N + 1 /\ log'[ring'[P][i].n].pair = P
                /\ \A m \in ring'[P][i].n .. N + 1 :
                     log'[m].pair = P => \E j \in 1 .. L : ring'[P][j].n = m
    <3>0. a + i \in 1 .. Len(s) + 1 /\ ring'[P][i] = A[a + i] /\ A[a + i].n \in 1 .. N + 1
      BY <2>11, <2>12, <2>13
    <3>1. log'[A[a + i].n].pair = P
      <4>1. CASE a + i \in 1 .. Len(s)
        BY <2>1, <2>8, <2>a, <4>1
      <4>2. CASE a + i = Len(s) + 1
        BY <2>1, <2>2, <2>7, <2>8, <4>2
      <4> QED
        BY <2>2, <3>0, <4>1, <4>2
    <3>2. ASSUME NEW m \in A[a + i].n .. N + 1, log'[m].pair = P
          PROVE  \E j \in 1 .. L : ring'[P][j].n = m
      <4>1. CASE m = N + 1
        <5>1. L \in 1 .. L /\ a + L = Len(s) + 1
          BY <2>11
        <5>2. ring'[P][L].n = N + 1
          BY <2>2, <2>8, <2>12, <5>1
        <5> QED
          BY <4>1, <5>1, <5>2
      <4>2. CASE m # N + 1
        <5>1. m \in A[a + i].n .. N /\ m \in 1 .. N /\ A[a + i].n \in 1 .. N
          BY <2>0, <3>0, <3>2, <4>2
        <5>2. a + i \in 1 .. Len(s)
          BY <2>0, <2>2, <2>8, <3>0, <5>1
        <5>3. A[a + i] = s[a + i] /\ log[m].pair = P
          BY <2>1, <2>8, <3>2, <5>1, <5>2
        <5>4. PICK j \in 1 .. Len(s) : s[j].n = m
          BY <2>a, <5>1, <5>2, <5>3
        <5>5. j >= a + i
          <6>1. CASE j < a + i
            <7>1. s[j].n < s[a + i].n
              BY <2>a, <5>2, <6>1
            <7> QED
              BY <2>3, <5>1, <5>2, <5>3, <5>4, <7>1
          <6> QED
            BY <5>2, <6>1
        <5>6. j - a \in 1 .. L /\ a + (j - a) = j
          BY <2>2, <5>5 DEF L
        <5>7. ring'[P][j - a].n = m
          BY <2>8, <2>12, <5>4, <5>6
        <5> QED
          BY <5>6, <5>7
      <4> QED
        BY <4>1, <4>2
    <3> QED
      BY <3>0, <3>1, <3>2
  <2>16. ASSUME NEW i \in 1 .. L
         PROVE  ring'[P][i].ingest >= ring'[P][L].ingest - MaxAge
    <3>1. L \in 1 .. L /\ a + L = Len(s) + 1 /\ a + i \in 1 .. Len(s) + 1
      BY <2>11
    <3>2. ring'[P][L].ingest = t
      BY <2>2, <2>8, <2>12, <3>1
    <3>3. ring'[P][i].ingest >= now - MaxAge /\ ring'[P][i].ingest \in Nat
      BY <2>12, <2>13, <3>1
    <3> QED
      BY <2>0, <2>1, <3>2, <3>3, SMTT(30)
  <2>17. Newest(P)'
    <3>1. Len(ring'[P]) <= MaxEvents
      BY <2>10
    <3> QED
      BY <2>1, <2>11, <2>14, <2>15, <2>16, <3>1, ZenonT(30) DEF Newest, P
  <2>18. ASSUME NEW p \in Pairs, p # P PROVE Newest(p)'
    <3>1. ring'[p] = ring[p] /\ Newest(p)
      BY <1>0, <2>6, <2>18
    <3>2. ASSUME NEW i \in 1 .. Len(ring[p])
          PROVE  /\ ring[p][i].n \in 1 .. Len(log') /\ log'[ring[p][i].n].pair = p
                 /\ \A m \in ring[p][i].n .. Len(log') :
                      log'[m].pair = p => \E j \in 1 .. Len(ring[p]) : ring[p][j].n = m
      <4>1. /\ ring[p][i].n \in 1 .. N /\ log[ring[p][i].n].pair = p
            /\ \A m \in ring[p][i].n .. N :
                 log[m].pair = p => \E j \in 1 .. Len(ring[p]) : ring[p][j].n = m
        BY <3>1 DEF Newest, N
      <4>2. log'[N + 1].pair # p
        BY <2>1, <2>7, <2>18
      <4>3. \A m \in ring[p][i].n .. N + 1 : log'[m].pair = p =>
              m \in ring[p][i].n .. N /\ log[m].pair = p
        BY <2>0, <2>1, <4>1, <4>2
      <4> QED
        BY <2>0, <2>1, <4>1, <4>3, SMTT(30)
    <3> QED
      BY <3>1, <3>2 DEF Newest
  <2>19. RingIsNewest'
    <3>1. \A p \in Pairs : Newest(p)'
      <4> TAKE p \in Pairs
      <4>1. CASE p = P
        BY <2>17, <4>1 DEF Newest, P
      <4> QED
        BY <2>18, <4>1
    <3>2. (\A p \in Pairs : Newest(p))'
      BY <3>1
    <3> QED
      BY <1>0, <3>2, NewestParts, PTL
  <2>20. RingOrder'
    <3> SUFFICES ASSUME NEW p \in Pairs
                 PROVE  /\ \A i, j \in 1 .. Len(ring'[p]) :
                             i <= j => ring'[p][i].ingest <= ring'[p][j].ingest
                        /\ \A i \in 1 .. Len(ring'[p]) : ring'[p][i].ingest <= clock'
      BY DEF RingOrder
    <3>1. CASE p # P
      <4>1. ring[p] \in Seq(RingEntry)
        BY <1>0 DEF TypeOK
      <4>2. \A i \in 1 .. Len(ring[p]) : ring[p][i] \in RingEntry
        BY <4>1, ElementOfSeq
      <4>3. \A i \in 1 .. Len(ring[p]) : ring[p][i].ingest \in Nat
        BY <4>2 DEF RingEntry
      <4> QED
        BY <2>0, <2>1, <2>6, <3>1, <4>3, SMTT(30) DEF RingOrder
    <3>2. CASE p = P
      <4>1. ASSUME NEW i \in 1 .. L, NEW j \in 1 .. L, i <= j
            PROVE  ring'[P][i].ingest <= ring'[P][j].ingest
        <5>1. a + i \in 1 .. Len(A) /\ a + j \in 1 .. Len(A) /\ a + i <= a + j
          BY <2>8, <2>11, <4>1
        <5> QED
          BY <2>9, <2>12, <5>1 DEF ByClock
      <4>2. ASSUME NEW i \in 1 .. L PROVE ring'[P][i].ingest <= clock'
        <5>1. a + i \in 1 .. Len(s) + 1 /\ ring'[P][i] = A[a + i]
          BY <2>11, <2>12
        <5>2. A[a + i].ingest \in Nat /\ A[a + i].ingest <= t
          BY <2>13, <5>1
        <5>3. A[a + i].ingest <= clock'
          BY <2>1, <5>2
        <5> QED
          BY <5>1, <5>3
      <4> QED
        BY <2>11, <3>2, <4>1, <4>2
    <3> QED
      BY <3>1, <3>2
  <2> QED
    BY <2>19, <2>20
<1> QED
  BY <1>1, <1>2, StampStep

\* A hot ring is the newest stretch of its pair's arrivals, at most MaxEvents
\* long and, with a clock that does not run backwards, spanning at most
\* MaxAge (HotRings::push), for all limits and loads.
THEOREM RingsAreNewest == Spec => []RingIsNewest
<1> DEFINE Inv == TypeInv /\ RingOrder /\ RingIsNewest
<1>1. Init => Inv
  <2> SUFFICES ASSUME Init PROVE Inv
    OBVIOUS
  <2>1. \A p \in Pairs : ring[p] = <<>> /\ Len(ring[p]) = 0
    BY DEF Init
  <2>2. TypeInv /\ TypeOK
    BY TypeInit DEF TypeInv
  <2>3. \A p \in Pairs : Newest(p)
    BY <2>1, HotRingAssumption DEF Newest
  <2> QED
    BY <2>1, <2>2, <2>3, NewestParts DEF RingOrder
<1>2. Inv /\ [Next]_vars => Inv'
  BY TypeNext, RingNext
<1> QED
  BY <1>1, <1>2, PTL DEF Spec
=============================================================================
