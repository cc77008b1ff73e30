--------------------------- MODULE DeliveryProofs ---------------------------
(***************************************************************************)
(* Theorems about Delivery, for any number of events, any queue, batch,    *)
(* bus and burst sizes, any number of attempts and any bounds on failures. *)
(***************************************************************************)
EXTENDS Delivery, FiniteSetTheorems, TLAPS

-----------------------------------------------------------------------------
(* Types                                                                   *)

Requests == [events : Seq(Events), reply : Reply \cup {NoAnswer}]
Handlers == [no : Nat, at : Nat, in : BOOLEAN]

\* send_batch: there is a batch while it runs and none while it does not; an
\* answer belongs to the last request, and that is one for this batch.
CallInv ==
  /\ (call = "idle") = (batch = <<>>)
  /\ call # "idle" => buf = <<>>
  /\ call # "wait" => answer = NoAnswer
  /\ call = "wait" =>
       /\ attempt < maxAttempts
       /\ Len(requests) > 0
       /\ requests[Len(requests)].events = batch
       /\ requests[Len(requests)].reply = answer

\* A request that is being handled has something left to enqueue and no reply,
\* and nobody else handles it.
HandlerInv ==
  /\ handlers \subseteq Handlers
  /\ \A n \in 1 .. Len(requests) : requests[n].events # <<>>
  /\ \A h \in handlers : /\ h.no \in 1 .. Len(requests)
                         /\ h.at < Len(requests[h.no].events)
                         /\ requests[h.no].reply = NoAnswer
  /\ \A g, h \in handlers : g.no = h.no => g = h

TypeInv == TypeOK /\ CallInv /\ HandlerInv

\* The types hold initially.
LEMMA TypeInit == Init => TypeInv
<1> SUFFICES ASSUME Init PROVE TypeInv
  OBVIOUS
<1>1. TypeOK
  <2>1. maxAttempts \in Nat
    BY DeliveryAssumption DEF Init
  <2>2. (call = "idle") = (task \in {"recv", "exit"})
    BY DEF Init
  <2>3. /\ outcome \in [Events -> {"new", "refused", "queued", "ok"} \cup Failure]
        /\ answer \in Reply \cup {NoAnswer}
    BY DEF Init
  <2>4. /\ queue \in Seq(Events) /\ Len(queue) <= QueueDepth
        /\ buf \in Seq(Events) /\ Len(buf) < MaxBatch
        /\ batch \in Seq(Events) /\ Len(batch) <= MaxBatch
        /\ bus \in Seq(Envelope \cup {Other}) /\ Len(bus) <= BusDepth
        /\ requests \in Seq([events : Seq(Events), reply : Reply \cup {NoAnswer}])
        /\ log \in Seq(Envelope)
    BY DeliveryAssumption DEF Init
  <2>5. /\ given \in 0 .. Last /\ attempt \in 0 .. maxAttempts
        /\ cells \in 0 .. Burst /\ taken \in Nat
    BY <2>1, DeliveryAssumption DEF Init
  <2>6. /\ closed \in BOOLEAN /\ task \in {"recv", "flush", "last", "exit"}
        /\ call \in {"idle", "post", "wait"} /\ handlers = {} /\ rows = {}
        /\ maxAttempts \in Attempts /\ token \in Tokens
    BY DEF Init
  <2> QED
    BY <2>2, <2>3, <2>4, <2>5, <2>6, Zenon DEF TypeOK
<1>2. CallInv /\ HandlerInv
  BY DEF Init, CallInv, HandlerInv
<1> QED
  BY <1>1, <1>2 DEF TypeInv

-----------------------------------------------------------------------------
(* What the steps have in common                                           *)

\* flush, with a batch that is not empty.
LEMMA FlushType ==
  ASSUME TypeInv, task = "recv",
         NEW events \in Seq(Events), events # <<>>, Len(events) <= MaxBatch,
         NEW then \in {"flush", "last"}, Flush(events, then),
         queue' \in Seq(Events), Len(queue') <= QueueDepth, UNCHANGED quiet
  PROVE  TypeInv'
<1> USE DeliveryAssumption
<1>1. TypeOK'
  BY DEF TypeInv, TypeOK, Flush, quiet, server
<1>2. CallInv'
  BY DEF TypeInv, TypeOK, CallInv, Flush, quiet
<1>3. HandlerInv'
  BY DEF TypeInv, HandlerInv, quiet
<1> QED
  BY <1>1, <1>2, <1>3 DEF TypeInv

\* send_batch returns.
LEMMA ReturnType ==
  ASSUME TypeInv, NEW result \in {"ok"} \cup Failure, Return(result), call # "idle",
         handlers' \subseteq handlers, UNCHANGED <<server, requests, log>>
  PROVE  TypeInv'
<1>1. outcome' \in [Events -> {"new", "refused", "queued", "ok"} \cup Failure]
  BY DEF TypeInv, TypeOK, Return
<1>2. TypeOK'
  BY <1>1, DeliveryAssumption, SMTT(30) DEF TypeInv, TypeOK, Return, server, NoAnswer
<1>3. CallInv'
  BY DEF TypeInv, CallInv, Return
<1>4. HandlerInv'
  BY DEF TypeInv, HandlerInv
<1> QED
  BY <1>2, <1>3, <1>4 DEF TypeInv

\* A handler answers.
LEMMA RespondType ==
  ASSUME TypeInv, NEW h \in handlers, NEW reply \in Reply, Respond(h, reply)
  PROVE  /\ requests' \in Seq(Requests) /\ Len(requests') = Len(requests)
         /\ requests'[h.no] = [events |-> requests[h.no].events, reply |-> reply]
         /\ \A n \in 1 .. Len(requests) : /\ n # h.no => requests'[n] = requests[n]
                                          /\ requests'[n].events = requests[n].events
         /\ handlers' = handlers \ {h}
         /\ CallInv' /\ HandlerInv'
<1> USE DEF TypeInv
<1>0. requests \in Seq(Requests) /\ h.no \in 1 .. Len(requests)
  BY DEF TypeOK, Requests, HandlerInv
<1>1. /\ requests' \in Seq(Requests) /\ Len(requests') = Len(requests)
      /\ requests'[h.no] = [events |-> requests[h.no].events, reply |-> reply]
      /\ \A n \in 1 .. Len(requests) : n # h.no => requests'[n] = requests[n]
  <2> DEFINE new == [events |-> requests[h.no].events, reply |-> reply]
  <2>1. requests[h.no] \in Requests
    BY <1>0
  <2>2. new \in Requests /\ [requests[h.no] EXCEPT !.reply = reply] = new
    BY <2>1 DEF Requests
  <2>3. requests' = [requests EXCEPT ![h.no] = new]
    BY <2>2 DEF Respond
  <2> HIDE DEF new
  <2>4. /\ requests' \in Seq(Requests) /\ Len(requests') = Len(requests)
        /\ requests'[h.no] = new
        /\ \A n \in 1 .. Len(requests) : n # h.no => requests'[n] = requests[n]
    BY <1>0, <2>2, <2>3
  <2> QED
    BY <2>4 DEF new
<1>2. \A n \in 1 .. Len(requests) : requests'[n].events = requests[n].events
  BY <1>1
<1>3. handlers' = handlers \ {h}
  BY DEF Respond
<1>4. CallInv'
  <2>1. batch' = batch /\ buf' = buf /\ call' = call /\ attempt' = attempt
        /\ maxAttempts' = maxAttempts
        /\ answer' = IF call = "wait" /\ h.no = Len(requests) THEN reply ELSE answer
    BY DEF Respond, Current, batcher
  <2> QED
    BY <1>0, <1>1, <1>2, <2>1 DEF CallInv
<1>5. HandlerInv'
  BY <1>0, <1>1, <1>2, <1>3 DEF HandlerInv
<1> QED
  BY <1>1, <1>2, <1>3, <1>4, <1>5

\* What Respond does to the rest of the state keeps the types.
LEMMA RespondTypeOK ==
  ASSUME TypeInv, NEW h \in handlers, NEW reply \in Reply, Respond(h, reply),
         cells' \in 0 .. Burst,
         bus' \in Seq(Envelope \cup {Other}), Len(bus') <= BusDepth,
         UNCHANGED <<taken, rows>>, log' \in Seq(Envelope)
  PROVE  TypeInv'
<1>1. /\ requests' \in Seq(Requests) /\ Len(requests') = Len(requests)
      /\ CallInv' /\ HandlerInv'
  BY RespondType
<1>2. answer' \in Reply \cup {NoAnswer}
  BY DEF TypeInv, TypeOK, Respond
<1>3. \A g \in handlers' : /\ g.no \in DOMAIN requests'
                           /\ g.at \in 0 .. Len(requests'[g.no].events)
  <2> SUFFICES ASSUME NEW g \in handlers'
               PROVE  g.no \in DOMAIN requests' /\ g.at \in 0 .. Len(requests'[g.no].events)
    OBVIOUS
  <2>1. requests'[g.no] \in Requests /\ g \in Handlers /\ g.at < Len(requests'[g.no].events)
        /\ g.no \in 1 .. Len(requests')
    BY <1>1 DEF HandlerInv
  <2> QED
    BY <2>1, <1>1 DEF Requests, Handlers
<1>4. TypeOK'
  BY <1>1, <1>2, <1>3 DEF TypeInv, TypeOK, Respond, Requests, batcher
<1> QED
  BY <1>1, <1>4 DEF TypeInv

\* A handler goes on with its request.
LEMMA HandlerMoves ==
  ASSUME TypeInv, NEW h \in handlers, NEW g \in Handlers,
         g.no = h.no, g.at < Len(requests[h.no].events),
         handlers' = (handlers \ {h}) \cup {g},
         UNCHANGED <<maxAttempts, token, batcher, sending, outcome, requests>>,
         cells' \in 0 .. Burst,
         bus' \in Seq(Envelope \cup {Other}), Len(bus') <= BusDepth,
         UNCHANGED <<taken, rows>>, log' \in Seq(Envelope)
  PROVE  TypeInv'
<1>1. CallInv'
  BY DEF TypeInv, CallInv, batcher, sending
<1>2. HandlerInv'
  BY DEF TypeInv, HandlerInv
<1>3. \A k \in handlers' : /\ k.no \in DOMAIN requests'
                           /\ k.at \in 0 .. Len(requests'[k.no].events)
  <2>1. requests \in Seq(Requests) /\ h.no \in 1 .. Len(requests)
    BY DEF TypeInv, TypeOK, HandlerInv, Requests
  <2>2. requests[h.no] \in Requests
    BY <2>1
  <2>3. g.no \in DOMAIN requests /\ g.at \in 0 .. Len(requests[g.no].events)
    BY <2>1, <2>2 DEF Handlers, Requests
  <2>4. \A k \in handlers : /\ k.no \in DOMAIN requests
                            /\ k.at \in 0 .. Len(requests[k.no].events)
    BY DEF TypeInv, TypeOK
  <2> QED
    BY <2>3, <2>4
<1>4. TypeOK'
  BY <1>3 DEF TypeInv, TypeOK, batcher, sending
<1> QED
  BY <1>1, <1>2, <1>4 DEF TypeInv

\* The verdict on an answer: to try again, or what send_batch returns.
LEMMA VerdictType ==
  ASSUME NEW reply \in Reply, NEW retries \in BOOLEAN
  PROVE  /\ Verdict(reply, retries) \in {"ok", "retry"} \cup Failure
         /\ Verdict(reply, retries) = "ok" => reply = "ok"
         /\ Verdict(reply, retries) = "retry" =>
              retries /\ reply \in {"rate_limit", "bus_full", "503"}
BY DEF Verdict, Reply, Failure, Shed

\* What the handler's checks can answer.
LEMMA AdmissionType ==
  ASSUME NEW h
  PROVE  /\ Admission(h) \in {"401", "payload_too_large", "unauthorized", "rate_limit", "ok"}
         /\ Admission(h) = "ok" => cells # 0
BY DEF Admission, RateLimited

\* A request is one.
LEMMA RequestType ==
  ASSUME TypeInv
  PROVE  /\ requests \in Seq(Requests) /\ Len(requests) \in Nat
         /\ \A n \in 1 .. Len(requests) :
              /\ requests[n] \in Requests
              /\ requests[n].events \in Seq(Events) /\ Len(requests[n].events) \in Nat
              /\ requests[n].events # <<>>
              /\ requests[n].reply \in Reply \cup {NoAnswer}
<1>1. requests \in Seq(Requests)
  BY DEF TypeInv, TypeOK, Requests
<1>2. \A n \in 1 .. Len(requests) : requests[n] \in Requests /\ requests[n].events # <<>>
  BY <1>1 DEF TypeInv, HandlerInv
<1> QED
  BY <1>1, <1>2 DEF Requests

-----------------------------------------------------------------------------
(* Every step keeps the types                                              *)

\* The batcher's steps keep the types.
LEMMA BatcherTypes ==
  ASSUME TypeInv, Enqueue \/ TryEnqueueFull \/ Close \/ Batcher
  PROVE  TypeInv'
<1> USE DeliveryAssumption
<1>1. CASE Enqueue
  <2>1. given + 1 \in Events /\ given + 1 \in 0 .. Last
    BY <1>1 DEF Enqueue, TypeInv, TypeOK, Events
  <2>2. /\ queue' \in Seq(Events) /\ Len(queue') <= QueueDepth
        /\ outcome' \in [Events -> {"new", "refused", "queued", "ok"} \cup Failure]
    BY <1>1, <2>1 DEF Enqueue, TypeInv, TypeOK
  <2>3. TypeOK'
    BY <1>1, <2>1, <2>2 DEF Enqueue, TypeInv, TypeOK, sending, server
  <2>4. CallInv' /\ HandlerInv'
    BY <1>1 DEF Enqueue, TypeInv, CallInv, HandlerInv, sending
  <2> QED
    BY <2>3, <2>4 DEF TypeInv
<1>2. CASE TryEnqueueFull
  <2>1. given + 1 \in Events /\ given + 1 \in 0 .. Last
    BY <1>2 DEF TryEnqueueFull, TypeInv, TypeOK, Events
  <2>2. outcome' \in [Events -> {"new", "refused", "queued", "ok"} \cup Failure]
    BY <1>2, <2>1 DEF TryEnqueueFull, TypeInv, TypeOK
  <2>3. TypeOK'
    BY <1>2, <2>1, <2>2 DEF TryEnqueueFull, TypeInv, TypeOK, sending, server
  <2>4. CallInv' /\ HandlerInv'
    BY <1>2 DEF TryEnqueueFull, TypeInv, CallInv, HandlerInv, sending
  <2> QED
    BY <2>3, <2>4 DEF TypeInv
<1>3. CASE Close
  <2>1. TypeOK'
    BY <1>3 DEF Close, TypeInv, TypeOK, sending, server
  <2>2. CallInv' /\ HandlerInv'
    BY <1>3 DEF Close, TypeInv, CallInv, HandlerInv, sending
  <2> QED
    BY <2>1, <2>2 DEF TypeInv
<1>4. CASE BatcherRecv
  <2> DEFINE events == Append(buf, Head(queue))
  <2>1. /\ events \in Seq(Events) /\ events # <<>> /\ Len(events) <= MaxBatch
        /\ queue' \in Seq(Events) /\ Len(queue') <= QueueDepth
        /\ task = "recv" /\ UNCHANGED quiet
    <3>1. /\ buf \in Seq(Events) /\ Len(buf) < MaxBatch
          /\ queue \in Seq(Events) /\ queue # <<>> /\ Len(queue) <= QueueDepth
      BY <1>4 DEF BatcherRecv, TypeInv, TypeOK
    <3>2. /\ events \in Seq(Events) /\ Len(events) = Len(buf) + 1 /\ Len(buf) \in Nat
          /\ Tail(queue) \in Seq(Events) /\ Len(Tail(queue)) <= QueueDepth
      BY <3>1
    <3>3. events # <<>> /\ Len(events) <= MaxBatch
      <4> HIDE DEF events
      <4> QED
        BY <3>1, <3>2
    <3> QED
      BY <1>4, <3>2, <3>3 DEF BatcherRecv
  <2>2. CASE Flush(events, "flush")
    BY <2>1, <2>2, FlushType
  <2>3. CASE Len(events) < MaxBatch /\ buf' = events /\ UNCHANGED <<task, sending>>
    <3>1. TypeOK'
      BY <2>1, <2>3 DEF TypeInv, TypeOK, sending, quiet, server
    <3>2. CallInv' /\ HandlerInv'
      BY <2>1, <2>3 DEF TypeInv, TypeOK, CallInv, HandlerInv, sending, quiet
    <3> QED
      BY <3>1, <3>2 DEF TypeInv
  <2> QED
    BY <1>4, <2>1, <2>2, <2>3 DEF BatcherRecv
<1>5. CASE BatcherTick
  <2>1. /\ buf \in Seq(Events) /\ buf # <<>> /\ Len(buf) <= MaxBatch
        /\ queue' \in Seq(Events) /\ Len(queue') <= QueueDepth
    BY <1>5 DEF BatcherTick, TypeInv, TypeOK
  <2> QED
    BY <1>5, <2>1, FlushType DEF BatcherTick
<1>6. CASE BatcherClosed
  <2>1. /\ buf \in Seq(Events) /\ Len(buf) <= MaxBatch
        /\ queue' \in Seq(Events) /\ Len(queue') <= QueueDepth
        /\ task = "recv" /\ UNCHANGED quiet
    BY <1>6 DEF BatcherClosed, TypeInv, TypeOK
  <2>2. CASE buf # <<>> /\ Flush(buf, "last")
    BY <2>1, <2>2, FlushType
  <2>3. CASE task' = "exit" /\ UNCHANGED <<buf, sending>>
    <3>1. TypeOK'
      BY <1>6, <2>1, <2>3 DEF BatcherClosed, TypeInv, TypeOK, sending, quiet, server
    <3>2. CallInv' /\ HandlerInv'
      BY <2>1, <2>3 DEF TypeInv, CallInv, HandlerInv, sending, quiet
    <3> QED
      BY <3>1, <3>2 DEF TypeInv
  <2> QED
    BY <1>6, <2>2, <2>3 DEF BatcherClosed
<1> QED
  BY <1>1, <1>2, <1>3, <1>4, <1>5, <1>6 DEF Batcher

\* The steps of send_batch keep the types.
LEMMA SendBatchTypes ==
  ASSUME TypeInv, SendBatch \/ NetworkError
  PROVE  TypeInv'
<1>0. maxAttempts \in Nat /\ attempt \in 0 .. maxAttempts
  BY DeliveryAssumption DEF TypeInv, TypeOK
<1>1. CASE Post
  <2> DEFINE new == [events |-> batch, reply |-> NoAnswer]
             g == [no |-> Len(requests) + 1, at |-> 0, in |-> FALSE]
  <2>1. /\ new \in Requests /\ batch \in Seq(Events) /\ batch # <<>>
        /\ new.events = batch /\ new.reply = NoAnswer
    BY <1>1 DEF Post, TypeInv, TypeOK, CallInv, Requests
  <2>2. requests' = Append(requests, new)
    BY <1>1 DEF Post
  <2> HIDE DEF new
  <2>3. /\ requests' \in Seq(Requests) /\ Len(requests') = Len(requests) + 1
        /\ requests'[Len(requests) + 1] = new
        /\ \A n \in 1 .. Len(requests) : requests'[n] = requests[n]
    BY <2>1, <2>2, RequestType
  <2>4. handlers' = handlers \cup {g}
    BY <1>1, <2>3 DEF Post
  <2>5. g \in Handlers /\ g.no = Len(requests) + 1 /\ g.at = 0
    BY RequestType DEF Handlers
  <2> HIDE DEF g
  <2>6. Len(batch) > 0
    BY <2>1
  <2>7. HandlerInv'
    BY <2>1, <2>3, <2>4, <2>5, <2>6, RequestType DEF TypeInv, HandlerInv
  <2>8. CallInv'
    BY <1>0, <1>1, <2>1, <2>3, RequestType DEF Post, TypeInv, CallInv, batcher
  <2>9. TypeOK'
    <3>1. \A h \in handlers' : /\ h.no \in DOMAIN requests'
                               /\ h.at \in 0 .. Len(requests'[h.no].events)
      <4>1. \A h \in handlers : /\ h.no \in 1 .. Len(requests)
                                /\ h.at \in 0 .. Len(requests[h.no].events)
        BY RequestType, SMTT(30) DEF TypeInv, TypeOK
      <4>2. \A h \in handlers : /\ h.no \in DOMAIN requests'
                                /\ h.at \in 0 .. Len(requests'[h.no].events)
        BY <2>3, <4>1, RequestType
      <4>3. g.no \in DOMAIN requests' /\ g.at \in 0 .. Len(requests'[g.no].events)
        BY <2>1, <2>3, <2>5, RequestType
      <4> QED
        BY <2>4, <4>2, <4>3
    <3>2. call' = "wait" /\ (call' = "idle") = (task' \in {"recv", "exit"})
      BY <1>1 DEF Post, TypeInv, TypeOK, batcher
    <3> QED
      BY <1>1, <2>3, <3>1, <3>2 DEF Post, TypeInv, TypeOK, Requests, batcher, server
  <2> QED
    BY <2>7, <2>8, <2>9 DEF TypeInv
<1>2. CASE Exhausted
  BY <1>2, ReturnType DEF Exhausted, Failure
<1>3. CASE OnAnswer
  <2> DEFINE v == Verdict(answer, attempt + 1 < maxAttempts)
  <2>1. answer \in Reply /\ (attempt + 1 < maxAttempts) \in BOOLEAN
    BY <1>3 DEF OnAnswer, TypeInv, TypeOK
  <2>2. v \in {"ok", "retry"} \cup Failure /\ (v = "retry" => attempt + 1 < maxAttempts)
    BY <2>1, VerdictType
  <2>3. CASE v # "retry"
    BY <1>3, <2>2, <2>3, ReturnType DEF OnAnswer
  <2>4. CASE v = "retry"
    <3>1. /\ call' = "post" /\ attempt' = attempt + 1 /\ answer' = NoAnswer
          /\ UNCHANGED <<maxAttempts, token, batcher, batch, outcome>>
          /\ UNCHANGED <<handlers, server, requests, log>> /\ call = "wait"
      BY <1>3, <2>4 DEF OnAnswer
    <3>2. attempt' \in 0 .. maxAttempts
      BY <1>0, <2>2, <2>4, <3>1
    <3>3. TypeOK'
      BY <3>1, <3>2 DEF TypeInv, TypeOK, batcher, server
    <3>4. CallInv' /\ HandlerInv'
      BY <3>1 DEF TypeInv, CallInv, HandlerInv, batcher
    <3> QED
      BY <3>3, <3>4 DEF TypeInv
  <2> QED
    BY <2>3, <2>4
<1>4. CASE NetworkError
  BY <1>4, ReturnType DEF NetworkError, Failure
<1> QED
  BY <1>1, <1>2, <1>3, <1>4 DEF SendBatch

\* The server's steps keep the types.
LEMMA ServerTypes ==
  ASSUME TypeInv, \/ \E h \in handlers : Handler(h) \/ TurnAway(h)
                  \/ Drain \/ OtherPost \/ Replenish
  PROVE  TypeInv'
<1> USE DeliveryAssumption
<1>0. /\ cells \in 0 .. Burst /\ bus \in Seq(Envelope \cup {Other}) /\ Len(bus) <= BusDepth
      /\ log \in Seq(Envelope)
  BY DEF TypeInv, TypeOK
<1>1. ASSUME NEW h \in handlers, Handler(h) \/ TurnAway(h) PROVE TypeInv'
  <2>0. /\ h \in Handlers /\ h.no \in 1 .. Len(requests) /\ h.at < Len(requests[h.no].events)
        /\ requests[h.no].events \in Seq(Events)
    BY RequestType DEF TypeInv, HandlerInv
  <2>1. CASE TurnAway(h)
    BY <1>0, <2>1, RespondTypeOK DEF TurnAway, Reply, server
  <2>2. CASE Arrive(h)
    <3>1. Admission(h) \in Reply /\ (Admission(h) = "ok" => cells # 0)
      BY AdmissionType DEF Reply
    <3>2. CASE Admission(h) # "ok"
      BY <1>0, <2>2, <3>1, <3>2, RespondTypeOK DEF Arrive
    <3>3. CASE Admission(h) = "ok"
      <4> DEFINE g == [h EXCEPT !.in = TRUE]
      <4>1. g \in Handlers /\ g.no = h.no /\ g.at = h.at
        BY <2>0 DEF Handlers
      <4>2. /\ handlers' = (handlers \ {h}) \cup {g}
            /\ UNCHANGED <<maxAttempts, token, batcher, sending, outcome, requests>>
            /\ UNCHANGED <<bus, taken, rows, log>> /\ cells' \in 0 .. Burst
        BY <1>0, <2>2, <3>1, <3>3 DEF Arrive
      <4> HIDE DEF g
      <4> QED
        BY <1>0, <2>0, <4>1, <4>2, HandlerMoves
    <3> QED
      BY <3>2, <3>3
  <2>3. CASE Send(h)
    <3> DEFINE events == requests[h.no].events
               env == [event |-> events[h.at + 1], no |-> h.no]
    <3>1. h.at + 1 \in 1 .. Len(events)
      BY <2>0 DEF Handlers
    <3>2. env \in Envelope
      BY <2>0, <3>1 DEF Envelope
    <3>3. /\ bus' = Append(bus, env) /\ log' = Append(log, env) /\ Len(bus) < BusDepth
          /\ UNCHANGED <<cells, taken, rows>>
      BY <2>3 DEF Send
    <3>4. /\ bus' \in Seq(Envelope \cup {Other}) /\ Len(bus') <= BusDepth
          /\ log' \in Seq(Envelope) /\ cells' \in 0 .. Burst
      <4> HIDE DEF env
      <4> QED
        BY <1>0, <3>2, <3>3
    <3>5. CASE h.at + 1 = Len(events)
      BY <2>3, <3>3, <3>4, <3>5, RespondTypeOK DEF Send, Reply
    <3>6. CASE h.at + 1 # Len(events)
      <4> DEFINE g == [h EXCEPT !.at = @ + 1]
      <4>1. g \in Handlers /\ g.no = h.no /\ g.at = h.at + 1
        BY <2>0, SMTT(30) DEF Handlers
      <4>2. g.at < Len(events)
        BY <2>0, <3>1, <3>6, <4>1, SMTT(30)
      <4>3. /\ handlers' = (handlers \ {h}) \cup {g}
            /\ UNCHANGED <<maxAttempts, token, batcher, sending, outcome, requests>>
        BY <2>3, <3>6 DEF Send
      <4> HIDE DEF g
      <4> QED
        BY <3>3, <3>4, <4>1, <4>2, <4>3, HandlerMoves
    <3> QED
      BY <3>5, <3>6
  <2>4. CASE SendFull(h)
    BY <1>0, <2>4, RespondTypeOK DEF SendFull, Reply, server
  <2> QED
    BY <1>1, <2>1, <2>2, <2>3, <2>4 DEF Handler
<1>2. CASE Drain
  <2> DEFINE e == Head(bus).event
             new == [id |-> IdOf(e, taken + 1), event |-> e]
  <2>1. /\ Head(bus) \in Envelope \cup {Other} /\ Tail(bus) \in Seq(Envelope \cup {Other})
        /\ Len(Tail(bus)) <= BusDepth
    BY <1>0, <1>2 DEF Drain
  <2>2. e # 0 => e \in Events
    BY <2>1 DEF Envelope, Other
  <2>3. e # 0 => new \in [id : Id, event : Events]
    BY <2>2 DEF IdOf, Id, TypeInv, TypeOK, Events
  <2>4. rows' \subseteq [id : Id, event : Events]
    BY <1>2, <2>3 DEF Drain, TypeInv, TypeOK
  <2>5. TypeOK'
    BY <1>2, <2>1, <2>4 DEF Drain, TypeInv, TypeOK, batcher, sending
  <2>6. CallInv' /\ HandlerInv'
    BY <1>2 DEF Drain, TypeInv, CallInv, HandlerInv, batcher, sending
  <2> QED
    BY <2>5, <2>6 DEF TypeInv
<1>3. CASE OtherPost
  <2>1. bus' \in Seq(Envelope \cup {Other}) /\ Len(bus') <= BusDepth
    BY <1>0, <1>3 DEF OtherPost
  <2>2. TypeOK'
    BY <1>3, <2>1 DEF OtherPost, TypeInv, TypeOK, batcher, sending
  <2>3. CallInv' /\ HandlerInv'
    BY <1>3 DEF OtherPost, TypeInv, CallInv, HandlerInv, batcher, sending
  <2> QED
    BY <2>2, <2>3 DEF TypeInv
<1>4. CASE Replenish
  <2>1. TypeOK'
    BY <1>4 DEF Replenish, TypeInv, TypeOK, batcher, sending
  <2>2. CallInv' /\ HandlerInv'
    BY <1>4 DEF Replenish, TypeInv, CallInv, HandlerInv, batcher, sending
  <2> QED
    BY <2>1, <2>2 DEF TypeInv
<1> QED
  BY <1>1, <1>2, <1>3, <1>4

\* Every step keeps the types, and so does a stuttering step.
LEMMA TypeNext == TypeInv /\ [Next]_vars => TypeInv'
<1>1. CASE TypeInv /\ Next
  BY <1>1, BatcherTypes, SendBatchTypes, ServerTypes DEF Next
<1>2. CASE TypeInv /\ UNCHANGED vars
  <2>1. TypeOK'
    BY <1>2 DEF TypeInv, TypeOK, vars, batcher, sending, server
  <2>2. CallInv' /\ HandlerInv'
    BY <1>2 DEF TypeInv, CallInv, HandlerInv, vars, batcher, sending
  <2> QED
    BY <2>1, <2>2 DEF TypeInv
<1> QED
  BY <1>1, <1>2

\* Type correctness of the client, the network and the server's handler: the
\* batcher never holds max_batch events, the bus stays within its capacity,
\* the limiter never goes below zero, and send_batch stays within
\* max_attempts (batcher.rs, client.rs, http.rs, auth.rs).
THEOREM TypeCorrect == Spec => []TypeOK
<1>1. TypeInv => TypeOK
  BY DEF TypeInv
<1> QED
  BY <1>1, TypeInit, TypeNext, PTL DEF Spec

-----------------------------------------------------------------------------
(* What is stored                                                          *)

\* Rows differ in their ids, and an event that has an id of its own is stored
\* under it.
StoreInv ==
  /\ rows \subseteq [id : Id, event : Events]
  /\ \A r, s \in rows : r.id = s.id => r = s
  /\ \A r \in rows : r.event \in WithId => r.id = [own |-> TRUE, n |-> r.event]

\* Every step keeps the rows so.
LEMMA StoreNext == StoreInv /\ TypeInv /\ TypeInv' /\ [Next]_vars => StoreInv'
<1> SUFFICES ASSUME StoreInv, TypeInv, TypeInv', [Next]_vars PROVE StoreInv'
  OBVIOUS
<1>1. CASE Drain
  <2> DEFINE e == Head(bus).event
             new == [id |-> IdOf(e, taken + 1), event |-> e]
  <2>1. CASE rows' = rows
    BY <2>1 DEF StoreInv
  <2>2. CASE rows' = rows \cup {new} /\ ~ \E r \in rows : r.id = IdOf(e, taken + 1)
    <3>1. new.id = IdOf(e, taken + 1) /\ new.event = e
      OBVIOUS
    <3>2. new.event \in WithId => new.id = [own |-> TRUE, n |-> new.event]
      BY DEF IdOf
    <3>3. rows' \subseteq [id : Id, event : Events]
      BY DEF TypeInv, TypeOK
    <3> HIDE DEF new
    <3> QED
      BY <2>2, <3>1, <3>2, <3>3 DEF StoreInv
  <2> QED
    BY <1>1, <2>1, <2>2 DEF Drain
<1>2. CASE rows' = rows
  BY <1>2 DEF StoreInv
<1>3. Drain \/ rows' = rows
  BY DEF Next, vars, server, Enqueue, TryEnqueueFull, Close, Batcher, BatcherRecv,
         BatcherTick, BatcherClosed, quiet, SendBatch, Post, Exhausted, OnAnswer,
         NetworkError, Handler, Arrive, Send, SendFull, TurnAway, OtherPost, Replenish
<1> QED
  BY <1>1, <1>2, <1>3

\* An event with an id of its own is stored at most once, whatever is retried,
\* duplicated or late (client.rs, http.rs and INSERT OR IGNORE of the store).
THEOREM StoresOnce == Spec => []StoredOnce
<1>1. Init => StoreInv
  BY DEF Init, StoreInv
<1>2. StoreInv => StoredOnce
  <2> SUFFICES ASSUME StoreInv, NEW e \in WithId
               PROVE  Cardinality({r \in rows : r.event = e}) <= 1
    BY DEF StoredOnce
  <2> DEFINE S == {r \in rows : r.event = e}
  <2>1. ASSUME NEW r \in S, NEW s \in S PROVE r = s
    <3>1. /\ r \in rows /\ r.event = e /\ r.id = [own |-> TRUE, n |-> r.event]
          /\ s \in rows /\ s.event = e /\ s.id = [own |-> TRUE, n |-> s.event]
      BY DEF StoreInv
    <3>2. r.id = s.id
      BY <3>1, Zenon
    <3> QED
      BY <3>1, <3>2, Zenon DEF StoreInv
  <2> HIDE DEF S
  <2>2. Cardinality(S) <= 1
    <3>1. CASE S = {}
      BY <3>1, FS_EmptySet
    <3>2. CASE S # {}
      <4>1. PICK r \in S : TRUE
        BY <3>2
      <4>2. S = {r}
        BY <2>1, <4>1
      <4>3. Cardinality(S) = 1
        BY <4>2, FS_Singleton, Zenon
      <4> QED
        BY <4>3
    <3> QED
      BY <3>1, <3>2
  <2> QED
    BY <2>2 DEF S
<1> QED
  BY <1>1, <1>2, TypeInit, TypeNext, StoreNext, PTL DEF Spec

-----------------------------------------------------------------------------
(* Sequences in order                                                      *)

Increasing(s) == \A i, j \in 1 .. Len(s) : i < j => s[i] < s[j]

Below(s, t) == \A x \in Range(s), y \in Range(t) : x < y

\* The elements of a sequence.
LEMMA RangeFacts ==
  ASSUME NEW s \in Seq(Events)
  PROVE  /\ Range(s) \subseteq Events
         /\ \A x : x \in Range(s) <=> \E i \in 1 .. Len(s) : s[i] = x
         /\ s = <<>> <=> Range(s) = {}
BY DEF Range

\* Appending an element.
LEMMA AppendOrder ==
  ASSUME NEW s \in Seq(Events), NEW e \in Events
  PROVE  /\ Append(s, e) \in Seq(Events) /\ Append(s, e) # <<>>
         /\ Range(Append(s, e)) = Range(s) \cup {e}
         /\ Increasing(s) /\ (\A x \in Range(s) : x < e) => Increasing(Append(s, e))
<1> DEFINE t == Append(s, e)
<1>1. /\ t \in Seq(Events) /\ Len(t) = Len(s) + 1 /\ t[Len(s) + 1] = e
      /\ \A i \in 1 .. Len(s) : t[i] = s[i]
      /\ Len(s) \in Nat
  OBVIOUS
<1> HIDE DEF t
<1>2. t # <<>>
  BY <1>1
<1>3. Range(t) = Range(s) \cup {e}
  <2>1. ASSUME NEW x PROVE x \in Range(t) <=> x \in Range(s) \cup {e}
    <3>1. x \in Range(t) <=> \E i \in 1 .. Len(t) : t[i] = x
      BY <1>1, RangeFacts
    <3>2. x \in Range(s) <=> \E i \in 1 .. Len(s) : s[i] = x
      BY RangeFacts
    <3> QED
      BY <1>1, <3>1, <3>2
  <2> QED
    BY <2>1
<1>4. ASSUME Increasing(s), \A x \in Range(s) : x < e PROVE Increasing(t)
  <2>1. \A i \in 1 .. Len(s) : s[i] < e
    BY <1>4, RangeFacts
  <2> QED
    BY <1>1, <1>4, <2>1 DEF Increasing
<1> QED
  BY <1>1, <1>2, <1>3, <1>4 DEF t

\* Taking the first element.
LEMMA TailOrder ==
  ASSUME NEW s \in Seq(Events), s # <<>>
  PROVE  /\ Head(s) \in Events /\ Tail(s) \in Seq(Events)
         /\ Range(s) = {Head(s)} \cup Range(Tail(s))
         /\ Increasing(s) => Increasing(Tail(s)) /\ \A x \in Range(Tail(s)) : Head(s) < x
<1> DEFINE t == Tail(s)
<1>1. /\ t \in Seq(Events) /\ Len(t) = Len(s) - 1 /\ Head(s) = s[1] /\ Head(s) \in Events
      /\ \A i \in 1 .. Len(t) : t[i] = s[i + 1]
      /\ Len(s) \in Nat /\ Len(s) >= 1
  OBVIOUS
<1> HIDE DEF t
<1>2. Range(s) = {Head(s)} \cup Range(t)
  <2>1. ASSUME NEW x PROVE x \in Range(s) <=> x \in {Head(s)} \cup Range(t)
    <3>1. x \in Range(t) <=> \E i \in 1 .. Len(t) : t[i] = x
      BY <1>1, RangeFacts
    <3>2. x \in Range(s) <=> \E i \in 1 .. Len(s) : s[i] = x
      BY RangeFacts
    <3>3. ASSUME NEW i \in 1 .. Len(s), s[i] = x PROVE x = Head(s) \/ x \in Range(t)
      <4>1. i # 1 => i - 1 \in 1 .. Len(t) /\ t[i - 1] = s[i]
        BY <1>1
      <4> QED
        BY <1>1, <3>1, <3>3, <4>1
    <3>4. ASSUME NEW i \in 1 .. Len(t), t[i] = x PROVE x \in Range(s)
      <4>1. i + 1 \in 1 .. Len(s)
        BY <1>1
      <4> QED
        BY <1>1, <3>2, <3>4, <4>1
    <3>5. Head(s) \in Range(s)
      BY <1>1, RangeFacts
    <3> QED
      BY <3>1, <3>2, <3>3, <3>4, <3>5
  <2> QED
    BY <2>1
<1>3. ASSUME Increasing(s) PROVE Increasing(t) /\ \A x \in Range(t) : Head(s) < x
  <2>1. Increasing(t)
    BY <1>1, <1>3 DEF Increasing
  <2>2. \A i \in 1 .. Len(t) : Head(s) < t[i]
    BY <1>1, <1>3 DEF Increasing
  <2> QED
    BY <1>1, <2>1, <2>2, RangeFacts
<1> QED
  BY <1>1, <1>2, <1>3 DEF t

-----------------------------------------------------------------------------
(* What the client holds and has sent is in the producer's order           *)

Waiting == Range(batch) \cup Range(buf) \cup Range(queue)

\* The events whose outcome is open are those in the batch, the buffer and the
\* queue, and these hold them in the producer's order, without repetition.
QueueInv ==
  /\ Increasing(batch) /\ Increasing(buf) /\ Increasing(queue)
  /\ Below(batch, queue) /\ Below(buf, queue)
  /\ \A x \in Waiting : x <= given
  /\ \A e \in Events : outcome[e] = "queued" <=> e \in Waiting

Retryable == {"rate_limit", "bus_full", "503"}
Ev(n) == requests[n].events

\* A request's events come before what the client has not sent.  Two requests
\* with an event in common are attempts at one batch, and every attempt but
\* the last got an answer that asks for another.
RequestInv ==
  /\ \A n \in 1 .. Len(requests) :
       /\ Increasing(Ev(n)) /\ Below(Ev(n), buf) /\ Below(Ev(n), queue)
       /\ \A x \in Range(Ev(n)) : x <= given
       /\ batch # <<>> =>
            \/ Below(Ev(n), batch)
            \/ /\ Ev(n) = batch
               /\ \/ requests[n].reply \in Retryable
                  \/ n = Len(requests) /\ call = "wait"
  /\ \A m, n \in 1 .. Len(requests) : m < n =>
       \/ Below(Ev(m), Ev(n))
       \/ Ev(m) = Ev(n) /\ requests[m].reply \in Retryable

ClientInv == QueueInv /\ RequestInv

\* The producer hands over an event, or drops the Batcher.
LEMMA GiveOrder ==
  ASSUME TypeInv, ClientInv, Enqueue \/ TryEnqueueFull \/ Close
  PROVE  ClientInv'
<1> USE DeliveryAssumption
<1>0. /\ given \in Nat /\ queue \in Seq(Events) /\ Range(queue) \subseteq Events
      /\ outcome \in [Events -> {"new", "refused", "queued", "ok"} \cup Failure]
      /\ batch \in Seq(Events) /\ buf \in Seq(Events)
      /\ Range(batch) \subseteq Events /\ Range(buf) \subseteq Events
  BY RangeFacts DEF TypeInv, TypeOK
<1>r. \A n \in 1 .. Len(requests) : Range(Ev(n)) \subseteq Events
  BY RequestType, RangeFacts DEF Ev
<1> USE DEF ClientInv
<1>1. CASE Enqueue
  <2>1. /\ given + 1 \in Events /\ given' = given + 1 /\ queue' = Append(queue, given + 1)
        /\ outcome' = [outcome EXCEPT ![given + 1] = "queued"]
        /\ UNCHANGED <<batch, buf, requests, call>>
    BY <1>0, <1>1 DEF Enqueue, TypeInv, TypeOK, Events, sending
  <2>2. Range(queue') = Range(queue) \cup {given + 1}
    BY <1>0, <2>1, AppendOrder
  <2>3. \A x \in Waiting : x < given + 1
    BY <1>0 DEF QueueInv, Waiting, Events
  <2>4. Waiting' = Waiting \cup {given + 1}
    BY <2>1, <2>2 DEF Waiting
  <2>5. Increasing(queue')
    BY <1>0, <2>1, <2>3, AppendOrder DEF QueueInv, Waiting
  <2>6. Below(batch, queue') /\ Below(buf, queue')
    BY <2>2, <2>3 DEF QueueInv, Below, Waiting
  <2>7. \A x \in Waiting' : x <= given'
    BY <1>0, <2>1, <2>3, <2>4 DEF Waiting, Events
  <2>8. \A e \in Events : outcome'[e] = "queued" <=> e \in Waiting'
    BY <1>0, <2>1, <2>3, <2>4 DEF QueueInv
  <2>9. QueueInv'
    BY <2>1, <2>5, <2>6, <2>7, <2>8 DEF QueueInv
  <2>10. ASSUME NEW n \in 1 .. Len(requests)
         PROVE  Below(Ev(n), queue') /\ \A x \in Range(Ev(n)) : x <= given'
    BY <1>0, <1>r, <2>1, <2>2 DEF RequestInv, Below, Events
  <2>11. RequestInv'
    BY <2>1, <2>10 DEF RequestInv, Ev
  <2> QED
    BY <2>9, <2>11
<1>2. CASE TryEnqueueFull
  <2>1. /\ given + 1 \in Events /\ given' = given + 1
        /\ outcome' = [outcome EXCEPT ![given + 1] = "refused"]
        /\ UNCHANGED <<batch, buf, queue, requests, call>>
    BY <1>0, <1>2 DEF TryEnqueueFull, TypeInv, TypeOK, Events, sending
  <2>2. \A x \in Waiting : x < given + 1 /\ x <= given + 1
    BY <1>0 DEF QueueInv, Waiting, Events
  <2>3. Waiting' = Waiting
    BY <2>1 DEF Waiting
  <2>4. \A e \in Events : outcome'[e] = "queued" <=> e \in Waiting'
    BY <1>0, <2>1, <2>2, <2>3 DEF QueueInv
  <2>5. QueueInv'
    BY <2>1, <2>2, <2>3, <2>4 DEF QueueInv
  <2>6. ASSUME NEW n \in 1 .. Len(requests) PROVE \A x \in Range(Ev(n)) : x <= given'
    BY <1>0, <1>r, <2>1 DEF RequestInv, Events
  <2>7. RequestInv'
    BY <2>1, <2>6 DEF RequestInv, Ev
  <2> QED
    BY <2>5, <2>7
<1>3. CASE Close
  BY <1>3 DEF Close, sending, QueueInv, RequestInv, Waiting, Ev
<1> QED
  BY <1>1, <1>2, <1>3

\* flush, of events that are all that was in the batcher's hands.
LEMMA FlushOrder ==
  ASSUME TypeInv, ClientInv, task = "recv", UNCHANGED quiet,
         NEW events \in Seq(Events), NEW then, Flush(events, then), Increasing(events),
         queue' \in Seq(Events), Increasing(queue'), Below(events, queue'),
         Range(events) \cup Range(queue') = Range(buf) \cup Range(queue)
  PROVE  ClientInv'
<1> USE DEF ClientInv
<1>1. /\ batch = <<>> /\ Range(batch) = {} /\ batch' = events /\ buf' = <<>> /\ Range(<<>>) = {}
      /\ UNCHANGED <<given, outcome, requests>>
  BY RangeFacts DEF TypeInv, TypeOK, CallInv, Flush, quiet
<1>2. Waiting' = Waiting
  BY <1>1 DEF Waiting
<1>3. QueueInv'
  BY <1>1, <1>2 DEF QueueInv, Below, Increasing
<1>4. ASSUME NEW n \in 1 .. Len(requests) PROVE Below(Ev(n), events) /\ Below(Ev(n), queue')
  BY DEF RequestInv, Below
<1>5. Below(<<>>, <<>>) /\ \A n \in 1 .. Len(requests) : Below(Ev(n), <<>>)
  BY <1>1 DEF Below
<1>6. RequestInv'
  BY <1>1, <1>4, <1>5 DEF RequestInv, Ev
<1> QED
  BY <1>3, <1>6

\* The arms of the batcher's loop.
LEMMA BatcherOrder ==
  ASSUME TypeInv, ClientInv, Batcher
  PROVE  ClientInv'
<1> USE DEF ClientInv
<1>0. /\ queue \in Seq(Events) /\ buf \in Seq(Events) /\ batch \in Seq(Events)
      /\ task = "recv" => batch = <<>> /\ Range(batch) = {}
  BY RangeFacts DEF TypeInv, TypeOK, CallInv
<1>1. CASE BatcherRecv
  <2> DEFINE events == Append(buf, Head(queue))
  <2>1. /\ task = "recv" /\ queue # <<>> /\ queue' = Tail(queue) /\ UNCHANGED quiet
    BY <1>1 DEF BatcherRecv
  <2>2. /\ Head(queue) \in Events /\ queue' \in Seq(Events) /\ Increasing(queue')
        /\ Range(queue) = {Head(queue)} \cup Range(queue')
        /\ \A x \in Range(queue') : Head(queue) < x
    BY <1>0, <2>1, TailOrder DEF QueueInv
  <2>3. /\ events \in Seq(Events) /\ Increasing(events)
        /\ Range(events) = Range(buf) \cup {Head(queue)}
    BY <1>0, <2>2, AppendOrder DEF QueueInv, Below
  <2> HIDE DEF events
  <2>4. Range(events) \cup Range(queue') = Range(buf) \cup Range(queue)
    BY <2>2, <2>3
  <2>5. Below(events, queue')
    BY <2>2, <2>3 DEF QueueInv, Below
  <2>6. CASE Flush(events, "flush")
    BY <2>1, <2>2, <2>3, <2>4, <2>5, <2>6, FlushOrder
  <2>7. CASE buf' = events /\ UNCHANGED <<task, sending>>
    <3>1. /\ UNCHANGED <<batch, given, outcome, requests, call>> /\ batch = <<>> /\ Range(batch) = {}
      BY <1>0, <2>1, <2>7 DEF quiet, sending
    <3>2. Waiting' = Waiting
      BY <2>4, <2>7, <3>1 DEF Waiting
    <3>3. QueueInv'
      BY <2>2, <2>3, <2>5, <2>7, <3>1, <3>2 DEF QueueInv, Below
    <3>4. ASSUME NEW n \in 1 .. Len(requests) PROVE Below(Ev(n), events) /\ Below(Ev(n), queue')
      BY <2>4 DEF RequestInv, Below
    <3>5. RequestInv'
      BY <2>7, <3>1, <3>4 DEF RequestInv, Ev
    <3> QED
      BY <3>3, <3>5
  <2> QED
    BY <1>1, <2>6, <2>7 DEF BatcherRecv, events
<1>2. CASE BatcherTick
  BY <1>0, <1>2, FlushOrder DEF BatcherTick, QueueInv
<1>3. CASE BatcherClosed
  <2>1. CASE Flush(buf, "last")
    BY <1>0, <1>3, <2>1, FlushOrder DEF BatcherClosed, QueueInv
  <2>2. CASE UNCHANGED <<buf, sending>>
    BY <1>3, <2>2 DEF BatcherClosed, quiet, sending, QueueInv, RequestInv, Waiting, Ev
  <2> QED
    BY <1>3, <2>1, <2>2 DEF BatcherClosed
<1> QED
  BY <1>1, <1>2, <1>3 DEF Batcher

\* A batch that goes out comes after every earlier one, or is tried again.
LEMMA PostOrder ==
  ASSUME TypeInv, TypeInv', ClientInv, Post
  PROVE  ClientInv'
<1> USE DEF ClientInv
<1> DEFINE last == Len(requests) + 1
<1>1. /\ UNCHANGED <<batch, buf, queue, given, outcome>> /\ call = "post" /\ call' = "wait"
      /\ batch # <<>> /\ requests' = Append(requests, [events |-> batch, reply |-> NoAnswer])
  BY DEF Post, batcher, TypeInv, CallInv
<1>2. /\ Len(requests') = last /\ Len(requests) \in Nat /\ requests'[last].events = batch
      /\ \A n \in 1 .. Len(requests) : requests'[n] = requests[n]
  BY <1>1, RequestType
<1>3. QueueInv'
  BY <1>1 DEF QueueInv, Waiting
<1>4. /\ Increasing(batch) /\ Below(batch, buf) /\ Below(batch, queue)
      /\ \A x \in Range(batch) : x <= given
  <2>1. buf = <<>> /\ Range(buf) = {}
    BY <1>1, RangeFacts DEF TypeInv, TypeOK, CallInv
  <2> QED
    BY <2>1 DEF QueueInv, Below, Waiting
<1>5. \A n \in 1 .. Len(requests) :
        Below(Ev(n), batch) \/ (Ev(n) = batch /\ requests[n].reply \in Retryable)
  <2> SUFFICES ASSUME NEW n \in 1 .. Len(requests)
               PROVE  Below(Ev(n), batch) \/ (Ev(n) = batch /\ requests[n].reply \in Retryable)
    OBVIOUS
  <2>1. \/ Below(Ev(n), batch)
        \/ Ev(n) = batch /\ (requests[n].reply \in Retryable \/ call = "wait")
    BY <1>1 DEF RequestInv
  <2> QED
    BY <1>1, <2>1
<1>6. ASSUME NEW n \in 1 .. last
      PROVE  /\ Increasing(Ev(n)') /\ Below(Ev(n)', buf') /\ Below(Ev(n)', queue')
             /\ \A x \in Range(Ev(n)') : x <= given'
             /\ \/ Below(Ev(n)', batch')
                \/ Ev(n)' = batch' /\ (requests'[n].reply \in Retryable \/ n = last)
  <2>1. CASE n = last
    BY <1>1, <1>2, <1>4, <2>1 DEF Ev
  <2>2. CASE n # last
    <3>1. n \in 1 .. Len(requests)
      BY <1>2, <2>2
    <3>2. Ev(n)' = Ev(n) /\ requests'[n].reply = requests[n].reply
      BY <1>2, <3>1 DEF Ev
    <3> QED
      BY <1>1, <1>5, <3>1, <3>2 DEF RequestInv
  <2> QED
    BY <2>1, <2>2
<1>7. ASSUME NEW m \in 1 .. last, NEW n \in 1 .. last, m < n
      PROVE  Below(Ev(m)', Ev(n)') \/ (Ev(m)' = Ev(n)' /\ requests'[m].reply \in Retryable)
  <2>1. m \in 1 .. Len(requests)
    BY <1>2, <1>7
  <2>a. Ev(m)' = Ev(m) /\ requests'[m].reply = requests[m].reply
    BY <1>2, <2>1 DEF Ev
  <2>2. CASE n = last
    <3>1. Ev(n)' = batch
      BY <1>2, <2>2 DEF Ev
    <3> QED
      BY <1>5, <2>1, <2>a, <3>1
  <2>3. CASE n # last
    <3>1. n \in 1 .. Len(requests)
      BY <1>2, <2>3
    <3>2. Ev(n)' = Ev(n)
      BY <1>2, <3>1 DEF Ev
    <3> QED
      BY <1>7, <2>1, <2>a, <3>1, <3>2 DEF RequestInv
  <2> QED
    BY <2>2, <2>3
<1>8. RequestInv'
  BY <1>1, <1>2, <1>6, <1>7 DEF RequestInv
<1> QED
  BY <1>3, <1>8

\* send_batch returns: the batch is done with, one way or another.
LEMMA ReturnOrder ==
  ASSUME TypeInv, ClientInv, NEW result \in {"ok"} \cup Failure, Return(result),
         call # "idle", UNCHANGED requests
  PROVE  ClientInv'
<1> USE DEF ClientInv
<1>1. /\ batch' = <<>> /\ UNCHANGED <<buf, queue, given>>
      /\ \A e \in Events : outcome'[e] = IF e \in Range(batch) THEN result ELSE outcome[e]
  BY DEF Return, Range
<1>2. /\ batch \in Seq(Events) /\ Range(batch') = {} /\ buf = <<>> /\ Range(buf) = {}
      /\ queue \in Seq(Events) /\ Range(batch) \subseteq Events
  BY <1>1, RangeFacts DEF TypeInv, TypeOK, CallInv
<1>3. \A e \in Range(batch) : e \notin Range(queue)
  BY <1>2 DEF QueueInv, Below, Events
<1>4. Waiting' = Range(queue) /\ Waiting = Range(batch) \cup Range(queue)
  BY <1>1, <1>2 DEF Waiting
<1>5. result # "queued"
  BY DEF Failure
<1>6. \A e \in Events : outcome'[e] = "queued" <=> e \in Waiting'
  BY <1>1, <1>3, <1>4, <1>5 DEF QueueInv
<1>7. QueueInv'
  BY <1>1, <1>2, <1>4, <1>6 DEF QueueInv, Increasing, Below
<1>8. RequestInv'
  BY <1>1 DEF RequestInv, Ev
<1> QED
  BY <1>7, <1>8

\* Steps of the server: requests stay what they are, and an answer once given
\* stays.
SameRequests ==
  /\ Len(requests') = Len(requests)
  /\ \A n \in 1 .. Len(requests) :
       /\ requests'[n].events = requests[n].events
       /\ requests[n].reply # NoAnswer => requests'[n].reply = requests[n].reply

LEMMA ServerOrder ==
  ASSUME ClientInv, SameRequests, UNCHANGED <<batch, buf, queue, given, outcome, call>>
  PROVE  ClientInv'
<1>1. QueueInv'
  BY DEF ClientInv, QueueInv, Waiting
<1>2. RequestInv'
  BY DEF ClientInv, RequestInv, SameRequests, Ev, Retryable, NoAnswer
<1> QED
  BY <1>1, <1>2 DEF ClientInv

\* What the client does with an answer.
LEMMA SendBatchOrder ==
  ASSUME TypeInv, TypeInv', ClientInv, SendBatch \/ NetworkError
  PROVE  ClientInv'
<1>1. CASE Post
  BY <1>1, PostOrder
<1>2. CASE Exhausted
  BY <1>2, ReturnOrder DEF Exhausted, Failure
<1>3. CASE OnAnswer
  <2> DEFINE v == Verdict(answer, attempt + 1 < maxAttempts)
  <2>1. answer \in Reply /\ (attempt + 1 < maxAttempts) \in BOOLEAN /\ call = "wait"
    BY <1>3 DEF OnAnswer, TypeInv, TypeOK
  <2>2. /\ v \in {"ok", "retry"} \cup Failure /\ (v = "retry" => answer \in Retryable)
    BY <2>1, VerdictType DEF Retryable
  <2>3. CASE v # "retry"
    BY <1>3, <2>2, <2>3, ReturnOrder DEF OnAnswer
  <2>4. CASE v = "retry"
    <3>1. /\ UNCHANGED <<batch, buf, queue, given, outcome, requests>>
      BY <1>3, <2>4 DEF OnAnswer, batcher
    <3>2. requests[Len(requests)].reply \in Retryable
      BY <2>1, <2>2, <2>4 DEF TypeInv, CallInv
    <3>3. QueueInv'
      BY <3>1 DEF ClientInv, QueueInv, Waiting
    <3>4. RequestInv'
      BY <3>1, <3>2 DEF ClientInv, RequestInv, Ev
    <3> QED
      BY <3>3, <3>4 DEF ClientInv
  <2> QED
    BY <2>3, <2>4
<1>4. CASE NetworkError
  BY <1>4, ReturnOrder DEF NetworkError, Failure
<1> QED
  BY <1>1, <1>2, <1>3, <1>4 DEF SendBatch

-----------------------------------------------------------------------------
(* What the server has enqueued                                            *)

\* What is enqueued came from a request that has no answer yet, or that was
\* accepted or found the bus full; while it is handled, it came from the part
\* its handler is through with.
LogInv ==
  \A i \in 1 .. Len(log) :
    /\ log[i].no \in 1 .. Len(requests)
    /\ log[i].event \in Range(Ev(log[i].no))
    /\ requests[log[i].no].reply \in {NoAnswer, "ok", "bus_full"}
    /\ \A h \in handlers : h.no = log[i].no =>
         h.in = TRUE /\ \E k \in 1 .. h.at : log[i].event = Ev(h.no)[k]

\* A request is answered 200 when all its events have been enqueued, and a
\* handler is through with what has been.
AckInv ==
  /\ \A n \in 1 .. Len(requests) :
       requests[n].reply = "ok" => \A k \in 1 .. Len(Ev(n)) : OnBus(Ev(n)[k])
  /\ \A h \in handlers : \A k \in 1 .. h.at : OnBus(Ev(h.no)[k])

ServerInv == LogInv /\ AckInv

\* The request is rejected at the door, or gives up at a full bus.
LEMMA RespondLog ==
  ASSUME TypeInv, ServerInv, NEW h \in handlers, NEW reply \in Reply, Respond(h, reply),
         reply = "bus_full" \/ (~h.in /\ reply # "ok"), UNCHANGED log
  PROVE  ServerInv'
<1> USE DEF ServerInv
<1>1. /\ Len(requests') = Len(requests) /\ handlers' = handlers \ {h}
      /\ requests'[h.no] = [events |-> requests[h.no].events, reply |-> reply]
      /\ \A n \in 1 .. Len(requests) : n # h.no => requests'[n].reply = requests[n].reply
      /\ \A n \in 1 .. Len(requests) : requests'[n].events = requests[n].events
  BY RespondType
<1>2. requests'[h.no].reply = reply
  BY <1>1
<1>3. \A g \in handlers : g.no \in 1 .. Len(requests)
  BY DEF TypeInv, HandlerInv
<1>4. ASSUME NEW i \in 1 .. Len(log)
      PROVE  requests'[log[i].no].reply \in {NoAnswer, "ok", "bus_full"}
  <2>1. CASE log[i].no = h.no
    BY <1>2, <2>1 DEF LogInv
  <2>2. CASE log[i].no # h.no
    BY <1>1, <2>2 DEF LogInv
  <2> QED
    BY <2>1, <2>2
<1>5. LogInv'
  <2>1. ASSUME NEW i \in 1 .. Len(log), NEW g \in handlers', g.no = log[i].no
        PROVE  g.in = TRUE /\ \E k \in 1 .. g.at : log[i].event = requests'[g.no].events[k]
    <3>1. g \in handlers /\ requests'[g.no].events = Ev(g.no)
      BY <1>1, <1>3 DEF Ev
    <3> QED
      BY <2>1, <3>1 DEF LogInv
  <2>2. ASSUME NEW i \in 1 .. Len(log)
        PROVE  /\ log[i].no \in 1 .. Len(requests')
               /\ log[i].event \in Range(requests'[log[i].no].events)
    <3>1. log[i].no \in 1 .. Len(requests) /\ log[i].event \in Range(Ev(log[i].no))
      BY DEF LogInv
    <3> QED
      BY <1>1, <3>1 DEF Ev
  <2> QED
    BY <1>4, <2>1, <2>2, ZenonT(30) DEF LogInv, Ev
<1>6. AckInv'
  <2>1. \A x : OnBus(x)' <=> OnBus(x)
    BY DEF OnBus
  <2>2. ASSUME NEW n \in 1 .. Len(requests), requests'[n].reply = "ok",
               NEW k \in 1 .. Len(requests'[n].events)
        PROVE  OnBus(requests'[n].events[k])
    <3>1. n # h.no
      BY <1>2, <2>2
    <3>2. requests[n].reply = "ok" /\ requests'[n].events = Ev(n)
      BY <1>1, <2>2, <3>1 DEF Ev
    <3> QED
      BY <2>2, <3>2 DEF AckInv
  <2>3. ASSUME NEW g \in handlers', NEW k \in 1 .. g.at
        PROVE  OnBus(requests'[g.no].events[k])
    <3>1. g \in handlers /\ requests'[g.no].events = Ev(g.no)
      BY <1>1, <1>3 DEF Ev
    <3> QED
      BY <3>1 DEF AckInv
  <2> QED
    BY <1>1, <2>1, <2>2, <2>3 DEF AckInv, Ev
<1> QED
  BY <1>5, <1>6

\* The request is admitted.
LEMMA AdmitLog ==
  ASSUME TypeInv, ServerInv, NEW h \in handlers, ~h.in,
         handlers' = (handlers \ {h}) \cup {[h EXCEPT !.in = TRUE]},
         UNCHANGED <<requests, log>>
  PROVE  ServerInv'
<1> USE DEF ServerInv
<1> DEFINE g == [h EXCEPT !.in = TRUE]
<1>1. g.no = h.no /\ g.at = h.at /\ handlers' = (handlers \ {h}) \cup {g}
  BY DEF TypeInv, HandlerInv, Handlers
<1> HIDE DEF g
<1>2. \A i \in 1 .. Len(log) : log[i].no # h.no
  BY DEF LogInv
<1>3. LogInv'
  BY <1>1, <1>2 DEF LogInv, Ev
<1>4. AckInv'
  BY <1>1 DEF AckInv, OnBus, Ev
<1> QED
  BY <1>3, <1>4

\* An event is enqueued.
LEMMA SendLog ==
  ASSUME TypeInv, TypeInv', ServerInv, NEW h \in handlers, Send(h)
  PROVE  ServerInv'
<1> USE DEF ServerInv
<1> DEFINE e == Ev(h.no)[h.at + 1]
           env == [event |-> e, no |-> h.no]
<1>0. /\ h \in Handlers /\ h.no \in 1 .. Len(requests) /\ h.at < Len(Ev(h.no)) /\ h.at \in Nat
      /\ Ev(h.no) \in Seq(Events) /\ Len(Ev(h.no)) \in Nat
      /\ requests[h.no].reply = NoAnswer
  BY RequestType DEF TypeInv, HandlerInv, Ev, Handlers
<1>1. h.in = TRUE /\ log' = Append(log, env)
  BY <1>0 DEF Send, Ev, Handlers
<1>2. log \in Seq(Envelope) /\ env \in Envelope /\ env.event = e /\ env.no = h.no
  <2>1. e \in Events /\ h.no \in Nat \ {0}
    BY <1>0
  <2> QED
    BY <2>1 DEF TypeInv, TypeOK, Envelope
<1> HIDE DEF env
<1>3. /\ Len(log') = Len(log) + 1 /\ Len(log) \in Nat /\ log'[Len(log) + 1] = env
      /\ \A i \in 1 .. Len(log) : log'[i] = log[i]
  BY <1>1, <1>2
<1>4. \A x : OnBus(x) \/ x = e => OnBus(x)'
  <2>1. DOMAIN log = 1 .. Len(log) /\ DOMAIN log' = 1 .. Len(log) + 1
    BY <1>1, <1>2
  <2> QED
    BY <1>2, <1>3, <2>1 DEF OnBus
<1>5. e \in Range(Ev(h.no))
  BY <1>0, RangeFacts
<1>6. \A g \in handlers : g # h => g.no # h.no
  BY DEF TypeInv, HandlerInv
<1>7. CASE h.at + 1 = Len(Ev(h.no)) /\ Respond(h, "ok")
  <2>1. /\ Len(requests') = Len(requests) /\ handlers' = handlers \ {h}
        /\ requests'[h.no] = [events |-> requests[h.no].events, reply |-> "ok"]
        /\ \A n \in 1 .. Len(requests) : n # h.no => requests'[n].reply = requests[n].reply
        /\ \A n \in 1 .. Len(requests) : requests'[n].events = Ev(n)
    BY <1>7, RespondType DEF Ev, Reply
  <2>2. requests'[h.no].reply = "ok"
    BY <2>1
  <2>3. ASSUME NEW i \in 1 .. Len(log')
        PROVE  /\ log'[i].no \in 1 .. Len(requests')
               /\ log'[i].event \in Range(requests'[log'[i].no].events)
               /\ requests'[log'[i].no].reply \in {NoAnswer, "ok", "bus_full"}
               /\ \A g \in handlers' : g.no = log'[i].no =>
                    g.in = TRUE /\ \E k \in 1 .. g.at : log'[i].event = requests'[g.no].events[k]
    <3>1. CASE i = Len(log) + 1
      BY <1>0, <1>2, <1>3, <1>5, <1>6, <2>1, <2>2, <3>1
    <3>2. CASE i # Len(log) + 1
      <4>1. i \in 1 .. Len(log) /\ log'[i] = log[i]
        BY <1>3, <3>2
      <4>2. \A g \in handlers : g.no \in 1 .. Len(requests)
        BY DEF TypeInv, HandlerInv
      <4>3. requests'[log[i].no].reply \in {NoAnswer, "ok", "bus_full"}
        BY <2>1, <2>2, <4>1 DEF LogInv
      <4>4. ASSUME NEW g \in handlers', g.no = log[i].no
            PROVE  g.in = TRUE /\ \E k \in 1 .. g.at : log[i].event = requests'[g.no].events[k]
        <5>1. g \in handlers /\ requests'[g.no].events = Ev(g.no)
          BY <2>1, <4>2
        <5> QED
          BY <4>1, <4>4, <5>1 DEF LogInv
      <4>5. log[i].no \in 1 .. Len(requests) /\ log[i].event \in Range(Ev(log[i].no))
        BY <4>1 DEF LogInv
      <4> QED
        BY <2>1, <4>1, <4>3, <4>4, <4>5, ZenonT(30)
    <3> QED
      BY <3>1, <3>2
  <2>4. LogInv'
    BY <2>3 DEF LogInv, Ev
  <2>5. ASSUME NEW k \in 1 .. Len(Ev(h.no)), NEW x, x = Ev(h.no)[k] PROVE OnBus(x)'
    BY <1>0, <1>4, <1>7, <2>5 DEF AckInv
  <2>6. AckInv'
    <3>1. ASSUME NEW n \in 1 .. Len(requests'), requests'[n].reply = "ok",
                 NEW k \in 1 .. Len(requests'[n].events),
                 NEW x, x = requests'[n].events[k]
          PROVE  OnBus(x)'
      <4>1. CASE n = h.no
        BY <1>0, <2>1, <2>5, <3>1, <4>1
      <4>2. CASE n # h.no
        BY <1>4, <2>1, <3>1, <4>2 DEF AckInv
      <4> QED
        BY <4>1, <4>2
    <3>2. ASSUME NEW g \in handlers', NEW k \in 1 .. g.at,
                 NEW x, x = requests'[g.no].events[k]
          PROVE  OnBus(x)'
      <4>1. g \in handlers /\ g.no \in 1 .. Len(requests)
        BY <2>1 DEF TypeInv, HandlerInv
      <4> QED
        BY <1>4, <2>1, <3>2, <4>1 DEF AckInv
    <3> QED
      BY <3>1, <3>2 DEF AckInv, Ev
  <2> QED
    BY <2>4, <2>6
<1>8. CASE h.at + 1 # Len(Ev(h.no)) /\ UNCHANGED requests
           /\ handlers' = (handlers \ {h}) \cup {[h EXCEPT !.at = @ + 1]}
  <2> DEFINE g == [h EXCEPT !.at = @ + 1]
  <2>1. g.no = h.no /\ g.at = h.at + 1 /\ g.in = h.in /\ handlers' = (handlers \ {h}) \cup {g}
    BY <1>0, <1>8 DEF Handlers
  <2> HIDE DEF g
  <2>2. \A n : requests'[n].events = Ev(n)
    BY <1>8 DEF Ev
  <2>3. ASSUME NEW i \in 1 .. Len(log')
        PROVE  /\ log'[i].no \in 1 .. Len(requests')
               /\ log'[i].event \in Range(requests'[log'[i].no].events)
               /\ requests'[log'[i].no].reply \in {NoAnswer, "ok", "bus_full"}
               /\ \A f \in handlers' : f.no = log'[i].no =>
                    f.in = TRUE /\ \E k \in 1 .. f.at : log'[i].event = requests'[f.no].events[k]
    <3>1. CASE i = Len(log) + 1
      <4>1. log'[i].event = e /\ log'[i].no = h.no
        BY <1>2, <1>3, <3>1
      <4>2. ASSUME NEW f \in handlers', f.no = h.no
            PROVE  f.in = TRUE /\ \E k \in 1 .. f.at : e = Ev(f.no)[k]
        <5>1. f = g
          BY <1>6, <2>1, <4>2
        <5>2. h.at + 1 \in 1 .. f.at /\ f.in = TRUE /\ f.no = h.no
          BY <1>0, <1>1, <2>1, <5>1
        <5> QED
          BY <5>2
      <4> QED
        BY <1>0, <1>5, <1>8, <2>2, <4>1, <4>2, ZenonT(30)
    <3>2. CASE i # Len(log) + 1
      <4>1. i \in 1 .. Len(log) /\ log'[i] = log[i]
        BY <1>3, <3>2
      <4>2. /\ log[i].no \in 1 .. Len(requests) /\ log[i].event \in Range(Ev(log[i].no))
            /\ requests[log[i].no].reply \in {NoAnswer, "ok", "bus_full"}
            /\ \A f \in handlers : f.no = log[i].no =>
                 f.in = TRUE /\ \E k \in 1 .. f.at : log[i].event = Ev(f.no)[k]
        BY <4>1 DEF LogInv
      <4>3. g.no = log[i].no => g.in = TRUE /\ \E k \in 1 .. g.at : log[i].event = Ev(g.no)[k]
        <5> SUFFICES ASSUME g.no = log[i].no
                     PROVE  g.in = TRUE /\ \E k \in 1 .. g.at : log[i].event = Ev(g.no)[k]
          OBVIOUS
        <5>1. PICK k \in 1 .. h.at : log[i].event = Ev(h.no)[k]
          BY <2>1, <4>2
        <5>2. k \in 1 .. g.at
          BY <1>0, <2>1
        <5> QED
          BY <1>1, <2>1, <5>1, <5>2
      <4> QED
        BY <1>8, <2>1, <2>2, <4>1, <4>2, <4>3
    <3> QED
      BY <3>1, <3>2
  <2>4. LogInv'
    BY <2>3 DEF LogInv, Ev
  <2>5. ASSUME NEW f \in handlers', NEW k \in 1 .. f.at,
               NEW x, x = requests'[f.no].events[k]
        PROVE  OnBus(x)'
    <3>1. CASE f = g
      BY <1>0, <1>4, <2>1, <2>2, <2>5, <3>1, SMTT(30) DEF AckInv
    <3>2. CASE f # g
      BY <1>4, <2>1, <2>2, <2>5, <3>2 DEF AckInv
    <3> QED
      BY <3>1, <3>2
  <2>6. AckInv'
    BY <1>4, <1>8, <2>2, <2>5 DEF AckInv, Ev
  <2> QED
    BY <2>4, <2>6
<1> QED
  BY <1>7, <1>8 DEF Send, Ev

\* A step that enqueues nothing and handles no request.
LEMMA ClientLog ==
  ASSUME ServerInv, handlers' \subseteq handlers, UNCHANGED <<requests, log>>
  PROVE  ServerInv'
<1>1. LogInv'
  BY DEF ServerInv, LogInv, Ev
<1>2. AckInv'
  BY DEF ServerInv, AckInv, OnBus, Ev
<1> QED
  BY <1>1, <1>2 DEF ServerInv

\* A request goes out: nothing of it is enqueued yet.
LEMMA PostLog ==
  ASSUME TypeInv, ServerInv, Post
  PROVE  ServerInv'
<1> USE DEF ServerInv
<1> DEFINE new == [events |-> batch, reply |-> NoAnswer]
           g == [no |-> Len(requests) + 1, at |-> 0, in |-> FALSE]
<1>1. requests' = Append(requests, new) /\ UNCHANGED log /\ new \in Requests /\ new.reply = NoAnswer
  BY DEF Post, TypeInv, TypeOK, Requests
<1> HIDE DEF new
<1>2. /\ Len(requests') = Len(requests) + 1 /\ Len(requests) \in Nat
      /\ requests'[Len(requests) + 1] = new
      /\ \A n \in 1 .. Len(requests) : requests'[n] = requests[n]
  BY <1>1, RequestType
<1>3. handlers' = handlers \cup {g} /\ g.no = Len(requests) + 1 /\ g.at = 0
  BY <1>2 DEF Post
<1> HIDE DEF g
<1>4. \A h \in handlers : h.no \in 1 .. Len(requests)
  BY DEF TypeInv, HandlerInv
<1>5. LogInv'
  <2>1. ASSUME NEW i \in 1 .. Len(log)
        PROVE  /\ log[i].no \in 1 .. Len(requests) + 1
               /\ log[i].event \in Range(requests'[log[i].no].events)
               /\ requests'[log[i].no].reply \in {NoAnswer, "ok", "bus_full"}
    <3>1. /\ log[i].no \in 1 .. Len(requests) /\ log[i].event \in Range(Ev(log[i].no))
          /\ requests[log[i].no].reply \in {NoAnswer, "ok", "bus_full"}
      BY DEF LogInv
    <3> QED
      BY <1>2, <3>1 DEF Ev
  <2>2. ASSUME NEW i \in 1 .. Len(log), NEW h \in handlers', h.no = log[i].no
        PROVE  h.in = TRUE /\ \E k \in 1 .. h.at : log[i].event = requests'[h.no].events[k]
    <3>1. log[i].no \in 1 .. Len(requests)
      BY DEF LogInv
    <3>2. h \in handlers
      BY <1>2, <1>3, <2>2, <3>1
    <3>3. requests'[h.no].events = Ev(h.no)
      BY <1>2, <1>4, <3>2 DEF Ev
    <3> QED
      BY <2>2, <3>2, <3>3 DEF LogInv
  <2> QED
    BY <1>1, <1>2, <2>1, <2>2, ZenonT(30) DEF LogInv, Ev
<1>6. AckInv'
  <2>1. \A x : OnBus(x)' <=> OnBus(x)
    BY <1>1 DEF OnBus
  <2>2. ASSUME NEW n \in 1 .. Len(requests'), requests'[n].reply = "ok",
               NEW k \in 1 .. Len(requests'[n].events)
        PROVE  OnBus(requests'[n].events[k])
    <3>1. n \in 1 .. Len(requests)
      BY <1>1, <1>2, <2>2 DEF NoAnswer
    <3> QED
      BY <1>2, <2>2, <3>1 DEF AckInv, Ev
  <2>3. ASSUME NEW h \in handlers', NEW k \in 1 .. h.at
        PROVE  OnBus(requests'[h.no].events[k])
    <3>1. h \in handlers
      BY <1>3, <2>3
    <3> QED
      BY <1>2, <1>4, <3>1 DEF AckInv, Ev
  <2> QED
    BY <2>1, <2>2, <2>3 DEF AckInv, Ev
<1> QED
  BY <1>5, <1>6

\* A request keeps its events and, once it has one, its answer.
LEMMA RequestsKept ==
  ASSUME TypeInv, [Next]_vars
  PROVE  /\ Len(requests') >= Len(requests)
         /\ \A n \in 1 .. Len(requests) :
              /\ requests'[n].events = requests[n].events
              /\ requests[n].reply # NoAnswer => requests'[n].reply = requests[n].reply
         /\ ~Post => SameRequests
<1>1. CASE Post
  <2>1. \E r : requests' = Append(requests, r)
    BY <1>1 DEF Post
  <2> QED
    BY <1>1, <2>1, RequestType
<1>2. ASSUME NEW h \in handlers, NEW reply \in Reply, Respond(h, reply) PROVE SameRequests
  <2>1. requests[h.no].reply = NoAnswer
    BY DEF TypeInv, HandlerInv
  <2> QED
    BY <1>2, <2>1, RespondType DEF SameRequests
<1>3. CASE UNCHANGED requests
  BY <1>3, RequestType DEF SameRequests
<1>4. \/ Post \/ UNCHANGED requests
      \/ \E h \in handlers, reply \in Reply : Respond(h, reply)
  <2>1. ASSUME NEW h \in handlers, Handler(h) \/ TurnAway(h)
        PROVE  UNCHANGED requests \/ \E reply \in Reply : Respond(h, reply)
    <3>1. CASE Arrive(h)
      BY <3>1, AdmissionType DEF Arrive, Reply
    <3>2. CASE Send(h)
      BY <3>2 DEF Send, Reply
    <3>3. CASE SendFull(h)
      BY <3>3 DEF SendFull, Reply
    <3>4. CASE TurnAway(h)
      BY <3>4 DEF TurnAway, Reply
    <3> QED
      BY <2>1, <3>1, <3>2, <3>3, <3>4 DEF Handler
  <2>2. CASE Next
    BY <2>1, <2>2 DEF Next, Enqueue, TryEnqueueFull, Close, Batcher, BatcherRecv,
         BatcherTick, BatcherClosed, quiet, SendBatch, Exhausted, OnAnswer,
         NetworkError, Drain, OtherPost, Replenish
  <2> QED
    BY <2>2 DEF vars
<1>5. SameRequests => Len(requests') >= Len(requests)
  BY RequestType DEF SameRequests
<1> QED
  BY <1>1, <1>2, <1>3, <1>4, <1>5 DEF SameRequests

\* Every step keeps what relates the client's sequences, the requests and the
\* bus.
LEMMA OrderNext ==
  ASSUME TypeInv, TypeInv', ClientInv, ServerInv, [Next]_vars
  PROVE  ClientInv' /\ ServerInv'
<1>1. CASE Enqueue \/ TryEnqueueFull \/ Close \/ Batcher
  <2>1. UNCHANGED <<handlers, requests, log>>
    BY <1>1 DEF Enqueue, TryEnqueueFull, Close, Batcher, BatcherRecv, BatcherTick,
                BatcherClosed, quiet
  <2> QED
    BY <1>1, <2>1, GiveOrder, BatcherOrder, ClientLog
<1>2. CASE SendBatch \/ NetworkError
  <2>1. Post \/ (handlers' \subseteq handlers /\ UNCHANGED <<requests, log>>)
    BY <1>2 DEF SendBatch, Exhausted, OnAnswer, NetworkError
  <2> QED
    BY <1>2, <2>1, SendBatchOrder, ClientLog, PostLog
<1>3. ASSUME NEW h \in handlers, Handler(h) \/ TurnAway(h) PROVE ClientInv' /\ ServerInv'
  <2>0. Next /\ ~Post
    BY <1>3 DEF Next, Handler, Arrive, Send, SendFull, TurnAway, Post, Respond, sending
  <2>1. SameRequests
    BY <2>0, RequestsKept
  <2>2. UNCHANGED <<batch, buf, queue, given, outcome, call>>
    BY <1>3 DEF Handler, Arrive, Send, SendFull, TurnAway, Respond, batcher, sending
  <2>3. ClientInv'
    BY <2>1, <2>2, ServerOrder
  <2>4. CASE TurnAway(h)
    BY <2>3, <2>4, RespondLog DEF TurnAway, Reply
  <2>5. CASE Arrive(h)
    <3>1. Admission(h) \in Reply
      BY AdmissionType DEF Reply
    <3> QED
      BY <2>3, <2>5, <3>1, RespondLog, AdmitLog DEF Arrive
  <2>6. CASE SendFull(h)
    BY <2>3, <2>6, RespondLog DEF SendFull, Reply
  <2>7. CASE Send(h)
    BY <2>3, <2>7, SendLog
  <2> QED
    BY <1>3, <2>3, <2>4, <2>5, <2>6, <2>7 DEF Handler
<1>4. CASE Drain \/ OtherPost \/ Replenish \/ UNCHANGED vars
  <2>1. /\ UNCHANGED <<handlers, requests, log>>
        /\ UNCHANGED <<batch, buf, queue, given, outcome, call>>
    BY <1>4 DEF Drain, OtherPost, Replenish, vars, batcher, sending
  <2>2. SameRequests
    BY <2>1 DEF SameRequests
  <2> QED
    BY <2>1, <2>2, ClientLog, ServerOrder
<1> QED
  BY <1>1, <1>2, <1>3, <1>4 DEF Next

\* The log only grows, by what a handler enqueues.
LEMMA LogGrows ==
  ASSUME TypeInv, [Next]_vars, ~ \E h \in handlers : Send(h)
  PROVE  UNCHANGED log
BY DEF Next, vars, Enqueue, TryEnqueueFull, Close, Batcher, BatcherRecv, BatcherTick,
       BatcherClosed, quiet, SendBatch, Post, Exhausted, OnAnswer, NetworkError,
       Handler, Arrive, SendFull, TurnAway, Drain, OtherPost, Replenish

\* What Send appends.
LEMMA SendAppends ==
  ASSUME TypeInv, NEW h \in handlers, Send(h)
  PROVE  /\ h.no \in 1 .. Len(requests) /\ h.at + 1 \in 1 .. Len(Ev(h.no)) /\ h.at \in Nat
         /\ requests[h.no].reply = NoAnswer
         /\ Len(log) \in Nat /\ Len(log') = Len(log) + 1
         /\ DOMAIN log' = 1 .. Len(log) + 1
         /\ \A i \in 1 .. Len(log) : log'[i] = log[i]
         /\ log'[Len(log) + 1].event = Ev(h.no)[h.at + 1]
         /\ log'[Len(log) + 1].no = h.no
         /\ UNCHANGED <<batch, buf, queue, given, outcome>>
<1> DEFINE env == [event |-> Ev(h.no)[h.at + 1], no |-> h.no]
<1>1. /\ h.no \in 1 .. Len(requests) /\ h.at + 1 \in 1 .. Len(Ev(h.no)) /\ h.at \in Nat
      /\ requests[h.no].reply = NoAnswer /\ Ev(h.no) \in Seq(Events)
  BY RequestType DEF TypeInv, HandlerInv, Ev, Handlers
<1>2. Ev(h.no)[h.at + 1] \in Events /\ h.no \in Nat \ {0}
  BY <1>1
<1>3. /\ log' = Append(log, env) /\ log \in Seq(Envelope) /\ env \in Envelope
      /\ env.event = Ev(h.no)[h.at + 1] /\ env.no = h.no
  BY <1>2 DEF Send, Ev, TypeInv, TypeOK, Envelope
<1> HIDE DEF env
<1>4. UNCHANGED <<batch, buf, queue, given, outcome>>
  BY DEF Send, Respond, batcher, sending
<1> QED
  BY <1>1, <1>3, <1>4

-----------------------------------------------------------------------------
(* What the producer may rely on                                           *)

\* OkIsComplete is kept: a 200 that arrives is the last request's.
LEMMA OkNext ==
  ASSUME TypeInv, ServerInv, OkIsComplete, [Next]_vars
  PROVE  OkIsComplete'
<1>0. \A x : OnBus(x) => OnBus(x)'
  <2>1. CASE \E h \in handlers : Send(h)
    <3>1. DOMAIN log = 1 .. Len(log)
      BY DEF TypeInv, TypeOK
    <3> QED
      BY <2>1, <3>1, SendAppends DEF OnBus
  <2>2. CASE UNCHANGED log
    BY <2>2 DEF OnBus
  <2> QED
    BY <2>1, <2>2, LogGrows
<1>1. ASSUME \A e \in Events : outcome'[e] = "ok" => outcome[e] = "ok" PROVE OkIsComplete'
  BY <1>0, <1>1 DEF OkIsComplete
<1>2. CASE Enqueue \/ TryEnqueueFull
  <2>1. outcome \in [Events -> {"new", "refused", "queued", "ok"} \cup Failure]
    BY DEF TypeInv, TypeOK
  <2> QED
    BY <1>1, <1>2, <2>1 DEF Enqueue, TryEnqueueFull
<1>3. ASSUME NEW result \in Failure, Return(result) PROVE OkIsComplete'
  <2>1. result # "ok"
    BY DEF Failure
  <2> QED
    BY <1>1, <1>3, <2>1 DEF Return
<1>4. CASE OnAnswer
  <2> DEFINE v == Verdict(answer, attempt + 1 < maxAttempts)
  <2>1. answer \in Reply /\ (attempt + 1 < maxAttempts) \in BOOLEAN /\ call = "wait"
    BY <1>4 DEF OnAnswer, TypeInv, TypeOK
  <2>2. v \in {"ok", "retry"} \cup Failure /\ (v = "ok" => answer = "ok")
    BY <2>1, VerdictType
  <2>3. CASE v \in Failure
    <3>1. v # "retry"
      BY <2>3 DEF Failure
    <3> QED
      BY <1>3, <1>4, <2>3, <3>1 DEF OnAnswer
  <2>4. CASE v = "retry"
    BY <1>1, <1>4, <2>4 DEF OnAnswer
  <2>5. CASE v = "ok"
    <3>1. /\ requests[Len(requests)].reply = "ok" /\ Ev(Len(requests)) = batch
          /\ Len(requests) \in 1 .. Len(requests)
      BY <2>1, <2>2, <2>5, RequestType DEF TypeInv, CallInv, Ev
    <3>2. \A k \in 1 .. Len(batch) : OnBus(batch[k])
      BY <3>1 DEF ServerInv, AckInv
    <3>3. DOMAIN batch = 1 .. Len(batch)
      BY DEF TypeInv, TypeOK
    <3>4. ASSUME NEW e \in Events, outcome'[e] = "ok" PROVE OnBus(e)
      <4>1. (\E i \in DOMAIN batch : batch[i] = e) \/ outcome[e] = "ok"
        BY <1>4, <2>5, <3>4 DEF OnAnswer, Return
      <4> QED
        BY <3>2, <3>3, <4>1 DEF OkIsComplete
    <3> QED
      BY <1>0, <3>4 DEF OkIsComplete
  <2> QED
    BY <2>2, <2>3, <2>4, <2>5
<1>5. CASE UNCHANGED outcome
  BY <1>1, <1>5
<1>6. \/ Enqueue \/ TryEnqueueFull \/ OnAnswer \/ UNCHANGED outcome
      \/ \E result \in Failure : Return(result)
  BY DEF Next, vars, Close, Batcher, BatcherRecv, BatcherTick, BatcherClosed, quiet,
         SendBatch, Post, Exhausted, NetworkError, Failure, Handler, Arrive, Send,
         SendFull, TurnAway, Respond, Drain, OtherPost, Replenish
<1> QED
  BY <1>2, <1>3, <1>4, <1>5, <1>6

\* TwiceOnlyAfterFull is kept: a handler whose request still waits for its
\* answer is at the last attempt at its batch.
LEMMA TwiceNext ==
  ASSUME TypeInv, ClientInv, ServerInv, TwiceOnlyAfterFull, [Next]_vars
  PROVE  TwiceOnlyAfterFull'
<1>0. DOMAIN log = 1 .. Len(log)
  BY DEF TypeInv, TypeOK
<1>1. \A n \in 1 .. Len(requests) : requests[n].reply = "bus_full" => requests'[n].reply = "bus_full"
  BY RequestsKept DEF NoAnswer
<1>2. CASE UNCHANGED log
  BY <1>0, <1>1, <1>2 DEF TwiceOnlyAfterFull, ServerInv, LogInv
<1>3. ASSUME NEW h \in handlers, Send(h) PROVE TwiceOnlyAfterFull'
  <2> DEFINE n == h.no
  <2>0. /\ n \in 1 .. Len(requests) /\ h.at + 1 \in 1 .. Len(Ev(n)) /\ h.at \in Nat
        /\ Len(log) \in Nat
        /\ requests[n].reply = NoAnswer /\ Ev(n) \in Seq(Events)
    BY <1>3, SendAppends, RequestType DEF Ev
  <2>1. ASSUME NEW i \in 1 .. Len(log), log[i].event = Ev(n)[h.at + 1]
        PROVE  log[i].no < n /\ requests[log[i].no].reply = "bus_full"
    <3> DEFINE m == log[i].no
    <3>1. /\ m \in 1 .. Len(requests) /\ log[i].event \in Range(Ev(m))
          /\ requests[m].reply \in {NoAnswer, "ok", "bus_full"}
      BY DEF ServerInv, LogInv
    <3>2. log[i].event \in Range(Ev(n)) /\ log[i].event \in Events
      BY <2>0, <2>1, RangeFacts
    <3>3. m # n
      <4> SUFFICES ASSUME m = n PROVE FALSE
        OBVIOUS
      <4>1. PICK k \in 1 .. h.at : log[i].event = Ev(n)[k]
        BY DEF ServerInv, LogInv
      <4>2. k \in 1 .. Len(Ev(n)) /\ k < h.at + 1
        BY <2>0
      <4>3. Ev(n)[k] < Ev(n)[h.at + 1]
        BY <2>0, <4>2 DEF ClientInv, RequestInv, Increasing
      <4> QED
        BY <2>1, <3>2, <4>1, <4>3 DEF Events
    <3>4. ~Below(Ev(m), Ev(n)) /\ ~Below(Ev(n), Ev(m))
      BY <3>1, <3>2 DEF Below, Events
    <3>5. ~(n < m)
      BY <2>0, <3>1, <3>4 DEF ClientInv, RequestInv, Retryable, NoAnswer
    <3>6. m < n
      BY <2>0, <3>1, <3>3, <3>5
    <3>7. requests[m].reply \in Retryable
      BY <2>0, <3>1, <3>4, <3>6 DEF ClientInv, RequestInv
    <3>8. requests[m].reply = "bus_full"
      BY <3>1, <3>7 DEF Retryable, NoAnswer
    <3> QED
      BY <3>6, <3>8
  <2>2. /\ DOMAIN log' = 1 .. Len(log) + 1
        /\ \A i \in 1 .. Len(log) : log'[i] = log[i]
        /\ log'[Len(log) + 1].event = Ev(n)[h.at + 1] /\ log'[Len(log) + 1].no = n
    BY <1>3, SendAppends
  <2>3. ASSUME NEW i \in DOMAIN log', NEW j \in DOMAIN log', i < j,
               log'[i].event = log'[j].event
        PROVE  log'[i].no < log'[j].no /\ requests'[log'[i].no].reply = "bus_full"
    <3>1. i \in 1 .. Len(log) /\ log'[i] = log[i]
      BY <2>0, <2>2, <2>3
    <3>2. log[i].no \in 1 .. Len(requests)
      BY <3>1 DEF ServerInv, LogInv
    <3>3. CASE j = Len(log) + 1
      BY <1>1, <2>1, <2>2, <2>3, <3>1, <3>2, <3>3
    <3>4. CASE j # Len(log) + 1
      <4>1. j \in 1 .. Len(log) /\ log'[j] = log[j]
        BY <2>0, <2>2, <3>4
      <4> QED
        BY <1>0, <1>1, <2>3, <3>1, <3>2, <4>1 DEF TwiceOnlyAfterFull
    <3> QED
      BY <3>3, <3>4
  <2> QED
    BY <2>3 DEF TwiceOnlyAfterFull
<1> QED
  BY <1>2, <1>3, LogGrows

\* NoOvertaking is kept.  An outcome that becomes "queued" is of an event
\* after all that are enqueued; one that becomes "ok" was "queued" before; and
\* when an event is enqueued, an earlier one that is still queued is in the
\* same batch, and its handler is through with it.
LEMMA OvertakingNext ==
  ASSUME TypeInv, ClientInv, ServerInv, OkIsComplete, NoOvertaking, [Next]_vars
  PROVE  NoOvertaking'
<1>0. /\ DOMAIN log = 1 .. Len(log) /\ given \in Nat
      /\ outcome \in [Events -> {"new", "refused", "queued", "ok"} \cup Failure]
      /\ log \in Seq(Envelope)
  BY DeliveryAssumption DEF TypeInv, TypeOK
<1>1. \A i \in 1 .. Len(log) : log[i].event \in Events
  <2>1. \A i \in 1 .. Len(log) : log[i] \in Envelope
    BY <1>0
  <2> QED
    BY <2>1 DEF Envelope
<1>2. \A i \in 1 .. Len(log) : log[i].event <= given
  BY DEF ServerInv, LogInv, ClientInv, RequestInv
<1>3. CASE UNCHANGED log
  <2>1. ASSUME NEW i \in 1 .. Len(log), NEW e \in 1 .. log[i].event - 1,
               outcome'[e] \in {"queued", "ok"}
        PROVE  outcome[e] \in {"queued", "ok"}
    <3>1. e \in Events /\ e < given + 1 /\ given + 1 # e
      <4>1. log[i].event \in Events /\ log[i].event <= given
        BY <1>1, <1>2
      <4> QED
        BY <1>0, <4>1, DeliveryAssumption DEF Events
    <3>2. CASE UNCHANGED outcome
      BY <2>1, <3>2
    <3>3. CASE Enqueue \/ TryEnqueueFull
      BY <1>0, <2>1, <3>1, <3>3 DEF Enqueue, TryEnqueueFull
    <3>4. ASSUME NEW result, Return(result) PROVE outcome[e] \in {"queued", "ok"}
      <4>1. CASE \E k \in DOMAIN batch : batch[k] = e
        <5>1. e \in Range(batch)
          BY <4>1 DEF Range
        <5> QED
          BY <3>1, <5>1 DEF ClientInv, QueueInv, Waiting
      <4>2. CASE ~ \E k \in DOMAIN batch : batch[k] = e
        BY <2>1, <3>1, <3>4, <4>2 DEF Return
      <4> QED
        BY <4>1, <4>2
    <3>5. \/ Enqueue \/ TryEnqueueFull \/ UNCHANGED outcome
          \/ \E result : Return(result)
      BY DEF Next, vars, Close, Batcher, BatcherRecv, BatcherTick, BatcherClosed, quiet,
             SendBatch, Post, Exhausted, OnAnswer, NetworkError, Handler, Arrive, Send,
             SendFull, TurnAway, Respond, Drain, OtherPost, Replenish
    <3> QED
      BY <3>2, <3>3, <3>4, <3>5
  <2> QED
    BY <1>0, <1>3, <2>1 DEF NoOvertaking
<1>4. ASSUME NEW h \in handlers, Send(h) PROVE NoOvertaking'
  <2> DEFINE n == h.no
             x == Ev(n)[h.at + 1]
  <2>0. /\ n \in 1 .. Len(requests) /\ h.at + 1 \in 1 .. Len(Ev(n)) /\ h.at \in Nat
        /\ Len(log) \in Nat /\ Ev(n) \in Seq(Events)
    BY <1>4, SendAppends, RequestType DEF Ev
  <2>1. /\ DOMAIN log' = 1 .. Len(log) + 1 /\ UNCHANGED outcome
        /\ \A i \in 1 .. Len(log) : log'[i] = log[i]
        /\ log'[Len(log) + 1].event = x
    BY <1>4, SendAppends
  <2>2. x \in Events /\ x \in Range(Ev(n))
    BY <2>0, RangeFacts
  <2>3. ASSUME NEW e \in 1 .. x - 1, outcome[e] \in {"queued", "ok"}
        PROVE  \E j \in 1 .. Len(log) : log[j].event = e
    <3>1. e \in Events /\ e < x
      BY <2>2, DeliveryAssumption DEF Events
    <3>2. CASE outcome[e] = "ok"
      BY <1>0, <3>1, <3>2 DEF OkIsComplete, OnBus
    <3>3. CASE outcome[e] = "queued"
      <4>1. e \in Waiting
        BY <3>1, <3>3 DEF ClientInv, QueueInv
      <4>2. ~(x < e)
        BY <2>2, <3>1 DEF Events
      <4>3. e \notin Range(buf) /\ e \notin Range(queue)
        BY <2>0, <2>2, <4>2 DEF ClientInv, RequestInv, Below
      <4>4. e \in Range(batch)
        BY <4>1, <4>3 DEF Waiting
      <4>5. batch # <<>> /\ batch \in Seq(Events)
        BY <4>4 DEF Range, TypeInv, TypeOK
      <4>6. ~Below(Ev(n), batch)
        BY <2>2, <4>2, <4>4 DEF Below
      <4>7. Ev(n) = batch
        BY <2>0, <4>5, <4>6 DEF ClientInv, RequestInv
      <4>8. PICK k \in 1 .. Len(Ev(n)) : Ev(n)[k] = e
        BY <4>4, <4>5, <4>7, RangeFacts
      <4>9. k \in 1 .. h.at
        <5>1. h.at + 1 < k => x < e
          BY <2>0, <4>8 DEF ClientInv, RequestInv, Increasing
        <5>2. k # h.at + 1
          BY <2>2, <3>1, <4>8 DEF Events
        <5> QED
          BY <2>0, <4>2, <5>1, <5>2
      <4> QED
        BY <1>0, <4>8, <4>9 DEF ServerInv, AckInv, OnBus
    <3> QED
      BY <2>3, <3>2, <3>3
  <2>4. ASSUME NEW i \in DOMAIN log', NEW e \in 1 .. log'[i].event - 1,
               outcome'[e] \in {"queued", "ok"}
        PROVE  \E j \in 1 .. i - 1 : log'[j].event = e
    <3>1. CASE i = Len(log) + 1
      <4>1. PICK j \in 1 .. Len(log) : log[j].event = e
        BY <2>1, <2>3, <2>4, <3>1
      <4> QED
        BY <2>0, <2>1, <3>1, <4>1
    <3>2. CASE i # Len(log) + 1
      <4>1. i \in 1 .. Len(log) /\ log'[i] = log[i]
        BY <2>0, <2>1, <3>2
      <4>2. PICK j \in 1 .. i - 1 : log[j].event = e
        BY <1>0, <2>1, <2>4, <4>1 DEF NoOvertaking
      <4>3. j \in 1 .. Len(log)
        BY <2>0, <4>1
      <4> QED
        BY <2>1, <4>2, <4>3
    <3> QED
      BY <3>1, <3>2
  <2> QED
    BY <2>4 DEF NoOvertaking
<1> QED
  BY <1>3, <1>4, LogGrows

-----------------------------------------------------------------------------
\* The inductive invariant.
DeliveryInv ==
  /\ TypeInv /\ ClientInv /\ ServerInv
  /\ OkIsComplete /\ TwiceOnlyAfterFull /\ NoOvertaking

\* It holds initially, and every step keeps it.
LEMMA DeliveryInvariant == Spec => []DeliveryInv
<1>1. Init => DeliveryInv
  <2> SUFFICES ASSUME Init PROVE DeliveryInv
    OBVIOUS
  <2>1. TypeInv
    BY TypeInit
  <2>2. Range(<<>>) = {}
    BY DEF Range
  <2>3. ClientInv
    BY <2>2 DEF Init, ClientInv, QueueInv, RequestInv, Increasing, Below, Waiting
  <2>4. ServerInv
    BY DEF Init, ServerInv, LogInv, AckInv
  <2>5. OkIsComplete /\ TwiceOnlyAfterFull /\ NoOvertaking
    BY DEF Init, OkIsComplete, TwiceOnlyAfterFull, NoOvertaking
  <2> QED
    BY <2>1, <2>3, <2>4, <2>5 DEF DeliveryInv
<1>2. DeliveryInv /\ [Next]_vars => DeliveryInv'
  BY TypeNext, OrderNext, OkNext, TwiceNext, OvertakingNext DEF DeliveryInv
<1> QED
  BY <1>1, <1>2, PTL DEF Spec

\* What send_batch reports as accepted has been enqueued, all of it: the 200
\* it acts on answers the request that carried this batch (client.rs,
\* http.rs).
THEOREM AcceptedIsComplete == Spec => []OkIsComplete
BY DeliveryInvariant, PTL DEF DeliveryInv

\* The only way to a duplicate on the bus is a retry after the bus was full in
\* the middle of the batch: a transport error, a late request and every other
\* answer lead to none (client.rs, http.rs).
THEOREM DuplicatesOnlyAfterFull == Spec => []TwiceOnlyAfterFull
BY DeliveryInvariant, PTL DEF DeliveryInv

\* No event overtakes an earlier one whose batch was not given up, through the
\* queue, the batcher, the retries and the requests that are under way at the
\* same time (batcher.rs, client.rs, http.rs).
THEOREM OrderIsKept == Spec => []NoOvertaking
BY DeliveryInvariant, PTL DEF DeliveryInv
=============================================================================
