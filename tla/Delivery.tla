------------------------------ MODULE Delivery ------------------------------
(***************************************************************************)
(* A producer and its server: the client library's batcher and its retry   *)
(* loop (crates/client/src/batcher.rs, client.rs; the forwarder of an edge *)
(* instance drives the same client), the network between them, and the     *)
(* server's POST /ingest handler with its token, scope, size and rate      *)
(* checks (crates/ingest/src/http.rs, auth.rs).                            *)
(*                                                                         *)
(* Of the pipeline behind the bus only what LossyFifo promises is kept:    *)
(* events leave the bus in order, each is stored or lost.  Producers other *)
(* than this one appear as envelopes on the bus.                           *)
(***************************************************************************)
EXTENDS Integers, Sequences, FiniteSets

CONSTANTS
  Last,          \* the producer's events are 1 .. Last, in this order
  WithId,        \* those it gives an event_id of its own
  Tokens,        \* what the server may know of its token: [known, allows]
  TooLarge,      \* those over hard_cap_bytes
  QueueDepth,    \* BatcherConfig.queue_depth
  MaxBatch,      \* BatcherConfig.max_batch
  Attempts,      \* values of ClientConfig.max_attempts
  BusDepth,      \* capacity of the server's bus
  Burst,         \* cells of the token's limiter
  MaxFailures,   \* bound on the transport errors
  MaxTurnedAway, \* bound on the answers given in front of the handler
  MaxOthers      \* bound on the envelopes of other producers

Events == 1 .. Last

ASSUME DeliveryAssumption ==
  /\ Last \in Nat
  /\ WithId \subseteq Events /\ TooLarge \subseteq Events
  /\ Tokens \subseteq [known : BOOLEAN, allows : SUBSET Events]
  /\ QueueDepth \in Nat \ {0} /\ MaxBatch \in Nat \ {0}
  /\ Attempts \subseteq Nat
  /\ BusDepth \in Nat \ {0} /\ Burst \in Nat \ {0}
  /\ MaxFailures \in Nat /\ MaxTurnedAway \in Nat /\ MaxOthers \in Nat

VARIABLES
  \* the client
  maxAttempts, \* its max_attempts
  given,       \* events the producer is through with
  closed,      \* the Batcher has been dropped
  queue,       \* the batcher's channel
  buf,         \* the batch it collects
  task,        \* "recv", "flush", "last" (flushing before it returns), "exit"
  batch,       \* what send_batch is sending
  call,        \* "idle", "post" or "wait"
  attempt,     \* its loop variable
  answer,      \* the answer that has come back, or NoAnswer
  outcome,     \* [Events -> what became of it as the producer sees it]
  \* the network and the server
  handlers,    \* requests on their way or at the handler
  token,       \* what the lookup of the client's token finds
  cells,       \* what the token's limiter has left
  bus,
  taken,       \* envelopes taken off the bus
  rows,        \* table events: [id, event]
  failures, turnedAway, others,  \* counted against the bounds
  \* history
  requests,    \* every request made: [events, reply]
  log          \* this producer's envelopes in the order of their enqueuing

batcher == <<given, closed, queue, buf, task>>
sending == <<batch, call, attempt, answer>>
server  == <<cells, bus, taken, rows>>
bounds  == <<failures, turnedAway, others>>
vars == <<maxAttempts, token, batcher, sending, outcome, handlers, server,
          bounds, requests, log>>

-----------------------------------------------------------------------------
(* Types                                                                   *)

Reply == {"ok", "bus_full", "rate_limit", "unauthorized", "payload_too_large",
          "401", "413", "500", "503"}
Failure == {"Network", "Unauthorized", "ScopeDeny", "PayloadTooLarge",
            "BadRequest", "ServerError", "RetriesExhausted"}
NoAnswer == "none"

\* The replies with status 429.
Shed == {"bus_full", "rate_limit", "unauthorized", "payload_too_large"}

Other == [event |-> 0, no |-> 0]
Envelope == [event : Events, no : Nat \ {0}]
Id == [own : BOOLEAN, n : Nat]

TypeOK ==
  /\ maxAttempts \in Attempts /\ token \in Tokens
  /\ given \in 0 .. Last /\ closed \in BOOLEAN
  /\ queue \in Seq(Events) /\ Len(queue) <= QueueDepth
  /\ buf \in Seq(Events) /\ Len(buf) < MaxBatch
  /\ task \in {"recv", "flush", "last", "exit"}
  /\ batch \in Seq(Events) /\ Len(batch) <= MaxBatch
  /\ call \in {"idle", "post", "wait"}
  /\ (call = "idle") = (task \in {"recv", "exit"})
  /\ attempt \in 0 .. maxAttempts
  /\ answer \in Reply \cup {NoAnswer}
  /\ outcome \in [Events -> {"new", "refused", "queued", "ok"} \cup Failure]
  /\ \A h \in handlers : /\ h.no \in DOMAIN requests
                         /\ h.at \in 0 .. Len(requests[h.no].events)
  /\ cells \in 0 .. Burst
  /\ bus \in Seq(Envelope \cup {Other}) /\ Len(bus) <= BusDepth
  /\ taken \in Nat
  /\ rows \subseteq [id : Id, event : Events]
  /\ requests \in Seq([events : Seq(Events), reply : Reply \cup {NoAnswer}])
  /\ log \in Seq(Envelope)

Init ==
  /\ maxAttempts \in Attempts
  /\ token \in Tokens
  /\ given = 0 /\ closed = FALSE
  /\ queue = <<>> /\ buf = <<>> /\ task = "recv"
  /\ batch = <<>> /\ call = "idle" /\ attempt = 0 /\ answer = NoAnswer
  /\ outcome = [e \in Events |-> "new"]
  /\ handlers = {}
  /\ cells = Burst /\ bus = <<>> /\ taken = 0 /\ rows = {}
  /\ failures = 0 /\ turnedAway = 0 /\ others = 0
  /\ requests = <<>> /\ log = <<>>

-----------------------------------------------------------------------------
(* The batcher                                                             *)

\* enqueue, and try_enqueue with room in the queue.
Enqueue ==
  /\ ~closed /\ given < Last
  /\ Len(queue) < QueueDepth
  /\ given' = given + 1
  /\ queue' = Append(queue, given')
  /\ outcome' = [outcome EXCEPT ![given'] = "queued"]
  /\ UNCHANGED <<maxAttempts, token, closed, buf, task, sending, handlers,
                 server, bounds, requests, log>>

\* try_enqueue hands the event back; the producer drops it.
TryEnqueueFull ==
  /\ ~closed /\ given < Last
  /\ Len(queue) = QueueDepth
  /\ given' = given + 1
  /\ outcome' = [outcome EXCEPT ![given'] = "refused"]
  /\ UNCHANGED <<maxAttempts, token, closed, queue, buf, task, sending,
                 handlers, server, bounds, requests, log>>

\* The Batcher is dropped.
Close ==
  /\ ~closed
  /\ closed' = TRUE
  /\ UNCHANGED <<maxAttempts, token, given, queue, buf, task, sending, outcome,
                 handlers, server, bounds, requests, log>>

\* flush: the batch is taken and send_batch called.
Flush(events, then) ==
  /\ buf' = <<>>
  /\ batch' = events
  /\ call' = "post"
  /\ attempt' = 0
  /\ task' = then
  /\ UNCHANGED answer

quiet == <<maxAttempts, token, given, closed, outcome, handlers, server,
           bounds, requests, log>>

\* Mutant: an event is put at the front of the batch.
BatcherRecv_Front ==
  /\ task = "recv" /\ queue # <<>>
  /\ queue' = Tail(queue)
  /\ LET events == <<Head(queue)>> \o buf
     IN  IF Len(events) >= MaxBatch THEN Flush(events, "flush")
         ELSE buf' = events /\ UNCHANGED <<task, sending>>
  /\ UNCHANGED quiet

\* Mutant: the batch is flushed one event late.
BatcherRecv_Late ==
  /\ task = "recv" /\ queue # <<>>
  /\ queue' = Tail(queue)
  /\ LET events == Append(buf, Head(queue))
     IN  IF Len(events) > MaxBatch THEN Flush(events, "flush")
         ELSE buf' = events /\ UNCHANGED <<task, sending>>
  /\ UNCHANGED quiet

\* The arms of run's select!: an event...
BatcherRecv ==
  /\ task = "recv" /\ queue # <<>>
  /\ queue' = Tail(queue)
  /\ LET events == Append(buf, Head(queue))
     IN  IF Len(events) >= MaxBatch THEN Flush(events, "flush")
         ELSE buf' = events /\ UNCHANGED <<task, sending>>
  /\ UNCHANGED quiet

\* Mutant: the ticker's arm is gone.
BatcherTick_Off == FALSE /\ UNCHANGED vars

\* ...the ticker...
BatcherTick ==
  /\ task = "recv" /\ buf # <<>>
  /\ Flush(buf, "flush")
  /\ UNCHANGED <<queue, quiet>>

\* ...and the end of the channel.
BatcherClosed ==
  /\ task = "recv" /\ closed /\ queue = <<>>
  /\ IF buf # <<>> THEN Flush(buf, "last")
     ELSE task' = "exit" /\ UNCHANGED <<buf, sending>>
  /\ UNCHANGED <<queue, quiet>>

-----------------------------------------------------------------------------
(* send_batch                                                              *)

Return(result) ==
  /\ outcome' = [e \in Events |->
                   IF \E i \in DOMAIN batch : batch[i] = e THEN result
                   ELSE outcome[e]]
  /\ batch' = <<>> /\ call' = "idle" /\ attempt' = 0 /\ answer' = NoAnswer
  /\ task' = IF task = "last" THEN "exit" ELSE "recv"
  /\ UNCHANGED <<maxAttempts, token, given, closed, queue, buf>>

\* A request goes out.
Post ==
  /\ call = "post" /\ attempt < maxAttempts
  /\ requests' = Append(requests, [events |-> batch, reply |-> NoAnswer])
  /\ handlers' = handlers \cup {[no |-> Len(requests'), at |-> 0, in |-> FALSE]}
  /\ call' = "wait"
  /\ UNCHANGED <<maxAttempts, token, batcher, batch, attempt, answer, outcome,
                 server, bounds, log>>

\* The loop ends without an answer that ends it.
Exhausted ==
  /\ call = "post" /\ attempt = maxAttempts
  /\ Return("RetriesExhausted")
  /\ UNCHANGED <<handlers, server, bounds, requests, log>>

\* The match on the status: what send_batch returns, or "retry".
Verdict(reply, retries) ==
  CASE reply = "ok" -> "ok"
    [] reply = "401" -> "Unauthorized"
    [] reply = "unauthorized" /\ retries -> "ScopeDeny"
    [] reply = "payload_too_large" /\ retries -> "PayloadTooLarge"
    [] reply \in {"rate_limit", "bus_full", "503"} /\ retries -> "retry"
    [] reply = "413" -> "PayloadTooLarge"
    [] reply \in Shed /\ ~retries -> "BadRequest"
    [] reply = "500" \/ (reply = "503" /\ ~retries) -> "ServerError"

\* An answer comes back; before another attempt the client sleeps.
OnAnswer ==
  LET v == Verdict(answer, attempt + 1 < maxAttempts)
  IN  /\ call = "wait" /\ answer # NoAnswer
      /\ IF v # "retry" THEN Return(v)
         ELSE /\ call' = "post" /\ attempt' = attempt + 1 /\ answer' = NoAnswer
              /\ UNCHANGED <<maxAttempts, token, batcher, batch, outcome>>
      /\ UNCHANGED <<handlers, server, bounds, requests, log>>

Current(h) == call = "wait" /\ h.no = Len(requests)

\* Mutant: a transport error is retried like a shed.
NetworkError_Retried ==
  /\ call = "wait" /\ failures < MaxFailures
  /\ failures' = failures + 1
  /\ IF attempt + 1 < maxAttempts
     THEN /\ call' = "post" /\ attempt' = attempt + 1 /\ answer' = NoAnswer
          /\ UNCHANGED <<maxAttempts, token, batcher, batch, outcome>>
     ELSE Return("Network")
  /\ \/ UNCHANGED handlers
     \/ handlers' = {h \in handlers : ~(Current(h) /\ ~h.in)}
  /\ UNCHANGED <<server, turnedAway, others, requests, log>>

\* The connection fails or the timeout of the attempt passes, before the
\* request arrived (it is lost, or late), while it is handled, or with the
\* answer on its way: send()'s `?' ends the loop.
NetworkError ==
  /\ call = "wait" /\ failures < MaxFailures
  /\ failures' = failures + 1
  /\ Return("Network")
  /\ \/ UNCHANGED handlers
     \/ handlers' = {h \in handlers : ~(Current(h) /\ ~h.in)}
  /\ UNCHANGED <<server, turnedAway, others, requests, log>>

-----------------------------------------------------------------------------
(* The server                                                              *)

\* The handler is through.  Its answer reaches a client that still waits.
Respond(h, reply) ==
  /\ handlers' = handlers \ {h}
  /\ requests' = [requests EXCEPT ![h.no].reply = reply]
  /\ answer' = IF Current(h) THEN reply ELSE answer
  /\ UNCHANGED <<maxAttempts, token, batcher, batch, call, attempt, outcome>>

\* What is in front of the handler answers: the body limit, a gateway.
TurnAway(h) ==
  /\ ~h.in /\ turnedAway < MaxTurnedAway
  /\ turnedAway' = turnedAway + 1
  /\ \E reply \in {"413", "500", "503"} : Respond(h, reply)
  /\ UNCHANGED <<server, failures, others, log>>

\* authenticate: the server knows the bearer token.
Authentic == token.known

\* TokenScope::allows.
Allows(e) == e \in token.allows

\* TokenScope::check_rate.
RateLimited == cells = 0

\* The first event of the request that its scope or its size rules out
\* decides, then the limiter, which is asked once per batch.
Admission(h) ==
  LET events == requests[h.no].events
      Bad(i) == ~Allows(events[i]) \/ events[i] \in TooLarge
      First == CHOOSE i \in DOMAIN events : Bad(i) /\ \A j \in 1 .. i - 1 : ~Bad(j)
  IN  CASE ~Authentic -> "401"
        [] Authentic /\ \E i \in DOMAIN events : Bad(i) ->
             IF Allows(events[First]) THEN "payload_too_large" ELSE "unauthorized"
        [] OTHER -> IF RateLimited THEN "rate_limit" ELSE "ok"

\* The checks, before anything is enqueued.
Arrive(h) ==
  /\ ~h.in
  /\ IF Admission(h) # "ok"
     THEN Respond(h, Admission(h)) /\ UNCHANGED cells
     ELSE /\ cells' = cells - 1
          /\ handlers' = (handlers \ {h}) \cup {[h EXCEPT !.in = TRUE]}
          /\ UNCHANGED <<maxAttempts, token, batcher, sending, outcome, requests>>
  /\ UNCHANGED <<bus, taken, rows, bounds, log>>

\* try_send finds room; after the last event the answer is 200.
Send(h) ==
  LET events == requests[h.no].events
      env == [event |-> events[h.at + 1], no |-> h.no]
  IN  /\ h.in
      /\ Len(bus) < BusDepth
      /\ bus' = Append(bus, env)
      /\ log' = Append(log, env)
      /\ IF h.at + 1 = Len(events) THEN Respond(h, "ok")
         ELSE /\ handlers' = (handlers \ {h}) \cup {[h EXCEPT !.at = @ + 1]}
              /\ UNCHANGED <<maxAttempts, token, batcher, sending, outcome,
                             requests>>
      /\ UNCHANGED <<cells, taken, rows, bounds>>

\* Mutant: the event is skipped and the loop goes on.
SendFull_Skips(h) ==
  /\ h.in
  /\ Len(bus) = BusDepth
  /\ IF h.at + 1 = Len(requests[h.no].events) THEN Respond(h, "ok")
     ELSE /\ handlers' = (handlers \ {h}) \cup {[h EXCEPT !.at = @ + 1]}
          /\ UNCHANGED <<maxAttempts, token, batcher, sending, outcome, requests>>
  /\ UNCHANGED <<server, bounds, log>>

\* try_send finds the bus full: what was enqueued stays enqueued.
SendFull(h) ==
  /\ h.in
  /\ Len(bus) = BusDepth
  /\ Respond(h, "bus_full")
  /\ UNCHANGED <<server, bounds, log>>

\* Mutant: the normalizer assigns an id of its own to every event.
IdOf_Fresh(e, n) == [own |-> FALSE, n |-> n]

\* event_id.unwrap_or_else(new_event_id) for the n-th envelope.
IdOf(e, n) == IF e \in WithId THEN [own |-> TRUE, n |-> e]
              ELSE [own |-> FALSE, n |-> n]

\* The envelope at the head of the bus is normalized and stored (unless its
\* id is there), or lost on the way to the store.
Drain ==
  /\ bus # <<>>
  /\ bus' = Tail(bus)
  /\ taken' = taken + 1
  /\ LET e == Head(bus).event
         id == IdOf(e, taken')
     IN  \/ /\ e # 0
            /\ rows' = IF \E r \in rows : r.id = id THEN rows
                       ELSE rows \cup {[id |-> id, event |-> e]}
         \/ UNCHANGED rows
  /\ UNCHANGED <<maxAttempts, token, batcher, sending, outcome, handlers, cells,
                 bounds, requests, log>>

\* Another producer's event.
OtherPost ==
  /\ others < MaxOthers
  /\ Len(bus) < BusDepth
  /\ others' = others + 1
  /\ bus' = Append(bus, Other)
  /\ UNCHANGED <<maxAttempts, token, batcher, sending, outcome, handlers, cells,
                 taken, rows, failures, turnedAway, requests, log>>

\* The limiter gets a cell back.
Replenish ==
  /\ cells < Burst
  /\ cells' = cells + 1
  /\ UNCHANGED <<maxAttempts, token, batcher, sending, outcome, handlers, bus,
                 taken, rows, bounds, requests, log>>

-----------------------------------------------------------------------------
Batcher == BatcherRecv \/ BatcherTick \/ BatcherClosed
SendBatch == Post \/ Exhausted \/ OnAnswer
Handler(h) == Arrive(h) \/ Send(h) \/ SendFull(h)

Next ==
  \/ Enqueue \/ TryEnqueueFull \/ Close
  \/ Batcher
  \/ SendBatch
  \/ NetworkError
  \/ \E h \in handlers : Handler(h) \/ TurnAway(h)
  \/ Drain
  \/ OtherPost
  \/ Replenish

Spec == Init /\ [][Next]_vars

\* The client's task and the server's handlers are tokio tasks and keep going,
\* and the ticker fires.  A request that is lost ends with NetworkError, after
\* the timeout of the attempt; until MaxFailures that needs no fairness, as
\* the loss and the error are one step.
Fairness ==
  /\ WF_vars(Batcher) /\ WF_vars(SendBatch)
  /\ WF_vars(\E h \in handlers : Handler(h))

FairSpec == Spec /\ Fairness

-----------------------------------------------------------------------------
(* Properties                                                              *)

OnBus(e) == \E i \in DOMAIN log : log[i].event = e

\* What send_batch reports as accepted was enqueued, all of it, whatever
\* other producers put on the bus in between.
OkIsComplete == \A e \in Events : outcome[e] = "ok" => OnBus(e)

\* An event with an id of its own is stored at most once, also when its batch
\* was taken in part and sent again, or came in after its client gave up.
StoredOnce ==
  \A e \in WithId : Cardinality({r \in rows : r.event = e}) <= 1

\* An event is enqueued a second time only if the request that enqueued it
\* first found the bus full further on: a full bus in the middle of a batch is
\* the one way to a duplicate.
TwiceOnlyAfterFull ==
  \A i, j \in DOMAIN log :
    i < j /\ log[i].event = log[j].event =>
      log[i].no < log[j].no /\ requests[log[i].no].reply = "bus_full"

\* No event overtakes an earlier one of the producer, except one whose batch
\* was given up: when an event is enqueued, the earlier ones have been, or
\* were refused, or ended in an error.
NoOvertaking ==
  \A i \in DOMAIN log : \A e \in 1 .. log[i].event - 1 :
    outcome[e] \in {"queued", "ok"} => \E j \in 1 .. i - 1 : log[j].event = e

\* Every event the batcher took gets its outcome: also the last few below
\* max_batch, also after the Batcher was dropped.
EventuallyReported ==
  \A e \in Events : outcome[e] = "queued" ~> outcome[e] # "queued"

=============================================================================
