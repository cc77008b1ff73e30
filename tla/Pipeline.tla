------------------------------ MODULE Pipeline ------------------------------
(***************************************************************************)
(* The ingest pipeline of one percept process: HTTP requests, WebSocket    *)
(* sessions and MQTT brokers put envelopes on a bounded bus; one           *)
(* normalizer task drains the bus, stamps each event, pushes it on its hot *)
(* ring and offers it to the bounded channel of every enabled consumer     *)
(* (cold writer, embedder, forwarder); each consumer task batches what it  *)
(* receives and flushes the batch to its sink; a shutdown signal ends the  *)
(* server.                                                                 *)
(*                                                                         *)
(* An event is known by its arrival number: its position in `log', the     *)
(* sequence of everything the normalizer has taken off the bus.  Channels, *)
(* buffers and sinks hold arrival numbers.                                 *)
(***************************************************************************)
EXTENDS HotRing, FiniteSets

CONSTANTS
  Requests,   \* POST /ingest requests
  Sessions,   \* WebSocket sessions
  Brokers,    \* configured MQTT brokers, one subscriber task each
  Pairs,      \* (source_id, kind) pairs
  Sources,    \* source ids
  SourceOf,   \* [Pairs -> Sources]
  EmbedPairs, \* the pairs the embed selector lets through
  Payload,    \* [Origins -> Seq(Pairs)]: what each will send
  MsgEnds,    \* [Sessions -> SUBSET Nat]: where a session's messages end
  Consumers,  \* the enabled consumers, a subset of AllConsumers
  BusDepth,   \* PipelineConfig.bus_depth: bus and every consumer channel
  BatchSize,  \* [AllConsumers -> Nat \ {0}]: batch_size of each task
  MaxClock    \* bound on the wall clock

AllConsumers == {"cold_writer", "embedder", "forwarder"}

Origins == Requests \cup Sessions \cup Brokers

ASSUME PipelineAssumption ==
  /\ Requests \cap Brokers = {}
  /\ Sessions \cap (Requests \cup Brokers) = {}
  /\ SourceOf \in [Pairs -> Sources]
  /\ EmbedPairs \subseteq Pairs
  /\ Payload \in [Origins -> Seq(Pairs)]
  /\ \A r \in Requests : Payload[r] # <<>>
  /\ MsgEnds \in [Sessions -> SUBSET (Nat \ {0})]
  /\ \A w \in Sessions : MsgEnds[w] \subseteq 1 .. Len(Payload[w])
  /\ \A w \in Sessions : Payload[w] # <<>> => Len(Payload[w]) \in MsgEnds[w]
  /\ Consumers \subseteq AllConsumers
  /\ BusDepth \in Nat \ {0}
  /\ BatchSize \in [AllConsumers -> Nat \ {0}]
  /\ MaxClock \in Nat

VARIABLES
  http,      \* [Requests -> status of the handler]
  ws,        \* [Sessions -> state of the session]
  wsCount,   \* [Sessions -> accepted, the count of the message in hand]
  link,      \* [Sessions -> every frame written so far reached the client]
  told,      \* [Sessions -> the sum of the {"accepted": n} frames the
             \* client got]
  refused,   \* [Sessions -> the ends of the messages for which it got an
             \* error or a shed_reason frame]
  heard,     \* [Sessions -> the end of the last message it has all the
             \* frames of]
  sent,      \* [Origins -> envelopes of this origin put on the bus]
  tried,     \* [Origins -> events of this origin looked at so far]
  bus,       \* the normalizer's input channel
  norm,      \* where the normalizer is: "recv", the consumer it offers to
             \* next, "count", or "done" when it has returned
  seqOf,     \* [Sources -> last seq assigned] (seq_by_source)
  log,       \* every normalized event, in arrival order
  ring,      \* [Pairs -> hot ring]
  clock,     \* the wall clock
  accepted,  \* ingest counter inc_accepted
  shed,      \* ingest counter inc_shed(bus_full)
  drops,     \* inc_consumer_drop, by consumer or "mqtt_subscriber"
  chan,      \* [AllConsumers -> channel]
  buf,       \* [AllConsumers -> batch being collected]
  task,      \* [AllConsumers -> "recv", "flush", "last" or "exit"]
  sink,      \* [AllConsumers -> what the store or the index committed, or
             \* the hub acknowledged, in order]
  failed,    \* [AllConsumers -> events_dropped counter of the task]
  phase      \* "running", "draining", "stopped" or "exited"

answers  == <<link, told, refused, heard>>
wsVars   == <<ws, wsCount, answers>>
inVars   == <<http, wsVars, sent, tried, shed>>
normVars == <<norm, seqOf, log, ring, clock, accepted>>
outVars  == <<buf, task, sink, failed>>
vars == <<inVars, bus, normVars, drops, chan, outVars, phase>>

-----------------------------------------------------------------------------
(* Types                                                                   *)

\* The k-th event of an origin's payload.
Post == {x \in [from : Origins, k : Nat \ {0}] : x.k <= Len(Payload[x.from])}

WsStates == {"new", "open", "sending", "answer", "closed"}

Stages == {"recv", "cold_writer", "embedder", "forwarder", "count", "done"}

Event == [post : Post, pair : Pairs, seq : Nat \ {0}, ingest : Nat]

RingEntry == [n : Nat \ {0}, ingest : Nat]

TypeOK ==
  /\ http \in [Requests -> {"new", "sending", "ok", "shed", "rejected"}]
  /\ ws \in [Sessions -> WsStates]
  /\ wsCount \in [Sessions -> Nat]
  /\ link \in [Sessions -> BOOLEAN]
  /\ told \in [Sessions -> Nat]
  /\ refused \in [Sessions -> SUBSET Nat]
  /\ heard \in [Sessions -> Nat]
  /\ sent \in [Origins -> Nat]
  /\ tried \in [Origins -> Nat]
  /\ bus \in Seq(Post)
  /\ norm \in Stages
  /\ seqOf \in [Sources -> Nat]
  /\ log \in Seq(Event)
  /\ ring \in [Pairs -> Seq(RingEntry)]
  /\ clock \in Nat
  /\ accepted \in Nat
  /\ shed \in Nat
  /\ drops \in [AllConsumers \cup {"mqtt_subscriber"} -> Nat]
  /\ chan \in [AllConsumers -> Seq(Nat)]
  /\ buf \in [AllConsumers -> Seq(Nat)]
  /\ task \in [AllConsumers -> {"recv", "flush", "last", "exit"}]
  /\ sink \in [AllConsumers -> Seq(Nat)]
  /\ failed \in [AllConsumers -> Nat]
  /\ phase \in {"running", "draining", "stopped", "exited"}

Init ==
  /\ http = [r \in Requests |-> "new"]
  /\ ws = [w \in Sessions |-> "new"]
  /\ wsCount = [w \in Sessions |-> 0]
  /\ link = [w \in Sessions |-> TRUE]
  /\ told = [w \in Sessions |-> 0]
  /\ refused = [w \in Sessions |-> {}]
  /\ heard = [w \in Sessions |-> 0]
  /\ sent = [o \in Origins |-> 0]
  /\ tried = [o \in Origins |-> 0]
  /\ bus = <<>>
  /\ norm = "recv"
  /\ seqOf = [s \in Sources |-> 0]
  /\ log = <<>>
  /\ ring = [p \in Pairs |-> <<>>]
  /\ clock = 0
  /\ accepted = 0
  /\ shed = 0
  /\ drops = [c \in AllConsumers \cup {"mqtt_subscriber"} |-> 0]
  /\ chan = [c \in AllConsumers |-> <<>>]
  /\ buf = [c \in AllConsumers |-> <<>>]
  /\ task = [c \in AllConsumers |-> "recv"]
  /\ sink = [c \in AllConsumers |-> <<>>]
  /\ failed = [c \in AllConsumers |-> 0]
  /\ phase = "running"

Alive == phase # "exited"

-----------------------------------------------------------------------------
(* HTTP ingest (crates/ingest/src/http.rs)                                 *)

\* Authentication, parsing, the per-event scope and size checks and the
\* batch rate limit run before anything is enqueued; any of them turns the
\* whole request away.
HttpReject(r) ==
  /\ phase = "running"
  /\ http[r] = "new"
  /\ http' = [http EXCEPT ![r] = "rejected"]
  /\ UNCHANGED <<wsVars, sent, tried, shed, bus, normVars, drops, chan, outVars,
                 phase>>

\* All checks pass and the handler enters the try_send loop.
HttpAdmit(r) ==
  /\ phase = "running"
  /\ http[r] = "new"
  /\ http' = [http EXCEPT ![r] = "sending"]
  /\ UNCHANGED <<wsVars, sent, tried, shed, bus, normVars, drops, chan, outVars,
                 phase>>

\* try_send of the next event succeeds; after the last one the handler
\* answers 200 {"accepted": n}.
HttpSend(r) ==
  /\ Alive
  /\ http[r] = "sending"
  /\ Len(bus) < BusDepth
  /\ bus' = Append(bus, [from |-> r, k |-> tried[r] + 1])
  /\ tried' = [tried EXCEPT ![r] = @ + 1]
  /\ sent' = [sent EXCEPT ![r] = @ + 1]
  /\ http' = [http EXCEPT ![r] =
                IF tried[r] + 1 = Len(Payload[r]) THEN "ok" ELSE "sending"]
  /\ UNCHANGED <<wsVars, shed, normVars, drops, chan, outVars, phase>>

\* Mutant: the handler skips the event that did not fit and goes on.
HttpBusFull_GoesOn(r) ==
  /\ Alive
  /\ http[r] = "sending"
  /\ Len(bus) >= BusDepth
  /\ tried' = [tried EXCEPT ![r] = @ + 1]
  /\ http' = [http EXCEPT ![r] =
                IF tried[r] + 1 = Len(Payload[r]) THEN "ok" ELSE "sending"]
  /\ UNCHANGED <<wsVars, sent, shed, bus, normVars, drops, chan, outVars,
                 phase>>

\* try_send reports Full: the handler answers 429 bus_full at once and the
\* rest of the batch is never tried.  What it enqueued before stays.
HttpBusFull(r) ==
  /\ Alive
  /\ http[r] = "sending"
  /\ Len(bus) >= BusDepth
  /\ http' = [http EXCEPT ![r] = "shed"]
  /\ shed' = shed + 1
  /\ UNCHANGED <<wsVars, sent, tried, bus, normVars, drops, chan, outVars,
                 phase>>

-----------------------------------------------------------------------------
(* WebSocket ingest (crates/ingest/src/ws.rs)                              *)

\* The end of the message that starts after the first k events.
MsgEnd(w, k) == CHOOSE e \in MsgEnds[w] :
                  e > k /\ \A f \in MsgEnds[w] : f > k => e <= f

\* ws_handler: the upgrade, with a known token; an unknown one gets a close
\* frame and the socket is dropped.  From here on the session is a task of
\* its own that owns a clone of the bus sender; the listener does not wait
\* for it.
WsUpgrade(w) ==
  /\ phase = "running"
  /\ ws[w] = "new"
  /\ \E st \in {"open", "closed"} : ws' = [ws EXCEPT ![w] = st]
  /\ UNCHANGED <<http, wsCount, answers, sent, tried, shed, bus, normVars,
                 drops, chan, outVars, phase>>

\* socket.send of one frame: the client gets it, or not.  The session drops
\* the result (let _ =) and goes on as if it had; what is written to a
\* connection after a frame was lost does not arrive either.
Frame(w, got) ==
  /\ got => link[w]
  /\ link' = [link EXCEPT ![w] = got]

\* A message that does not parse, holds an event out of scope or too large,
\* or meets the rate limit: one frame says so, no event of it is enqueued
\* and the session goes on.
WsRefuse(w) ==
  /\ Alive
  /\ ws[w] = "open"
  /\ tried[w] < Len(Payload[w])
  /\ LET e == MsgEnd(w, tried[w])
     IN  /\ tried' = [tried EXCEPT ![w] = e]
         /\ \E got \in BOOLEAN :
              /\ Frame(w, got)
              /\ refused' = [refused EXCEPT ![w] = IF got THEN @ \cup {e} ELSE @]
              /\ heard' = [heard EXCEPT ![w] = IF got THEN e ELSE @]
  /\ UNCHANGED <<http, ws, wsCount, told, sent, shed, bus, normVars, drops,
                 chan, outVars, phase>>

\* A message that passes all checks: let mut accepted = 0, then the loop.
WsTake(w) ==
  /\ Alive
  /\ ws[w] = "open"
  /\ tried[w] < Len(Payload[w])
  /\ ws' = [ws EXCEPT ![w] = "sending"]
  /\ wsCount' = [wsCount EXCEPT ![w] = 0]
  /\ UNCHANGED <<http, answers, sent, tried, shed, bus, normVars, drops,
                 chan, outVars, phase>>

\* try_send succeeds.
WsSend(w) ==
  /\ Alive
  /\ ws[w] = "sending"
  /\ Len(bus) < BusDepth
  /\ bus' = Append(bus, [from |-> w, k |-> tried[w] + 1])
  /\ tried' = [tried EXCEPT ![w] = @ + 1]
  /\ sent' = [sent EXCEPT ![w] = @ + 1]
  /\ wsCount' = [wsCount EXCEPT ![w] = @ + 1]
  /\ ws' = [ws EXCEPT ![w] =
              IF tried[w] + 1 \in MsgEnds[w] THEN "answer" ELSE "sending"]
  /\ UNCHANGED <<http, answers, shed, normVars, drops, chan, outVars,
                 phase>>

\* Mutant: as the HTTP handler does, the shed frame ends the message.
WsBusFull_NoCount(w) ==
  /\ Alive
  /\ ws[w] = "sending"
  /\ Len(bus) >= BusDepth
  /\ shed' = shed + 1
  /\ LET e == MsgEnd(w, tried[w])
     IN  /\ tried' = [tried EXCEPT ![w] = e]
         /\ \E got \in BOOLEAN :
              /\ Frame(w, got)
              /\ refused' = [refused EXCEPT ![w] = IF got THEN @ \cup {e} ELSE @]
              /\ heard' = [heard EXCEPT ![w] = IF got THEN e ELSE @]
  /\ ws' = [ws EXCEPT ![w] = "open"]
  /\ UNCHANGED <<http, wsCount, told, sent, bus, normVars, drops, chan, outVars,
                 phase>>

\* try_send reports Full: a shed_reason frame, and the rest of the message is
\* skipped; what was enqueued before is still answered with a second frame.
WsBusFull(w) ==
  /\ Alive
  /\ ws[w] = "sending"
  /\ Len(bus) >= BusDepth
  /\ shed' = shed + 1
  /\ LET e == MsgEnd(w, tried[w])
     IN  /\ tried' = [tried EXCEPT ![w] = e]
         /\ \E got \in BOOLEAN :
              /\ Frame(w, got)
              /\ refused' = [refused EXCEPT ![w] = IF got THEN @ \cup {e} ELSE @]
              /\ heard' = [heard EXCEPT ![w] =
                              IF got /\ wsCount[w] = 0 THEN e ELSE @]
  /\ ws' = [ws EXCEPT ![w] = IF wsCount[w] > 0 THEN "answer" ELSE "open"]
  /\ UNCHANGED <<http, wsCount, told, sent, bus, normVars, drops, chan, outVars,
                 phase>>

\* The {"accepted": n} frame, the last of its message.
WsAnswer(w) ==
  /\ Alive
  /\ ws[w] = "answer"
  /\ ws' = [ws EXCEPT ![w] = "open"]
  /\ \E got \in BOOLEAN :
       /\ Frame(w, got)
       /\ told' = [told EXCEPT ![w] = IF got THEN @ + wsCount[w] ELSE @]
       /\ heard' = [heard EXCEPT ![w] = IF got THEN tried[w] ELSE @]
  /\ UNCHANGED <<http, wsCount, refused, sent, tried, shed, bus, normVars,
                 drops, chan, outVars, phase>>

\* A close frame, the end of the stream or a network error: run_session
\* returns and drops its sender.
WsClose(w) ==
  /\ Alive
  /\ ws[w] = "open"
  /\ ws' = [ws EXCEPT ![w] = "closed"]
  /\ UNCHANGED <<http, wsCount, answers, sent, tried, shed, bus, normVars,
                 drops, chan, outVars, phase>>

-----------------------------------------------------------------------------
(* MQTT subscriber (crates/ingest/src/mqtt/subscriber.rs)                  *)

\* A publish that routes to an event: enqueued, or dropped with a counter
\* when the bus is full.  The subscriber goes on with the next publish.
MqttPublish(b) ==
  /\ Alive
  /\ tried[b] < Len(Payload[b])
  /\ tried' = [tried EXCEPT ![b] = @ + 1]
  /\ \/ /\ Len(bus) < BusDepth
        /\ bus' = Append(bus, [from |-> b, k |-> tried[b] + 1])
        /\ sent' = [sent EXCEPT ![b] = @ + 1]
        /\ UNCHANGED drops
     \/ /\ Len(bus) >= BusDepth
        /\ drops' = [drops EXCEPT !["mqtt_subscriber"] = @ + 1]
        /\ UNCHANGED <<bus, sent>>
  /\ UNCHANGED <<http, wsVars, shed, normVars, chan, outVars, phase>>

\* A publish no subscription routes, or whose payload does not decode: it
\* is counted and skipped.
MqttUnrouted(b) ==
  /\ Alive
  /\ tried[b] < Len(Payload[b])
  /\ tried' = [tried EXCEPT ![b] = @ + 1]
  /\ UNCHANGED <<http, wsVars, sent, shed, bus, normVars, drops, chan, outVars,
                 phase>>

-----------------------------------------------------------------------------
(* Normalizer (crates/ingest/src/normalizer.rs)                            *)

\* The sessions that own a sender.
LiveSessions == {w \in Sessions : ws[w] \notin {"new", "closed"}}

\* Mutants: recv gives up at the signal although senders are left; the
\* server forgets to drop its own sender.
BusClosed_AtSignal == phase # "running"
BusClosed_Leaked == FALSE

\* The bus is closed when every clone of its sender is gone: the server's
\* own, dropped once axum::serve has returned; the one each running handler
\* borrows; the one each WebSocket session owns until it ends; and the one
\* each MQTT subscriber owns and never drops.
BusClosed ==
  /\ phase = "stopped"
  /\ Brokers = {}
  /\ LiveSessions = {}
  /\ \A r \in Requests : http[r] # "sending"

\* Mutants: the counter is read before it is incremented; one counter for
\* all sources.
Normalized_OldSeq(post, t) ==
  LET p == Payload[post.from][post.k]
  IN  [post |-> post, pair |-> p, seq |-> seqOf[SourceOf[p]], ingest |-> t]
Normalized_OneSeq(post, t) ==
  [post |-> post, pair |-> Payload[post.from][post.k], seq |-> Len(log) + 1,
   ingest |-> t]

\* normalize() of post with the clock reading t: the source's next seq.
Normalized(post, t) ==
  LET p == Payload[post.from][post.k]
  IN  [post |-> post, pair |-> p, seq |-> seqOf[SourceOf[p]] + 1, ingest |-> t]

\* recv, normalize (which reads the clock), hot_rings.push (which reads it
\* again).
Receive ==
  /\ Alive
  /\ norm = "recv"
  /\ bus # <<>>
  /\ \E t \in clock .. MaxClock : \E now \in t .. MaxClock :
       LET e == Normalized(Head(bus), t)
           n == Len(log) + 1
       IN  /\ log' = Append(log, e)
           /\ seqOf' = [seqOf EXCEPT ![SourceOf[e.pair]] = e.seq]
           /\ ring' = [ring EXCEPT ![e.pair] =
                         Push(@, [n |-> n, ingest |-> t], now)]
           /\ clock' = now
  /\ bus' = Tail(bus)
  /\ norm' = "cold_writer"
  /\ UNCHANGED <<inVars, accepted, drops, chan, outVars, phase>>

\* The order of the fan-out.
After == [cold_writer |-> "embedder", embedder |-> "forwarder",
          forwarder |-> "count"]

\* Whether consumer c is sent events of pair p at all.
Selected(c, p) == /\ c \in Consumers
                  /\ c = "embedder" => p \in EmbedPairs

\* Mutant: a full channel makes room by giving up its oldest event, as a
\* broadcast channel would.
Offer_Oldest(c) ==
  /\ Alive
  /\ norm = c
  /\ norm' = After[c]
  /\ IF Selected(c, log[Len(log)].pair)
     THEN LET full == Len(chan[c]) >= BusDepth
          IN  /\ chan' = [chan EXCEPT ![c] =
                            Append(IF full THEN Tail(@) ELSE @, Len(log))]
              /\ drops' = [drops EXCEPT ![c] = IF full THEN @ + 1 ELSE @]
     ELSE UNCHANGED <<chan, drops>>
  /\ UNCHANGED <<inVars, bus, seqOf, log, ring, clock, accepted, outVars,
                 phase>>

\* try_send of the event in hand to consumer c, never blocking: appended, or
\* dropped with a counter when the channel is full.
Offer(c) ==
  /\ Alive
  /\ norm = c
  /\ norm' = After[c]
  /\ \/ /\ Selected(c, log[Len(log)].pair)
        /\ Len(chan[c]) < BusDepth
        /\ chan' = [chan EXCEPT ![c] = Append(@, Len(log))]
        /\ UNCHANGED drops
     \/ /\ Selected(c, log[Len(log)].pair)
        /\ Len(chan[c]) >= BusDepth
        /\ drops' = [drops EXCEPT ![c] = @ + 1]
        /\ UNCHANGED chan
     \/ /\ ~Selected(c, log[Len(log)].pair)
        /\ UNCHANGED <<chan, drops>>
  /\ UNCHANGED <<inVars, bus, seqOf, log, ring, clock, accepted, outVars,
                 phase>>

\* inc_accepted, then back to recv.
Count ==
  /\ Alive
  /\ norm = "count"
  /\ norm' = "recv"
  /\ accepted' = accepted + 1
  /\ UNCHANGED <<inVars, bus, seqOf, log, ring, clock, drops, chan, outVars,
                 phase>>

\* recv returns None: the bus is closed and empty; the task returns and
\* drops the senders of the consumer channels.
NormalizerExit ==
  /\ Alive
  /\ norm = "recv"
  /\ bus = <<>>
  /\ BusClosed
  /\ norm' = "done"
  /\ UNCHANGED <<inVars, bus, seqOf, log, ring, clock, accepted, drops, chan,
                 outVars, phase>>

-----------------------------------------------------------------------------
(* Consumer tasks: ColdWriter::run (store/src/cold/writer.rs),             *)
(* EmbedderTask::run (store/src/vector/task.rs) and Forwarder::run         *)
(* (percept/src/forwarder.rs) share one select loop.                       *)

\* recv -> push; a full batch is flushed at once.
TaskRecv(c) ==
  /\ Alive
  /\ task[c] = "recv"
  /\ chan[c] # <<>>
  /\ chan' = [chan EXCEPT ![c] = Tail(@)]
  /\ buf' = [buf EXCEPT ![c] = Append(@, Head(chan[c]))]
  /\ task' = [task EXCEPT ![c] =
                IF Len(buf[c]) + 1 >= BatchSize[c] THEN "flush" ELSE "recv"]
  /\ UNCHANGED <<inVars, bus, normVars, drops, sink, failed, phase>>

\* Mutant: the tick leaves a batch below batch_size alone.
TaskTick_FullOnly(c) ==
  /\ Alive
  /\ task[c] = "recv"
  /\ Len(buf[c]) >= BatchSize[c]
  /\ task' = [task EXCEPT ![c] = "flush"]
  /\ UNCHANGED <<inVars, bus, normVars, drops, chan, buf, sink, failed, phase>>

\* The batch_age tick flushes a non-empty batch.
TaskTick(c) ==
  /\ Alive
  /\ task[c] = "recv"
  /\ buf[c] # <<>>
  /\ task' = [task EXCEPT ![c] = "flush"]
  /\ UNCHANGED <<inVars, bus, normVars, drops, chan, buf, sink, failed, phase>>

\* The channel is closed and empty: a last flush if there is something left,
\* then return.
TaskClose(c) ==
  /\ Alive
  /\ task[c] = "recv"
  /\ chan[c] = <<>>
  /\ norm = "done"
  /\ task' = [task EXCEPT ![c] = IF buf[c] = <<>> THEN "exit" ELSE "last"]
  /\ UNCHANGED <<inVars, bus, normVars, drops, chan, buf, sink, failed, phase>>

\* Mutant: the buffer is not cleared.
FlushDone_Kept(c) ==
  /\ Alive
  /\ task[c] \in {"flush", "last"}
  /\ task' = [task EXCEPT ![c] = IF @ = "last" THEN "exit" ELSE "recv"]
  /\ UNCHANGED <<buf, inVars, bus, normVars, drops, chan, phase>>

\* The end of a flush, successful or not: the batch is gone from the buffer.
\* While a flush runs the task receives nothing.
FlushDone(c) ==
  /\ Alive
  /\ task[c] \in {"flush", "last"}
  /\ buf' = [buf EXCEPT ![c] = <<>>]
  /\ task' = [task EXCEPT ![c] = IF @ = "last" THEN "exit" ELSE "recv"]
  /\ UNCHANGED <<inVars, bus, normVars, drops, chan, phase>>

\* The store, the index or the hub took the whole batch.
FlushOk(c) ==
  /\ FlushDone(c)
  /\ sink' = [sink EXCEPT ![c] = @ \o buf[c]]
  /\ UNCHANGED failed

\* Mutant: a failed batch is not counted.
FlushErr_Silent(c) == FlushDone(c) /\ UNCHANGED <<sink, failed>>

\* The commit failed, or send_batch gave up: the batch is lost (a hub that
\* shed it may hold part of it without having said so).  Cold writer and
\* forwarder count the events; the embedder only counts the error.
FlushErr(c) ==
  /\ FlushDone(c)
  /\ failed' = [failed EXCEPT ![c] =
                  IF c = "embedder" THEN @ ELSE @ + Len(buf[c])]
  /\ UNCHANGED sink

\* The forwarder's hub answers 200 but reports fewer events accepted than
\* were sent: the difference is counted as dropped.
FlushShort(c) ==
  /\ c = "forwarder"
  /\ FlushDone(c)
  /\ \E k \in 0 .. Len(buf[c]) - 1 :
       /\ sink' = [sink EXCEPT ![c] = @ \o SubSeq(buf[c], 1, k)]
       /\ failed' = [failed EXCEPT ![c] = @ + (Len(buf[c]) - k)]

-----------------------------------------------------------------------------
(* Shutdown (percept/src/server.rs)                                        *)

\* The signal: the listener takes no new request.
Shutdown ==
  /\ phase = "running"
  /\ phase' = "draining"
  /\ UNCHANGED <<inVars, bus, normVars, drops, chan, outVars>>

\* axum::serve returns when the running handlers have answered; run() then
\* drops http_state, the server's own sender.
ServeReturns ==
  /\ phase = "draining"
  /\ \A r \in Requests : http[r] # "sending"
  /\ phase' = "stopped"
  /\ UNCHANGED <<inVars, bus, normVars, drops, chan, outVars>>

\* normalizer_handle.await is over and run() returns: the runtime is dropped
\* with whatever the consumer tasks still hold.
ProcessExit ==
  /\ phase = "stopped"
  /\ norm = "done"
  /\ phase' = "exited"
  /\ UNCHANGED <<inVars, bus, normVars, drops, chan, outVars>>

-----------------------------------------------------------------------------
Handler(r) == HttpReject(r) \/ HttpAdmit(r) \/ HttpSend(r) \/ HttpBusFull(r)

Socket(w) == \/ WsUpgrade(w) \/ WsRefuse(w) \/ WsTake(w) \/ WsSend(w)
             \/ WsBusFull(w) \/ WsAnswer(w) \/ WsClose(w)

Subscriber(b) == MqttPublish(b) \/ MqttUnrouted(b)

Normalizer == Receive \/ (\E c \in AllConsumers : Offer(c)) \/ Count
              \/ NormalizerExit

Flush(c) == FlushOk(c) \/ FlushErr(c) \/ FlushShort(c)

Consumer(c) == TaskRecv(c) \/ TaskTick(c) \/ TaskClose(c) \/ Flush(c)

Server == Shutdown \/ ServeReturns \/ ProcessExit

Next ==
  \/ \E r \in Requests : Handler(r)
  \/ \E w \in Sessions : Socket(w)
  \/ \E b \in Brokers : Subscriber(b)
  \/ Normalizer
  \/ \E c \in Consumers : Consumer(c)
  \/ Server

Spec == Init /\ [][Next]_vars

(***************************************************************************)
(* Fairness.  tokio polls every task that can make progress, so a handler  *)
(* or a session in its try_send loop, the normalizer and each consumer     *)
(* task keep going; a consumer's ticker fires every batch_age, and a flush *)
(* ends because a commit returns and the forwarder's requests carry a      *)
(* timeout.  Nothing makes a client call, read its socket or close it, a   *)
(* broker publish or an operator send the signal; a session that has a     *)
(* frame to send may wait for its client for good.                         *)
(***************************************************************************)
Fairness ==
  /\ \A r \in Requests : WF_vars(HttpSend(r) \/ HttpBusFull(r))
  /\ \A w \in Sessions : WF_vars(WsSend(w))
  /\ WF_vars(Normalizer)
  /\ \A c \in Consumers : WF_vars(Consumer(c))
  /\ WF_vars(ServeReturns) /\ WF_vars(ProcessExit)

FairSpec == Spec /\ Fairness

-----------------------------------------------------------------------------
(* Vocabulary of the properties                                            *)

Increasing(s) == \A i, j \in 1 .. Len(s) : i < j => s[i] < s[j]

\* The stages at which the event in hand has not been offered to c yet.
Before(c) ==
  CASE c = "cold_writer" -> {"cold_writer"}
    [] c = "embedder"    -> {"cold_writer", "embedder"}
    [] c = "forwarder"   -> {"cold_writer", "embedder", "forwarder"}

\* The arrivals the normalizer is through with as far as c is concerned.
Offered(c) == IF norm \in Before(c) THEN Len(log) - 1 ELSE Len(log)

\* What c has not lost, oldest first: delivered, batched, queued.
Held(c) == sink[c] \o buf[c] \o chan[c]

\* The tasks whose lost batches are counted.
CountsLosses == {"cold_writer", "forwarder"}

\* The event of this post is on the bus, in the normalizer's hand, or queued
\* or batched at a consumer.
OnTheWay(post) ==
  \/ \E i \in 1 .. Len(bus) : bus[i] = post
  \/ norm \notin {"recv", "done"} /\ log[Len(log)].post = post
  \/ \E c \in Consumers : \E i \in 1 .. Len(buf[c] \o chan[c]) :
       log[(buf[c] \o chan[c])[i]].post = post

\* Everything put on the bus and not lost since, oldest first.
Posts == [n \in 1 .. Len(log) |-> log[n].post] \o bus

-----------------------------------------------------------------------------
(* Safety                                                                  *)

\* Every consumer sees arrivals in arrival order and none twice, whatever
\* was dropped at its channel or lost in a failed flush: the try_send order
\* of Normalizer::run, the FIFO channel and the batch buffer keep it.
InOrder ==
  \A c \in Consumers :
    /\ Increasing(Held(c))
    /\ \A i \in 1 .. Len(Held(c)) :
         Held(c)[i] \in 1 .. Offered(c) /\ Selected(c, log[Held(c)[i]].pair)

\* Nothing vanishes uncounted before the process exits: each event that was
\* offered to the cold writer or the forwarder is in its channel, in its
\* batch, in its sink, or was added to exactly one drop counter
\* (inc_consumer_drop or events_dropped).
Accounting ==
  /\ accepted = Offered("forwarder") - (IF norm = "count" THEN 1 ELSE 0)
  /\ \A c \in Consumers \cap CountsLosses :
       Offered(c) = Len(Held(c)) + drops[c] + failed[c]

\* The seq numbers of a source count its arrivals without a gap, and reach
\* every consumer in strictly increasing order, so a gap in the seq column
\* of the cold store is an event that was lost on the way, or one whose
\* event_id the store already had.
SeqOrder ==
  /\ \A n \in 1 .. Len(log) :
       log[n].seq = Cardinality({m \in 1 .. n :
                       SourceOf[log[m].pair] = SourceOf[log[n].pair]})
  /\ \A c \in Consumers : \A i, j \in 1 .. Len(Held(c)) :
       LET a == log[Held(c)[i]]
           b == log[Held(c)[j]]
       IN  i < j /\ SourceOf[a.pair] = SourceOf[b.pair] => a.seq < b.seq

\* A hot ring is the newest stretch of its pair's arrivals: no arrival
\* younger than a retained one is missing, none is there twice, none is
\* from another pair, no more than MaxEvents are kept, and, with a clock that
\* does not run backwards, nothing is more than MaxAge older than the newest
\* event, although only the front of the ring is examined for age.
RingIsNewest ==
  \A p \in Pairs :
    LET kept == {ring[p][i].n : i \in 1 .. Len(ring[p])}
    IN  /\ Len(ring[p]) <= MaxEvents
        /\ Increasing([i \in 1 .. Len(ring[p]) |-> ring[p][i].n])
        /\ \A n \in kept : /\ n \in 1 .. Len(log)
                           /\ log[n].pair = p
                           /\ \A m \in n .. Len(log) :
                                log[m].pair = p => m \in kept
        /\ \A i \in 1 .. Len(ring[p]) :
             ring[p][i].ingest >= Latest(ring[p]).ingest - MaxAge

\* The events of one request, session or broker are normalized in the order
\* in which they were sent; of a request, exactly the first sent[r] have
\* been enqueued, once each, also after a bus_full answer.
ProducerOrder ==
  /\ \A i, j \in 1 .. Len(Posts) :
       i < j /\ Posts[i].from = Posts[j].from => Posts[i].k < Posts[j].k
  /\ \A r \in Requests :
       {Posts[i].k : i \in {j \in 1 .. Len(Posts) : Posts[j].from = r}}
          = 1 .. sent[r]

\* What a WebSocket client may conclude from the frames it got, also when
\* the bus filled up half-way through a message or the connection was lost
\* before a frame and the session went on: up to the last message it has all
\* the frames of, the accepted counts add up to the events enqueued for it,
\* and a message of which any event is missing was answered with an error or
\* a shed_reason frame; and a message so answered was not enqueued to its
\* end.  Only with no frame lost, between two messages and at the end, does
\* that cover everything run_session has looked at.
WsAnswered ==
  \A w \in Sessions :
    /\ told[w] = Cardinality({i \in 1 .. Len(Posts) :
                               Posts[i].from = w /\ Posts[i].k <= heard[w]})
    /\ \A k \in 1 .. heard[w] :
         \/ \E i \in 1 .. Len(Posts) : Posts[i] = [from |-> w, k |-> k]
         \/ MsgEnd(w, k - 1) \in refused[w]
    /\ \A e \in refused[w], i \in 1 .. Len(Posts) :
         Posts[i] # [from |-> w, k |-> e]
    /\ link[w] /\ ws[w] \in {"open", "closed"} => heard[w] = tried[w]

\* When the normalizer returns at shutdown no request is still sending and
\* no session is left (so the TrySendError::Closed branches of the handlers
\* are never taken) and every enqueued event has been normalized: what
\* server.rs means by "wait for it to drain".  A consumer task returns only
\* after that and with nothing left, so the Closed branches of the fan-out,
\* which lose an event without counting it, are never taken either.
NormalizerDrains ==
  /\ norm = "done" =>
       /\ \A r \in Requests : http[r] # "sending"
       /\ LiveSessions = {}
       /\ \A o \in Requests \cup Sessions :
            Cardinality({n \in 1 .. Len(log) : log[n].post.from = o}) = sent[o]
  /\ \A c \in Consumers :
       task[c] = "exit" => norm = "done" /\ chan[c] = <<>> /\ buf[c] = <<>>

-----------------------------------------------------------------------------
(* Liveness                                                                *)

\* An event that was put on the bus does not stay on its way: it is
\* normalized, and then delivered or lost with its batch at every consumer,
\* during shutdown too; no batch below batch_size waits for ever.  Only the
\* exit of the process leaves one behind.
EventuallySettled ==
  \A o \in Origins : \A k \in 1 .. Len(Payload[o]) :
    LET post == [from |-> o, k |-> k]
    IN  OnTheWay(post) ~> (~OnTheWay(post) \/ phase = "exited")

\* Once the listener has stopped the process exits, unless a WebSocket
\* session is still open.
ShutdownCompletes ==
  (phase = "stopped") ~> (phase = "exited" \/ LiveSessions # {})

-----------------------------------------------------------------------------
(* Refinement                                                              *)

ColdFifo == INSTANCE LossyFifo WITH offered <- Offered("cold_writer"),
              pending <- buf["cold_writer"] \o chan["cold_writer"],
              done <- sink["cold_writer"]

EmbedFifo == INSTANCE LossyFifo WITH offered <- Offered("embedder"),
               pending <- buf["embedder"] \o chan["embedder"],
               done <- sink["embedder"]

\* Channel, batch buffer and sink of the cold writer together implement a
\* lossy FIFO of the normalizer's output, and so do those of the embedder,
\* which is only offered the selected pairs.
StoresAreLossyFifos == ColdFifo!Spec /\ EmbedFifo!Spec

-----------------------------------------------------------------------------
(* What a comment in the code says and the code does not do                *)

\* writer.rs: "Drain `rx` until closed": when the process exits after a
\* graceful shutdown, no consumer still holds an undelivered event.
ExitLeavesNothing ==
  phase = "exited" =>
    \A c \in Consumers : chan[c] = <<>> /\ buf[c] = <<>>
=============================================================================
