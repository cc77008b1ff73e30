----------------------------- MODULE LossyFifo -----------------------------
(***************************************************************************)
(* What the pipeline promises to one consumer: a lossy queue.  Arrivals    *)
(* are numbered 1, 2, 3, ...; each is kept or dropped when it is offered;  *)
(* batches leave from the old end, delivered as a whole or lost as a       *)
(* whole.  Nothing is reordered, duplicated or invented, and what has been *)
(* delivered stays delivered.                                              *)
(***************************************************************************)
EXTENDS Integers, Sequences

VARIABLES offered,   \* how many arrivals have been offered
          pending,   \* kept and not delivered yet, oldest first
          done       \* delivered, in order

fifoVars == <<offered, pending, done>>

Init == /\ offered = 0
        /\ pending = <<>>
        /\ done = <<>>

\* The next arrival is kept...
Keep == /\ offered' = offered + 1
        /\ pending' = Append(pending, offered + 1)
        /\ UNCHANGED done

\* ...or dropped (or not meant for this consumer).
Drop == /\ offered' = offered + 1
        /\ UNCHANGED <<pending, done>>

\* The n oldest pending arrivals leave the queue.
Leave(n) == /\ pending' = SubSeq(pending, n + 1, Len(pending))
            /\ UNCHANGED offered

Deliver(n) == Leave(n) /\ done' = done \o SubSeq(pending, 1, n)

Lose(n) == Leave(n) /\ UNCHANGED done

Next == \/ Keep
        \/ Drop
        \/ \E n \in 1 .. Len(pending) : Deliver(n) \/ Lose(n)

Spec == Init /\ [][Next]_fifoVars
=============================================================================
