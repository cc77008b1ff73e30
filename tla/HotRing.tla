------------------------------ MODULE HotRing ------------------------------
(***************************************************************************)
(* The hot ring of one (source_id, kind) pair                              *)
(* (crates/store/src/hot_ring.rs).                                         *)
(*                                                                         *)
(* A ring is the sequence of its events, oldest first.  An event is a      *)
(* record with at least the field `ingest', the wall-clock reading the     *)
(* normalizer stamped on it.  Rings are only ever changed by Push: there   *)
(* is no timer, so an expired event stays until the next push to its ring. *)
(***************************************************************************)
EXTENDS Integers, Sequences

CONSTANTS MaxEvents,   \* HotRingConfig.max_events
          MaxAge       \* HotRingConfig.max_age, in clock units

ASSUME HotRingAssumption == /\ MaxEvents \in Nat \ {0}
                            /\ MaxAge \in Nat

\* while r.events.len() > max_events { pop_front }
CapByCount(ring) ==
  IF Len(ring) > MaxEvents
  THEN SubSeq(ring, Len(ring) - MaxEvents + 1, Len(ring))
  ELSE ring

\* Mutant: the cutoff comparison is off by one.
FirstFresh_Late(ring, cutoff) ==
  CHOOSE i \in 1 .. Len(ring) + 1 :
     /\ \A j \in 1 .. i - 1 : ring[j].ingest < cutoff - 1
     /\ i <= Len(ring) => ring[i].ingest >= cutoff - 1

\* The position of the first event that is not older than cutoff, or one
\* past the end when all are.
FirstFresh(ring, cutoff) ==
  CHOOSE i \in 1 .. Len(ring) + 1 :
     /\ \A j \in 1 .. i - 1 : ring[j].ingest < cutoff
     /\ i <= Len(ring) => ring[i].ingest >= cutoff

\* while front.ingest_ts < cutoff { pop_front }: only the front is looked at.
CapByAge(ring, cutoff) == SubSeq(ring, FirstFresh(ring, cutoff), Len(ring))

\* HotRings::push for the ring of the event's own pair.
Push(ring, e, now) == CapByAge(CapByCount(Append(ring, e)), now - MaxAge)

\* HotRings::latest: the back of the ring, i.e. the newest by arrival.
Latest(ring) == ring[Len(ring)]
=============================================================================
