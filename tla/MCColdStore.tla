---------------------------- MODULE MCColdStore ----------------------------
(* Small instances of ColdStore for TLC.                                   *)
EXTENDS ColdStore, TLC

CONSTANTS a, b

\* Three rows of one pair, two of them with one ts, one late; a row of a
\* second pair; a duplicate of the first with a newer ts.
R(i, p, t, n) == [id |-> i, pair |-> p, ts |-> t, size |-> n]
first == R(1, a, 1, 1)
tied  == R(2, a, 1, 2)
late  == R(3, a, 0, 1)
other == R(4, b, 1, 1)
again == R(1, a, 2, 1)

MCBatches == {<<first, tied>>, <<late>>, <<other, again>>, <<tied, late>>}

W(s, e, ps, n) == [start |-> s, end |-> e, pairs |-> ps, limit |-> n]
MCRequests == {W(0, 3, {a}, 1), W(0, 3, {a, b}, 2), W(1, 3, {a, b}, 1),
               W(2, 1, {a}, 1)}
=============================================================================
