------------------------------ MODULE MCSearch ------------------------------
(* A small instance of Search, and with it of VectorIndex, for TLC.        *)
EXTENDS Search, TLC

CONSTANTS a, b

V(i, p, t) == [id |-> i, pair |-> p, ts |-> t]

\* An old and a new row of a pair, a batch with two other versions of the
\* second, a row of a second pair.
MCBatches == {<<V(1, a, 0), V(2, a, 2)>>, <<V(2, a, 0), V(2, b, 1)>>, <<V(3, b, 0)>>}

\* Two events of the same similarity.
MCQueries == {<<5, 7, 5>>}

R(blank, s, e, ps, l) ==
  [blank |-> blank, start |-> s, end |-> e, pairs |-> ps, limit |-> l]

\* No time range is one that everything is in.
MCRequests == {R(FALSE, 0, 2, {a, b}, -1), R(FALSE, 0, 9, {a, b}, 9),
               R(FALSE, 1, 1, {a}, 0)}
=============================================================================
