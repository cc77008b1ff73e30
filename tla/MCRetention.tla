---------------------------- MODULE MCRetention ----------------------------
(* Small instances of Retention for TLC.                                   *)
EXTENDS Retention

CONSTANTS s, t, k, kv

\* kv is a versioned form of the kind k.
MCBare == (k :> k) @@ (kv :> k)
P1 == [source |-> s, kind |-> kv]
P2 == [source |-> t, kind |-> k]
MCPairs == {P1, P2}

R(i, p, time, n) == [id |-> i, pair |-> p, ts |-> time, size |-> n]
MCArrivals == {R(1, P1, 0, 2), R(2, P1, 1, 1), R(4, P2, 0, 1)}
MCEmbedded == {R(1, P1, 0, 2)}
MCTwo == {R(1, P1, 0, 2), R(4, P2, 0, 1)}

Q(src, kd, age, count, bytes, vage) ==
  [source |-> src, kind |-> kd, max_age |-> age, max_count |-> count,
   max_bytes |-> bytes, vector_max_age |-> vage]

\* Policies of one level and of several, with dimensions set by different
\* ones; one that names the versioned kind; one that does not pass the check.
MCConfigs ==
  {<<Q(None, k, 1, None, None, 1)>>,
   <<Q(None, k, 0, 2, None, 0), Q(s, None, 1, 1, None, None)>>,
   <<Q(None, kv, None, None, 2, None), Q(None, k, 1, None, 1, 1)>>,
   <<Q(s, None, 0, 1, None, 1)>>}
MCSingle == {<<Q(None, k, 1, None, None, 1)>>}
=============================================================================
