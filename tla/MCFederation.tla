---------------------------- MODULE MCFederation ----------------------------
EXTENDS Federation

CONSTANTS a, b, c

MCNodes == {a, b, c}
\* a and b are peers of one another; c has none.
MCPeersOf == [n \in MCNodes |-> IF n = a THEN {b, c} ELSE IF n = b THEN {a} ELSE {}]
MCEventsOf == [n \in MCNodes |-> IF n = b THEN 2 ELSE 0]
\* The second event of a node carries an earlier time than its first.
MCTsOf == <<2, 1>>
=============================================================================
