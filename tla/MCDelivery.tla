---------------------------- MODULE MCDelivery ----------------------------
(* Small instances of Delivery for TLC.                                    *)
EXTENDS Delivery

\* The token covers everything, does not cover the last event, or is unknown.
MCTokens == {[known |-> TRUE, allows |-> {1, 2, 3}],
             [known |-> TRUE, allows |-> {1, 2}],
             [known |-> FALSE, allows |-> {}]}
=============================================================================
