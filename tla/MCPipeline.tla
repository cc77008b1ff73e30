----------------------------- MODULE MCPipeline -----------------------------
(* Small instances of Pipeline for TLC.                                    *)
EXTENDS Pipeline, TLC

CONSTANTS r1, b1, s1, cam, door, person, motion, lock

\* Two sources; cam has two kinds.
MCPairs == {person, motion, lock}
MCSources == {cam, door}
MCSourceOf == person :> cam @@ motion :> cam @@ lock :> door
MCEmbed == {person, motion}

\* A batch racing a broker: three events of one pair, and one not embedded.
MCPayloadFanout ==
  [o \in Origins |-> IF o = b1 THEN <<person>> ELSE <<person, lock, person>>]

\* A single event racing a session of a two-event message and a single one.
MCPayloadSession == r1 :> <<person>> @@ s1 :> <<motion, person, lock>>

MCMsgEnds == [w \in Sessions |-> {2, 3}]

MCBatchSize == "cold_writer" :> 2 @@ "embedder" :> 1 @@ "forwarder" :> 2
=============================================================================
