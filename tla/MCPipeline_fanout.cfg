SPECIFICATION Spec
CONSTANTS
  r1 = r1 b1 = b1 s1 = s1 cam = cam door = door
  person = person motion = motion lock = lock
  Requests = {r1}
  Sessions = {}
  Brokers = {b1}
  Pairs <- MCPairs
  Sources <- MCSources
  SourceOf <- MCSourceOf
  EmbedPairs <- MCEmbed
  Payload <- MCPayloadFanout
  MsgEnds <- MCMsgEnds
  Consumers = {"embedder", "forwarder"}
  BusDepth = 1
  BatchSize <- MCBatchSize
  MaxClock = 1
  MaxEvents = 2
  MaxAge = 0
INVARIANTS TypeOK InOrder Accounting ProducerOrder SeqOrder RingIsNewest
PROPERTIES StoresAreLossyFifos
CHECK_DEADLOCK FALSE
