SPECIFICATION FairSpec
CONSTANTS
  r1 = r1 b1 = b1 s1 = s1 cam = cam door = door
  person = person motion = motion lock = lock
  Requests = {r1}
  Sessions = {s1}
  Brokers = {}
  Pairs <- MCPairs
  Sources <- MCSources
  SourceOf <- MCSourceOf
  EmbedPairs <- MCEmbed
  Payload <- MCPayloadSession
  MsgEnds <- MCMsgEnds
  Consumers = {"cold_writer"}
  BusDepth = 1
  BatchSize <- MCBatchSize
  MaxClock = 0
  MaxEvents = 1
  MaxAge = 0
INVARIANTS NormalizerDrains WsAnswered
PROPERTIES EventuallySettled ShutdownCompletes
CHECK_DEADLOCK FALSE
