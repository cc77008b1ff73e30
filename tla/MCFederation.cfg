SPECIFICATION FairSpec
CONSTANTS
  a = a
  b = b
  c = c
  Nodes <- MCNodes
  Root = a
  PeersOf <- MCPeersOf
  TsOf <- MCTsOf
  EventsOf <- MCEventsOf
  MaxHops = 3
  MaxRestarts = 1
INVARIANTS PartialCoverageShows CurrentIsRecent
PROPERTIES EventuallyAnswered
CHECK_DEADLOCK FALSE
