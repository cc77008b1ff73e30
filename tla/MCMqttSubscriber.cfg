SPECIFICATION FairSpec
CONSTANTS
  Subs <- MCSubs
  Topics <- MCTopics
  RequestCap = 3
  BusDepth = 1
  MaxMessages = 3
  MaxOutages = 2
INVARIANTS RoutedAsSubscribed
PROPERTIES EventuallySubscribed
CHECK_DEADLOCK FALSE
