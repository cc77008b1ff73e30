SPECIFICATION Spec
CONSTANTS
  a = a b = b
  Pairs = {a, b}
  MaxTs = 2
  Batches <- MCBatches
  Requests <- MCRequests
  Cutoffs = {1, 2}
  Keeps = {0, 1}
  Budgets = {2}
INVARIANTS TypeOK ScanSound ScanComplete LatestIsNewest
PROPERTIES NoOverwrite
