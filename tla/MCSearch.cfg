SPECIFICATION SearchSpec
CONSTANTS
  a = a b = b
  Pairs = {a, b}
  Models = {m1, m2}
  Batches <- MCBatches
  Cutoffs = {1}
  Ids = {1, 2, 3}
  Queries <- MCQueries
  Requests <- MCRequests
  DefaultSearchLimit = 1
  MaxSearchLimit = 2
INVARIANTS TypeOK NoGhosts MissingIsExpired OneRowPerEvent OneModel SearchFaithful
