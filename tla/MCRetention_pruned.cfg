SPECIFICATION FairSpec
CONSTANTS
  s = s t = t k = k kv = kv
  Sources = {s, t}
  Kinds = {k, kv}
  Bare <- MCBare
  Pairs <- MCPairs
  MaxTs = 1
  Configs <- MCSingle
  Arrivals <- MCTwo
  Embedded <- MCTwo
  MaxNow = 2
  MaxFailures = 0
  MaxDryRuns = 0
PROPERTIES VectorsPruned
