SPECIFICATION FairSpec
CONSTANTS
  s = s t = t k = k kv = kv
  Sources = {s, t}
  Kinds = {k, kv}
  Bare <- MCBare
  Pairs <- MCPairs
  MaxTs = 1
  Configs <- MCConfigs
  Arrivals <- MCArrivals
  Embedded <- MCEmbedded
  MaxNow = 2
  MaxFailures = 1
  MaxDryRuns = 1
INVARIANTS TypeOK Enforced DryRunBounds
PROPERTIES NothingUndue EventuallyExpired
