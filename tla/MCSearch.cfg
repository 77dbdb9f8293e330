SPECIFICATION Spec
CONSTANTS
  Settings <- MCSettings
  Feed <- MCFeed
  Queries <- MCQueries
  ChunkSize = 2
  CacheEntries = 1
  MaxScans = 2
  MaxReloads = 1
INVARIANTS MergerIsTheWalk CacheHoldsTheMatches
CHECK_DEADLOCK FALSE
