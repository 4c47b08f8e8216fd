SPECIFICATION MCSpec
CONSTANTS
  c1 = c1
  c2 = c2
  a = a
  b = b
  Contributions <- MCContributions
  Owners <- MCOwners
  NoOwner = NoOwner
  MaxRows = 3
  e1 = e1
  e2 = e2
  x1 = x1
  x2 = x2
  r1 = r1
  r2 = r2
  t1 = t1
  NoRun = NoRun
  Types <- MCTypes
  StoreBatches <- MCBatches
  Entities <- MCEntities
  Values <- MCValues
  Runs <- MCRuns
  Tokens <- MCTokens
  MaxEvents = 3
INVARIANTS
  OneVersionCounts PreparationStaysValid
  TablesFollowLog TokenDiesWithLease
PROPERTIES LogSpec
SYMMETRY Symmetry
CHECK_DEADLOCK FALSE
