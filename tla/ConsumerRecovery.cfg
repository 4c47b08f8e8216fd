SPECIFICATION OperatedSpec
CONSTANTS
  c1 = c1
  c2 = c2
  r1 = r1
  Shared = Shared
  Contributions <- MCContributions
  Owners <- MCOwners
  Readers <- MCReaders
  NoOwner = NoOwner
  MaxRows = 2
  MaxHosts = 2
PROPERTY InterruptedIsRecovered
