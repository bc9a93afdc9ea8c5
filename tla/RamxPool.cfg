SPECIFICATION MCSpec
CONSTANTS
  BlockNum = 4
  BlockSize = 2
  U8 = 8
  MaxOwners = 3
  MaxBytes = 14
INVARIANT TypeOK
INVARIANT BuffersMarked
INVARIANT StatsExact
PROPERTY ImplementsPool
PROPERTY RamImplementsPool
