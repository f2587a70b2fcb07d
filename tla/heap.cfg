SPECIFICATION FairSpec
CONSTANTS
  Modulus = 14
  Align = 2
  HeapBase = 4
  HeapEnd = 11
  MaxAllocs = 3
  Sizes <- MCSizes
INVARIANTS BlocksDisjoint AccessExact NoForeignData
PROPERTIES FirstFit AllocReturns
