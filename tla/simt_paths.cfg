SPECIFICATION Spec
CONSTANTS
  NumWarps = 1
  NumThreads = 3
  StackDepth = 3
  Programs <- PathPrograms
  Addr = {a0}
  Zero = 0
  Data <- MCData
  Result <- MCResult
  Takes <- MCTakes
  JalrTarget <- MCJalrTarget
  Address <- MCAddress
  OtherStores = {}
  MaxCtas = 1
INVARIANTS PathsPartition StackBounded
