SPECIFICATION FairSpec
CONSTANTS
  NumWarps = 2
  NumThreads = 3
  StackDepth = 1
  Programs <- WarpPrograms
  Addr = {a0}
  Zero = 0
  Data <- MCData
  Result <- MCResult
  Takes <- MCTakes
  JalrTarget <- MCJalrTarget
  Address <- MCAddress
  OtherStores <- MCOtherStores
  MaxCtas = 2
INVARIANTS IssueCoherent
PROPERTIES ImplementsScalarThreads WarpsScheduled
