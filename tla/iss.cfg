SPECIFICATION FairSpec
CONSTANTS
  NumCores = 1
  NumWarps = 2
  NumThreads = 2
  Addr = {a0}
  Zero = 0
  Data <- MCData
  Result <- MCResult
  Takes <- MCTakes
  JalrTarget <- MCJalrTarget
  Address <- MCAddress
  Programs <- AnyPrograms
  Geometries <- SmallGeometries
  MaxBlocks = 2
  MaxLaunches = 2
  MayTimeout = TRUE
INVARIANTS CoordinatesMatchCore
PROPERTIES ImplementsScalarThreads WaitReturns
