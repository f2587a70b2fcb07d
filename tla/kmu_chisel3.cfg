SPECIFICATION FairSpec
CONSTANTS
  NumCores = 3
  Backend = "chisel"
  MaxDim = 2
  MaxLaunches = 1
PROPERTIES ReadyCoreServed
