SPECIFICATION FairSpec
CONSTANTS
  NumCores = 3
  Backend = "verilog"
  MaxDim = 2
  MaxLaunches = 2
INVARIANTS DispatchExact IdleMeansComplete BoundedBypass
PROPERTIES LaunchCompletes
