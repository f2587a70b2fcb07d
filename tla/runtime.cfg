SPECIFICATION HostFairSpec
CONSTANTS
  NumCores = 2
  Backend = "verilog"
  MaxDim = 0
  MaxLaunches = 2
  Builds = {TRUE, FALSE}
  Requests <- MCRequests
  BlockLimit = 2
  WordMax = 7
  MayFault = TRUE
  MayTimeout = TRUE
  MayMismatch = TRUE
  MaxLoads = 2
INVARIANTS SuccessMeansComplete NoSilentFault RunsAsAsked NothingLeaks
PROPERTIES CallsReturn
