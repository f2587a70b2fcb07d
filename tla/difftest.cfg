SPECIFICATION DiffSpec
CONSTANTS
  NumCores = 2
  Backend = "verilog"
  MaxDim = 2
  MaxLaunches = 2
  Addr = {0}
  MayCollide = FALSE
INVARIANTS NoFalseAlarm ShadowExact
