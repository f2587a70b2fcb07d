SPECIFICATION Spec
CONSTANTS
  ByteBits = 2
  Backend = "verilog"
  Kinds = {"op", "opimm"}
  Values <- MCValues
INVARIANTS ResultMatches
