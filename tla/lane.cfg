SPECIFICATION Spec
CONSTANTS
  ByteBits = 2
  Backend = "spinal"
  Kinds = {"op", "opimm", "load", "store", "branch", "csr", "unknown"}
  Values <- MCValues
INVARIANTS MemoryMatches ResultMatches FaultsMatch
CHECK_DEADLOCK FALSE
