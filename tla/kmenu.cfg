SPECIFICATION Spec
CHECK_DEADLOCK FALSE
CONSTANTS
  SymType <- MCSymType
  StrOrder <- MCStrOrder
  ParsesAs <- MCParsesAs
  Modules = "MODULES"
  Parents <- MCParents
  Entries <- MCEntries
  Target = "T"
  Const <- MCConst
  Assignments <- MCAssignments
INVARIANTS
  RewritesPreserve
  SubmenuSound
  ChoiceValuesTied
  LoopsFound
