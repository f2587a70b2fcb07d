SPECIFICATION FairSpec
CONSTANTS
  SymType <- MCSymType
  ExprValue <- MCExprValue
  StrOrder <- MCStrOrder
  ParsesAs <- MCParsesAs
  Modules = "MODULES"
  Const <- MCConst
  Order <- MCOrder
  Prompt <- MCPrompt
  DirDep <- MCDirDep
  RevDep <- MCRevDep
  Implied <- MCImplied
  Defaults <- MCDefaults
  Bounds <- MCBounds
  Values <- MCValues
  Optional = {}
  Scripts <- MCScripts
  Handwritten <- MCHandwritten
  IntAnswers = {"3", "9"}
  Words <- MCWords
  WordOf <- MCWordOf
  MaxKeys = 2
INVARIANTS
  ValidCurrent
  SaveLoadStable
  ConfigConsistent
  ConfigNeverLost
  RebuildComplete
  DefconfigRoundTrip
  ChangeTracked
PROPERTIES
  KeepsFiles
  AskTerminates
