CONSTANTS
  Languages <- MCLanguages
  Dialects <- MCDialects
SPECIFICATION FairSpec
INVARIANTS
  NothingLeftBehind
  SuccessIsClean
  FirstFailureReported
  SchemaBeforeInference
PROPERTIES
  CloseBeforeStop
  Terminates
