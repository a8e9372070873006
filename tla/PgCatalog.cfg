CONSTANTS
  PgType <- MCPgType
  PgEnum <- MCPgEnum
  PgClass <- MCPgClass
  PgAttribute <- MCPgAttribute
  OID <- MCOID
  Known <- MCKnown
  Request <- MCRequest
SPECIFICATION Spec
INVARIANTS
  AnswersDescribeCatalog
PROPERTIES
  ImplementsTypeFetcher
  CallEnds
