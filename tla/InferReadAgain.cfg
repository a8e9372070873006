CONSTANTS
  Databases <- OneDatabase
  Queries <- ReadAgainQuery
  Computed = 0
SPECIFICATION Spec
INVARIANTS
  NullSound
