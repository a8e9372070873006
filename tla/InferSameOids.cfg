CONSTANTS
  Databases <- SameOids
  Queries <- Db1Queries
  Computed = 0
SPECIFICATION Spec
INVARIANTS
  ColumnsAreCatalogs
