CONSTANTS
  Files <- MCFiles
  Names = {"a", "b"}
  ErrorLimit = 1
  Dialects = {"postgres", "clickhouse"}
SPECIFICATION FairSpec
INVARIANTS
  BadQueryIsReported
  QueriesTile
  ArgsComplete
  DocIsAbove
PROPERTIES
  ParseEnds
