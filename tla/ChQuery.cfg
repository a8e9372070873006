CONSTANTS
  MaxPieces = 3
  Files <- MCFiles
  Tables <- MCTables
  Results <- MCResults
  Values <- MCValues
SPECIFICATION Spec
INVARIANTS
  DescribedIsTheStatement
  RunsAsDescribed
  OutputsComplete
  InsertTargetExists
