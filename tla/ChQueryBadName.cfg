CONSTANTS
  MaxPieces = 1
  Files <- BadName
  Tables <- MCTables
  Results <- MCResults
  Values <- MCValues
SPECIFICATION Spec
INVARIANT NamesDoNotMatter
