CONSTANTS
  MaxPieces = 1
  Files <- LiteralHole
  Tables <- MCTables
  Results <- MCResults
  Values <- MCValues
SPECIFICATION Spec
INVARIANT LiteralsUntouched
