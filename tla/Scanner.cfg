CONSTANTS
  MaxPieces = 4
  Source <- MCFiles
SPECIFICATION FairSpec
INVARIANTS
  TokensTile
  TokenGrammar
PROPERTIES
  ScanEnds
