CONSTANTS
  Languages <- MCLanguages
  Dialects <- MCDialects
SPECIFICATION Spec
INVARIANT LogsBeforeRemoval
