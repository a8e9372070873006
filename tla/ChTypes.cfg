CONSTANTS
  Types <- MCTypes
  OverrideSets <- MCOverrideSets
SPECIFICATION Spec
INVARIANTS
  ParseFaithful
  GoTypeRight
  OverridesWin
  ParametersBindable
