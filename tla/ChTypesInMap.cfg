CONSTANTS
  Types <- InMap
  OverrideSets <- InMapOverride
SPECIFICATION Spec
INVARIANTS
  OverrideResolves
