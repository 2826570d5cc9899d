SPECIFICATION Spec
CONSTANTS
  VARIATION_MAX = 1
  Texts <- PassingTexts
  Targets <- PassingTargets
  Allowed = {"plain", "passing"}
  MaxNodes = 3
INVARIANT BoardIsLine
CHECK_DEADLOCK FALSE
