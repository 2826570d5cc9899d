SPECIFICATION Spec
CONSTANTS
  VARIATION_MAX = 2
  Texts <- MCTexts
  Targets <- MCTargets
  Allowed = {"plain", "short", "long"}
  MaxNodes = 5
INVARIANT BoardIsLine
INVARIANT NumberedByPly
INVARIANT FreedAtEnd
PROPERTY MovesAsWritten
PROPERTY LegalIsAccepted
CHECK_DEADLOCK FALSE
