SPECIFICATION Spec
CONSTANTS
  CommandSet <- MCCommand
  CustomCases <- MCCustomCases
  StoreFails = TRUE
  None = None
INVARIANTS
  AllowedIffAcceptableUnlessNaN
  CodeMatchesReason
  NoReceiptNoEntry
  GuardrailAgrees
