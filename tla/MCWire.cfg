SPECIFICATION FairSpec
CONSTANTS
  Verdict = {"allow", "deny"}
  Padding <- MCPadding
  Limit = 5
INVARIANT LineIntactUnlessSplit
PROPERTIES
  HandlerEnds
  ClientSettles
  ImplementsRemoteGuard
CHECK_DEADLOCK FALSE
