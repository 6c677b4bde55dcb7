SPECIFICATION FairAgentSpec
CONSTANTS
  Request = {r1}
  Verdict = {"allow", "deny"}
  MaxStops = 1
  MaxTurns = 2
  MaxCalls = 2
INVARIANTS
  ReportIsTrue
  RefusalMeansNothing
  ModelToldTheTruth
  ConversationComplete
PROPERTIES
  EveryThreadEnds
  AgentEnds
CHECK_DEADLOCK FALSE
