SPECIFICATION FairSpec
CONSTANTS
  Call = {c1, c2}
  Object = {o1, o2}
  Value <- MCValue
  Stringify <- MCStringify
  Verdict <- MCVerdict
  Throws = Throws
  Nothing = Nothing
  MaxWrites = 1
INVARIANTS
  FailClosed
  OneDecisionPerCall
  ExecutedAsAdmittedUnlessTouched
PROPERTY
  EveryCallDecided
CHECK_DEADLOCK FALSE
