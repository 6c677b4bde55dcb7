SPECIFICATION Spec
CONSTANTS
  Call = {c1, c2}
  Object = {o1, o2}
  Value <- MCValue
  Stringify <- MCStringify
  Verdict <- MCVerdict
  Throws = Throws
  Nothing = Nothing
  MaxWrites = 1
INVARIANT
  ExecutedAsAdmitted
CHECK_DEADLOCK FALSE
