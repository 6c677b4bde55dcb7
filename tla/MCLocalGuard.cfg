CONSTANTS
  m1 = m1
  k1 = k1
  Call = {c1, c2}
  Manager = {m1, m2}
  ManagerOf <- OneGuard
  Key = {k1}
  KeyOf <- OneKey
  Verdict = {"allow", "deny", "escalate"}
  Output = {x1, undefined}
  Hashable = {x1}
  None = None
  TTL = 1
  MaxTime = 2
  MaxHeld = 6
SPECIFICATION Spec
CONSTRAINT FewHeld
CHECK_DEADLOCK FALSE
INVARIANTS
  OneGrantPerManager
  EvidenceOfOwnRun
  DecisionsKept
