CONSTANTS
  here = here
  Proc = {m1, m2}
  Nonce = {n1, n2}
  Command = {c1}
  Presentable = {c1}
  Verdict = {"allow", "deny"}
  Audience = {here}
  AudienceOf <- OneAudience
  Response = {x1}
  NoResponse = NoResponse
  NoReceipt = NoReceipt
  TTL = 0
  MaxTime = 0
  MaxIssued = 1
SPECIFICATION Spec
SYMMETRY Symmetry
CONSTRAINT FewReceipts
CHECK_DEADLOCK FALSE
PROPERTIES
  SequenceFollowsIssue
  ImplementsLedger
