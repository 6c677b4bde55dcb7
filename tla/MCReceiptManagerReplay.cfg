CONSTANTS
  here = here
  Proc = {m1, m2, m3}
  Nonce = {n1}
  Command = {c1, c2}
  Presentable = {c1}
  Verdict = {"allow", "deny"}
  Audience = {here}
  AudienceOf <- OneAudience
  Response = {x1}
  NoResponse = NoResponse
  NoReceipt = NoReceipt
  TTL = 0
  MaxTime = 1
  MaxIssued = 2
SPECIFICATION Spec
SYMMETRY Symmetry
CONSTRAINT FewReceipts
CHECK_DEADLOCK FALSE
INVARIANTS
  AtMostOneGrant
  ConsumedAccountedFor
  ConsumedWasAdmitted
  DecisionPersisted
  PublicAgrees
PROPERTY
  AdmissionRowsStable
