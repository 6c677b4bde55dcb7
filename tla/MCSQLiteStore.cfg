CONSTANTS
  t1 = t1
  t2 = t2
  t3 = t3
  p = p
  q = q
  n1 = n1
  n2 = n2
  Store = {p, q}
  Thread = {t1, t2, t3}
  StoreOf <- TwoAndOne
  Nonce = {n1}
  Receipt <- Rows
  NoRow = NoRow
  Nobody = Nobody
  MaxCalls = 4
SPECIFICATION FairSpec
CHECK_DEADLOCK FALSE
INVARIANTS
  InsertMeetsNoRow
  ReturnedIsDurable
  SchemaBeforeUse
PROPERTIES
  NeverHandedOutTwice
  ImplementsEvidenceStore
  EveryCallEnds
