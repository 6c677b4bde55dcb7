CONSTANTS
  Proc = {v1, v2, admin}
  Verifiers = {v1, v2}
  NoProc = NoProc
  Seed = {s1, s2, s3, s4, s5}
  NoSeed = NoSeed
  NoFile = NoFile
  Empty = Empty
  MaxFailures = 2
SPECIFICATION FairServiceSpec
CHECK_DEADLOCK FALSE
INVARIANT ExportedKeyVerifies
PROPERTY ServiceReturns
