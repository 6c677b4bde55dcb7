CONSTANTS
  Thread = {t1, t2, t3}
  NoTime = NoTime
  Limit = 2
  Window = 4
  TicksPerSecond = 2
  MaxDelay = 2
  MaxTime = 9
  MaxAdmitted = 6
SPECIFICATION LimiterSpec
SYMMETRY Symmetry
CONSTRAINT Bounded
CHECK_DEADLOCK FALSE
INVARIANTS
  LimiterTypeOK
  LimitPerShorterWindow
PROPERTY
  PromiseKept
