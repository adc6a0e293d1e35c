SPECIFICATION ReceiptsSpec
CHECK_DEADLOCK FALSE
CONSTANTS
  m1 = m1
  m2 = m2
  n1 = n1
  n2 = n2
  s1 = s1
  s2 = s2
  Message = {m1}
  LastReceipt = 3
  AboutOf <- Single
  StateOf <- ThreadStates
  Normalizer = {n1}
  Sweeper = {s1}
  DrainLimit = 1
  SweepLimit = 3
  Millisecond = 1
  MaxClock = 3
INVARIANTS
  HistoryIsFolded
