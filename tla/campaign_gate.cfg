SPECIFICATION FairRunSpec
CONSTANTS
  p1 = p1
  p2 = p2
  r1 = r1
  r2 = r2
  w1 = w1
  w2 = w2
  Message = {1, 4}
  Direct = {4}
  Peer = {p1}
  Recipient = {r1}
  NoRecipient = NoRecipient
  Tenant = {1}
  Worker = {w1, w2}
  PeerOf <- Layout
  TenantOf <- OneCompany
  ClassOf <- Class
  DutyOf <- MixedDuty
  LeaseTicks = 1
  OrphanTicks = 1
  MaxAttempts = 1
  BackoffBase = 1
  BatchLimit = 2
  SlowWorkers = FALSE
  MaxCrashes = 1
  MaxClaims = 9
  PeerTo <- Behind
  Unsendable = {}
  PlanLimit = 2
  MaxStops = 0
PROPERTIES
  EveryCommandDecided
