SPECIFICATION FairSpec
CONSTANTS
  p1 = p1
  p2 = p2
  r1 = r1
  w1 = w1
  w2 = w2
  Message = {1, 2, 3}
  Direct = {1, 2, 3}
  Peer = {p1, p2}
  Recipient = {}
  NoRecipient = NoRecipient
  Tenant = {1, 2}
  Worker = {w1}
  PeerOf <- LastAlone
  TenantOf <- TwoCompanies
  ClassOf <- Interactive
  DutyOf <- InteractiveDuty
  LeaseTicks = 1
  OrphanTicks = 2
  MaxAttempts = 1
  BackoffBase = 1
  BatchLimit = 1
  SlowWorkers = FALSE
  MaxCrashes = 1
  MaxClaims = 3
PROPERTIES
  SecondCompanyServed
