SPECIFICATION DeliverySpec
CONSTANTS
  p1 = p1
  p2 = p2
  r1 = r1
  r2 = r2
  w1 = w1
  w2 = w2
  Message = {1, 3}
  Direct = {}
  Peer = {p1}
  Recipient = {r1}
  NoRecipient = NoRecipient
  Tenant = {1}
  Worker = {w1, w2}
  PeerOf <- Layout
  TenantOf <- OneCompany
  ClassOf <- Class
  DutyOf <- BulkDuty
  LeaseTicks = 1
  OrphanTicks = 1
  MaxAttempts = 2
  BackoffBase = 1
  BatchLimit = 2
  SlowWorkers = TRUE
  MaxCrashes = 1
  MaxClaims = 9
  PeerTo <- Behind
  Unsendable = {}
  PlanLimit = 2
  MaxStops = 2
INVARIANTS
  
  BudgetFollows
  QueuedIsScheduled
  CopiesAreBounded
PROPERTIES
  RunFinishes
  CommandsDecided
