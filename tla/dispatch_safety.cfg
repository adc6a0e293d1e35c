SPECIFICATION Spec
CONSTANTS
  p1 = p1
  p2 = p2
  r1 = r1
  w1 = w1
  w2 = w2
  Message = {1, 2}
  Direct = {1}
  Peer = {p1}
  Recipient = {r1}
  NoRecipient = NoRecipient
  Tenant = {1}
  Worker = {w1, w2}
  PeerOf <- OnePeer
  TenantOf <- OneCompany
  ClassOf <- Bulk
  DutyOf <- BulkDuty
  LeaseTicks = 1
  OrphanTicks = 2
  MaxAttempts = 2
  BackoffBase = 1
  BatchLimit = 2
  SlowWorkers = TRUE
  MaxCrashes = 1
  MaxClaims = 2
SYMMETRY Workers
INVARIANTS
  OneLeasePerConversation
  SingleOwner
  EvidenceFirst
PROPERTIES
  KeepsPromise
  AcceptedIsFinal
