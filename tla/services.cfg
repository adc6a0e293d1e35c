SPECIFICATION ServicesSpec
CHECK_DEADLOCK FALSE
CONSTANTS
  Email = {e1, e2}
  Mailer = {m1, m2}
  MaxAttempts = 2
  MaxLapses = 1
  Steps <- Workflow
  Contact = {c1, c2}
  Limit = 2
  MaxEvents = 2
  MaxBatch = 1
  MaxBacklog = 1
  MaxFaults = 2
  MaxBreaks = 2
  a = a
  b = b
  q = q
  d1 = d1
  d2 = d2
  Fact = {a, b, q}
  Unreadable = {q}
  Delivery = {d1, d2}
  Parts <- Posted
  Handler = {h1, h2}
  Drainer = {w1, w2}
  BatchSize = 1
  Company = {1, 2, 3}
  Place <- InOrder
  Capacity = 2
  OfferLimit = 3
  MaxRows = 2
  MaxBroken = 1
INVARIANTS
  FairDeal
  NobodyLeftOut
PROPERTIES
  KeepsInbox
  SettledIsFinal
  EveryEmailSettles
  RunEnds
  ListsNeverGoBack
  
  FactsComeIn
  TurnsCome
