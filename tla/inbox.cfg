SPECIFICATION SceneSpec
CONSTANTS
  k1 = k1
  k2 = k2
  c1 = c1
  c2 = c2
  t1 = t1
  t2 = t2
  a1 = a1
  a2 = a2
  b1 = b1
  b2 = b2
  Nobody = Nobody
  Company = {k1}
  Customer = {c1}
  Conversation = {t1, t2}
  Agent = {a1, a2}
  Offer = {o1}
  Worker = {w1}
  HomeOf <- Homes
  PeerIn <- OneCustomer
  Reader = {a1}
  MaxInbound = 2
  MaxWakes = 2
  MaxRemovals = 1
INVARIANTS
  OneLiveThread
  LifecycleAgrees
  DeskOrQueue
  PendingIsScheduled
PROPERTIES
  ClosedWasSeen
  WokenWhenDue
  EverySnoozeEnds
  AcceptedFromHolder
  EveryMessageNoted
  EveryOfferExpires
