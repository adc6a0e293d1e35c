SPECIFICATION CompaniesSpec
CONSTANTS
  k1 = k1
  k2 = k2
  c1 = c1
  c2 = c2
  t1 = t1
  t2 = t2
  a1 = a1
  a2 = a2
  b1 = b1
  b2 = b2
  Nobody = Nobody
  Company = {k1, k2}
  Customer = {c1, c2}
  Conversation = {t1, t2}
  Agent = {a1, a2, b1, b2}
  Offer = {o1, o2}
  Worker = {w1}
  HomeOf <- Homes
  PeerIn <- CustomerEach
  Reader = {a1, b1}
  MaxInbound = 1
  MaxWakes = 0
  MaxRemovals = 0
PROPERTIES
  EveryCompanyServed
