SPECIFICATION RacesSpec
CHECK_DEADLOCK FALSE
CONSTANTS
  scenes = {"sessions", "people", "push", "receipts", "drafting"}
  q1 = q1
  q2 = q2
  a = a
  b = b
  x = x
  y = y
  Request = {q1, q2}
  Call = {q1, q2}
  Session = {a, b}
  Link = {x, y}
  MaxAttempts = 2
  MaxPassword = 2
  NoLink = NoLink
  Person = {a, b, c}
  Founder = {a, b}
  Invite = {i}
  MaxServed = 4
  Nobody = Nobody
  Notice = {n}
  Device = {a, b}
  Endpoint = {x, y}
  Pusher = {w}
  PushAttempts = 2
  MaxRegistrations = 3
  MaxLapses = 1
  NoEndpoint = NoEndpoint
  m1 = m1
  Message = {m1, m2}
  LastReceipt = 3
  AboutOf <- Pair
  StateOf <- PairStates
  Normalizer = {q1, q2}
  Sweeper = {a, b}
  DrainLimit = 2
  SweepLimit = 3
  Millisecond = 2
  MaxClock = 3
  Campaign = {k1, k2}
  Sheet = {"leads"}
  NoSheet = NoSheet
  NoCampaign = NoCampaign
  Shared = {k1}
  MaxVersion = 5
  MaxTries = 2
SYMMETRY Symmetric
INVARIANTS
  OnlyOverlapOutlives
  LinkSpentOnce
  AnOwnerUnlessRaced
  OffForAReason
  ShownIsSaid
  LaunchedAsApproved
  NothingSentTwice
PROPERTIES
  JoinsByInvitation
  NeverRollsBack
