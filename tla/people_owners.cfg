SPECIFICATION PeopleSpec
CHECK_DEADLOCK FALSE
CONSTANTS
  Call = {q1, q2}
  Person = {a, b, c}
  Founder = {a, b}
  Invite = {i}
  MaxServed = 2
  Nobody = Nobody
INVARIANTS
  AnOwnerRemains
