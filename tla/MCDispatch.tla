----------------------------- MODULE MCDispatch -----------------------------
(* Small instances of Dispatch. OnePeer puts every command in one             *)
(* conversation of one company; LastAlone gives command 3 a conversation and *)
(* a company of its own, which planRound visits after the other.             *)
EXTENDS Dispatch, TLC

CONSTANTS p1, p2, r1, w1, w2

Workers == Permutations({w1, w2})

OnePeer == [m \in Message |-> p1]
LastAlone == [m \in Message |-> IF m = 3 THEN p2 ELSE p1]
OneCompany == [p \in Peer |-> 1]
TwoCompanies == [p \in Peer |-> IF p = p1 THEN 1 ELSE 2]
Interactive == [m \in Message |-> "interactive"]
OneOfEach == [m \in Message |-> IF m = 1 THEN "interactive" ELSE "bulk"]
EachDuty == [w \in Worker |-> IF w = w1 THEN "interactive" ELSE "bulk"]
Bulk == [m \in Message |-> "bulk"]
BulkDuty == [w \in Worker |-> "bulk"]
InteractiveDuty == [w \in Worker |-> "interactive"]

\* worker-loop.ts: one bad row must not stop "every other company's work".
\* Company 2 has a single command, so nothing of its own can hold it up.
SecondCompanyServed == \A m \in Direct : CompanyOf(m) = 2 =>
  (message[m].command \in Pending ~> message[m].command \in Decided)
=============================================================================
