--------------------------- MODULE MCCampaignRun ---------------------------
(* One company. Recipient r1 may get commands 1 and 3, r2 command 2; command  *)
(* 4, when there is one, is a person's reply to r1.                           *)
EXTENDS CampaignRun, TLC

CONSTANTS p1, p2, r1, r2, w1, w2

Workers == Permutations({w1, w2})

Layout == [m \in Message |-> IF m = 2 THEN p2 ELSE p1]
OneCompany == [p \in Peer |-> 1]
Class == [m \in Message |-> IF m = 4 THEN "interactive" ELSE "bulk"]
BulkDuty == [w \in Worker |-> "bulk"]
MixedDuty == [w \in Worker |-> IF w = w1 THEN "bulk" ELSE "interactive"]
Behind == [r \in Recipient |-> IF r = r1 THEN p1 ELSE p2]
=============================================================================
