----------------------------- MODULE MCReceipts -----------------------------
(* One message with a delivered, a read and a failed receipt, which happened *)
(* in that order (Thread), or two messages with a delivered and a read each  *)
(* or a failed and a delivered (Pair).                                       *)
EXTENDS Receipts, TLC

CONSTANTS m1, m2, n1, n2, s1, s2

Symmetric == Permutations({n1, n2}) \cup Permutations({s1, s2})

Single == [e \in Receipt |-> m1]
ThreadStates == [e \in Receipt |-> <<"delivered", "read", "failed">>[e]]

Pair == [e \in Receipt |-> IF e <= 2 THEN m1 ELSE m2]
PairStates == [e \in Receipt |-> <<"delivered", "read", "failed", "delivered">>[e]]
=============================================================================
