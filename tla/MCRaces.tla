------------------------------ MODULE MCRaces ------------------------------
(* Five places where transactions go on from what they read, side by side,   *)
(* one of which runs: the account of Sessions, the company of People, the    *)
(* devices of PushOutbox, the messages of Receipts and the wizard of         *)
(* Drafting.  scene says which; the variables of the others keep their first *)
(* values.                                                                   *)
EXTENDS Sessions, Drafting, PushOutbox, People, Receipts, TLC

CONSTANTS
  scenes, m1,
  q1, q2, a, b, x, y   \* rows and calls; each scene gives them a meaning of its own

VARIABLE scene

\* A delivered and a read receipt of one message, a failed and a delivered of
\* the other, in the order they happened.
Pair == [e \in Receipt |-> IF e <= 2 THEN m1 ELSE CHOOSE m \in Message : m # m1]
PairStates == [e \in Receipt |-> <<"delivered", "read", "failed", "delivered">>[e]]

ASSUME SessionsAssumption
ASSUME PeopleAssumption
ASSUME PushAssumption
ASSUME ReceiptAssumption
ASSUME DraftingAssumption

Symmetric == Permutations({q1, q2}) \cup Permutations({a, b}) \cup Permutations({x, y})

RacesInit == scene \in scenes /\ Init /\ PeopleInit /\ PushInit /\ ReceiptsInit
             /\ DraftingInit /\ (scene # "drafting" => wizard.sheet = NoSheet)

RacesNext ==
  \/ scene = "sessions" /\ Next /\ UNCHANGED <<scene, peopleVars, pushVars, receiptVars, draftVars>>
  \/ scene = "people" /\ PeopleNext /\ UNCHANGED <<scene, vars, pushVars, receiptVars, draftVars>>
  \/ scene = "push" /\ PushNext /\ UNCHANGED <<scene, vars, peopleVars, receiptVars, draftVars>>
  \/ scene = "receipts" /\ ReceiptsNext /\ UNCHANGED <<scene, vars, peopleVars, pushVars, draftVars>>
  \/ scene = "drafting" /\ DraftingNext /\ UNCHANGED <<scene, vars, peopleVars, pushVars, receiptVars>>

RacesSpec == RacesInit /\ [][RacesNext]_<<scene, vars, peopleVars, pushVars, receiptVars, draftVars>>

\* Every variable of the five systems has its declared type.
RacesTypeOK == SessionsTypeOK /\ PeopleTypeOK /\ PushTypeOK /\ ReceiptsTypeOK /\ DraftingTypeOK
=============================================================================
