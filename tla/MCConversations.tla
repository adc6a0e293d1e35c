-------------------------- MODULE MCConversations --------------------------
(* One customer with two conversation rows, the second for a message after   *)
(* the first was archived: one person who snoozes, or two people who hand    *)
(* the conversation over.  Or two companies with a customer and two people   *)
(* each.                                                                     *)
EXTENDS Conversations

CONSTANTS k1, k2, c1, c2, t1, t2, a1, a2, b1, b2

VARIABLE scene

Homes == [x \in Customer \cup Agent |-> IF x \in {c1, a1, a2} THEN k1 ELSE k2]
OneCustomer == [t \in Conversation |-> c1]
CustomerEach == [t \in Conversation |-> IF t = t1 THEN c1 ELSE c2]

\* The bounds of a scene, on what people and customers do.
Snoozing == /\ offers' = offers
            /\ \A t \in Conversation : conv'[t].assignee # a2 /\ ~conv'[t].removed
HandingOver == /\ \A t \in Conversation : conv'[t].wake = 0
               /\ \A c \in Customer : Written(c)' <= 1

SceneInit == Init /\ scene \in {"snoozes", "handoffs"}

SceneNext ==
  \/ scene = "snoozes" /\ Next /\ Snoozing /\ UNCHANGED scene
  \/ scene = "handoffs" /\ Next /\ HandingOver /\ UNCHANGED scene

SceneSpec ==
  /\ SceneInit
  /\ [][SceneNext]_<<vars, scene>>
  /\ \A w \in Worker : WF_vars(Work(w))

CompaniesInit == Init /\ scene = "companies"

CompaniesSpec ==
  /\ CompaniesInit
  /\ [][Next /\ UNCHANGED scene]_<<vars, scene>>
  /\ \A w \in Worker : WF_vars(Work(w))
=============================================================================
