----------------------------- MODULE MCDelivery -----------------------------
(* Three instances of the dispatcher, one of which runs; scene says which.    *)
(* "faults": a broadcast under control actions, slow workers and a crash.     *)
(* "run": a broadcast to two recipients that nobody stops, one worker.        *)
(* "recovery": two commands people sent in one conversation, and a crash.     *)
(* The instances share the variables; only their constants differ.            *)
EXTENDS CampaignRun, TLC

CONSTANTS p1, p2, r1, r2, w1, w2

VARIABLE scene

Layout == [m \in Message |-> p1]
OneCompany == [p \in Peer |-> 1]
Class == [m \in Message |-> "bulk"]
BulkDuty == [w \in Worker |-> "bulk"]
Behind == [r \in Recipient |-> p1]

\* Recipient r1 may get commands 1 and 3, r2 command 2.
L == INSTANCE CampaignRun WITH
  Message <- {1, 2, 3}, Direct <- {}, Peer <- {p1, p2}, Recipient <- {r1, r2},
  Worker <- {w1}, PeerOf <- (1 :> p1 @@ 2 :> p2 @@ 3 :> p1),
  TenantOf <- (p1 :> 1 @@ p2 :> 1), ClassOf <- [m \in {1, 2, 3} |-> "bulk"],
  DutyOf <- (w1 :> "bulk"), PeerTo <- (r1 :> p1 @@ r2 :> p2),
  SlowWorkers <- FALSE, MaxCrashes <- 0, PlanLimit <- 1, MaxStops <- 0

\* A worker of each traffic class, a command for each.
V == INSTANCE Dispatch WITH
  Direct <- {1, 3}, ClassOf <- (1 :> "interactive" @@ 3 :> "bulk"),
  DutyOf <- (w1 :> "interactive" @@ w2 :> "bulk"), SlowWorkers <- FALSE, OrphanTicks <- 2

DeliveryInit ==
  \/ scene = "faults" /\ RunInit
  \/ scene = "run" /\ L!RunInit
  \/ scene = "recovery" /\ V!Init /\ queue = NoQueue

DeliveryNext ==
  \/ scene = "faults" /\ RunNext /\ UNCHANGED scene
  \/ scene = "run" /\ L!RunNext /\ UNCHANGED scene
  \/ scene = "recovery" /\ V!Next /\ UNCHANGED <<scene, queue>>

\* The fairness of CampaignRun and of Dispatch, where it is asked for.
DeliveryFairness ==
  /\ WF_runVars(scene = "run" /\ L!Tick /\ UNCHANGED queue)
  /\ WF_runVars(scene = "run" /\ L!WorkerStep(w1) /\ UNCHANGED queue)
  /\ WF_runVars(scene = "run" /\ (L!Withdraw \/ L!Plan))
  /\ WF_runVars(scene = "run" /\ L!BecomesDue)
  /\ WF_runVars(scene = "recovery" /\ V!Tick /\ UNCHANGED queue)
  /\ \A w \in Worker : WF_runVars(scene = "recovery" /\ V!WorkerStep(w) /\ UNCHANGED queue)

DeliverySpec == DeliveryInit /\ [][DeliveryNext]_<<scene, runVars>> /\ DeliveryFairness

\* A broadcast that nobody stops finishes, and is completed only with no
\* recipient open (finishCampaignIfDrained).
RunFinishes ==
  /\ scene = "run" => L!CampaignFinishes
  /\ [](scene = "run" => L!CompletedIsDrained)

\* Copies of a command on the wire are bounded by the crashes (recovery, mayAutoRetry).
CopiesAreBounded == scene = "recovery" => V!CopiesBounded

\* Every command a person sent is decided, unless the ledger is poisoned.
CommandsDecided == scene = "recovery" => V!EveryCommandDecided
=============================================================================
