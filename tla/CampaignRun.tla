----------------------------- MODULE CampaignRun -----------------------------
(***************************************************************************)
(* One broadcast from launch to its end: the launch and control handlers   *)
(* (campaign.service.ts), the planner that turns recipients into commands  *)
(* (campaign-planner.service.ts), the dispatcher of module Dispatch that   *)
(* sends them and projects what became of them, and the receipts that      *)
(* settle recipients afterwards.                                           *)
(*                                                                         *)
(* The planner and the handlers lock the campaign's rows first, so each is *)
(* one step here; the dispatcher's own campaign writes are in Dispatch.    *)
(***************************************************************************)
EXTENDS Dispatch, DeliveryFold

CONSTANTS
  PeerTo,       \* the peer behind a recipient's identity
  Unsendable,   \* recipients whose content cannot be rendered any more
  PlanLimit,    \* how many recipients one plan takes
  MaxStops      \* bound: how often control or a retry moves stop_version

ASSUME CampaignAssumption ==
  /\ PeerTo \in [Recipient -> Peer] /\ Unsendable \subseteq Recipient
  /\ \A r, s \in Recipient : r # s => PeerTo[r] # PeerTo[s]
  /\ PlanLimit \in Nat \ {0} /\ MaxStops \in Nat

VARIABLE queue   \* the execution's row of campaign_work_queue

runVars == <<vars, queue>>
NoQueue == [there |-> FALSE, due |-> FALSE, stop |-> 0]

-----------------------------------------------------------------------------
(* Commands for recipients *)

\* The ids a recipient's next command may get; they are used in order.
Unused(r) == {m \in Message \ Direct : PeerOf[m] = PeerTo[r] /\ ~Created(m)}
CommandFor(r) == CHOOSE m \in Unused(r) : \A n \in Unused(r) : m <= n

\* Slip: the recipient goes on naming the command it had.
CommandUnlinked(chosen, rows, stop) ==
  LET new == {CommandFor(r) : r \in chosen}
  IN /\ \A r \in chosen : Unused(r) # {}
     /\ message' = [m \in Message |-> IF m \in new
          THEN [message[m] EXCEPT !.command = "queued", !.stop = stop]
          ELSE message[m]]
     /\ Schedule(new)
     /\ recipient' = [r \in Recipient |-> IF r \in chosen
          THEN [rows[r] EXCEPT !.state = "queued"] ELSE rows[r]]

\* INSERT INTO outbound_messages and outbox for each of them, and the command
\* of each recipient is the new one.
Command(chosen, rows, stop) ==
  LET new == {CommandFor(r) : r \in chosen}
  IN /\ \A r \in chosen : Unused(r) # {}
     /\ message' = [m \in Message |-> IF m \in new
          THEN [message[m] EXCEPT !.command = "queued", !.stop = stop]
          ELSE message[m]]
     /\ Schedule(new)
     /\ recipient' = [r \in Recipient |-> IF r \in chosen
          THEN [rows[r] EXCEPT !.state = "queued", !.command = CommandFor(r)]
          ELSE rows[r]]

-----------------------------------------------------------------------------
(* campaign.service: launch, control, retryFailures *)

\* The audience was frozen by validate; every eligible member is a recipient.
Launch(to) ==
  /\ campaign = "ready"
  /\ campaign' = to
  /\ execution' = [state |-> to, stop |-> 0]
  /\ queue' = [there |-> TRUE, due |-> to = "running", stop |-> 0]
  /\ recipient' = [r \in Recipient |->
       [state |-> "planned", command |-> 0, budget |-> "reserved"]]
  /\ UNCHANGED <<dbVars, wire, worker, environmentVars, crashes>>

BecomesDue == /\ queue.there /\ ~queue.due
              /\ queue' = [queue EXCEPT !.due = TRUE]
              /\ UNCHANGED vars

\* What every control action writes: the state, and a new stop_version.
Turn(to) == /\ execution.stop < MaxStops
            /\ campaign' = to
            /\ execution' = [state |-> to, stop |-> execution.stop + 1]
            /\ UNCHANGED <<wire, worker, environmentVars, crashes>>

Pause == /\ campaign = "running"
         /\ Turn("paused")
         /\ queue' = NoQueue
         /\ UNCHANGED <<dbVars, recipient>>

\* Only commands that wait, of recipients that wait, get the new version.
Waiting(m) == message[m].command \in {"queued", "retry_scheduled"}
Resume ==
  /\ campaign = "paused"
  /\ Turn("running")
  /\ queue' = [there |-> TRUE, due |-> TRUE, stop |-> execution'.stop]
  /\ message' = [m \in Message |->
       IF Waiting(m) /\ \E r \in RecipientsOf(m) : recipient[r].state = "queued"
       THEN [message[m] EXCEPT !.stop = execution'.stop] ELSE message[m]]
  /\ UNCHANGED <<outbox, row, earlier, attempts, recipient>>

Cancel ==
  LET stopped == {r \in Recipient : recipient[r].state \in {"planned", "queued"}}
      commands == {recipient[r].command : r \in stopped} \ {0}
  IN /\ campaign \in {"scheduled", "running", "paused"}
     /\ Turn("cancelled")
     /\ queue' = NoQueue
     /\ recipient' = [r \in Recipient |-> IF r \in stopped
          THEN Reserve(recipient[r], "cancelled", "released") ELSE recipient[r]]
     /\ DeleteRows(commands)
     /\ message' = [m \in Message |-> IF m \in commands /\ Waiting(m)
          THEN Settled(m, "cancelled", 0) ELSE message[m]]
     /\ UNCHANGED attempts

\* All failed recipients or none: one whose budget is no longer 'released'
\* (a receipt failed it after its acceptance) aborts the whole retry.
RetryFailures ==
  LET failed == {r \in Recipient : recipient[r].state = "failed"}
  IN /\ campaign = "dispatch_completed" /\ execution.state = "dispatch_completed"
     /\ failed # {} /\ \A r \in failed : recipient[r].budget = "released"
     /\ Turn("running")
     /\ Command(failed,
          [r \in Recipient |-> IF r \in failed
             THEN [recipient[r] EXCEPT !.budget = "reserved"] ELSE recipient[r]],
          execution'.stop)
     /\ UNCHANGED <<attempts, queue>>

-----------------------------------------------------------------------------
(* campaign-planner: makeRunnable, then a batch of recipients *)

Planned == {r \in Recipient : recipient[r].state = "planned"}
Runnable == queue.stop = execution.stop /\ execution.state \in {"scheduled", "running"}

Withdraw == /\ queue.there /\ queue.due /\ ~Runnable
            /\ queue' = NoQueue
            /\ UNCHANGED vars

Plan ==
  /\ queue.there /\ queue.due /\ Runnable
  /\ execution' = [execution EXCEPT !.state = "running"]
  /\ campaign' = IF execution.state = "scheduled" THEN "running" ELSE campaign
  /\ \E batch \in SUBSET Planned :
       /\ batch = Planned \/ Cardinality(batch) = PlanLimit
       /\ Cardinality(batch) <= PlanLimit
       /\ Command(batch \ Unsendable,
            [r \in Recipient |-> IF r \in batch \cap Unsendable
               THEN Reserve(recipient[r], "skipped", "released") ELSE recipient[r]],
            execution.stop)
       /\ queue' = IF batch = Planned THEN NoQueue ELSE queue
  /\ UNCHANGED <<attempts, wire, worker, environmentVars, crashes>>

\* A receipt for an accepted command, folded by reconcileReceipts.
Receive(m, says) ==
  /\ message[m].command = "provider_accepted"
  /\ recipient' = [r \in Recipient |-> IF r \in RecipientsOf(m)
       THEN [recipient[r] EXCEPT !.state = settleRecipient(@, says)] ELSE recipient[r]]
  /\ UNCHANGED <<dbVars, wire, worker, environmentVars, execution, campaign, crashes, queue>>

-----------------------------------------------------------------------------
(* Specification *)

RunInit == Init /\ queue = NoQueue

Operator == \/ \E to \in {"running", "scheduled"} : Launch(to)
            \/ Pause \/ Resume \/ Cancel \/ RetryFailures

RunNext == \/ Serve /\ UNCHANGED queue
           \/ Operator \/ BecomesDue \/ Withdraw \/ Plan
           \/ \E m \in Message, says \in {"failed", "delivered", "read"} : Receive(m, says)

RunSpec == RunInit /\ [][RunNext]_runVars

\* The planner runs in the bulk worker's own tick, before the dispatch.
RunFairness == /\ WF_runVars(Tick /\ UNCHANGED queue)
               /\ \A w \in Worker : WF_runVars(WorkerStep(w) /\ UNCHANGED queue)
               /\ WF_runVars(Withdraw \/ Plan) /\ WF_runVars(BecomesDue)
FairRunSpec == RunSpec /\ RunFairness

-----------------------------------------------------------------------------
(* Properties *)

\* The dispatcher's types and the queue row.
RunTypeOK == TypeOK /\ queue \in [there: BOOLEAN, due: BOOLEAN, stop: Nat]

CommandsTo(r) == {m \in Message \ Direct : PeerOf[m] = PeerTo[r]}

\* A broadcast reaches a recipient at most once, through crashes, expired
\* leases, pauses, cancellation, retries of failures and failure receipts:
\* all its commands to one recipient are processed once between them.
ReachesOnce == execution.state # "absent" => \A r \in Recipient :
  Cardinality(UNION {{m} \X wire[m] : m \in CommandsTo(r)}) <= 1

\* Two tables, one state: campaigns.control_state and campaign_executions.state
\* move together, whoever moves them; and money follows the recipient: it stays
\* reserved exactly while the recipient is open, is committed once the provider
\* accepted, held while the outcome is unknown, and given back otherwise.
BudgetFollows == execution.state # "absent" =>
  /\ campaign = execution.state
  /\ \A r \in Recipient : recipient[r].budget \in
       CASE Open(recipient[r].state) -> {"reserved"}
         [] recipient[r].state \in {"accepted", "delivered", "read"} -> {"committed"}
         [] recipient[r].state = "outcome_unknown" -> {"held_unknown"}
         [] recipient[r].state = "failed" -> {"released", "committed"}
         [] OTHER -> {"released"}

\* dispatch_completed is only ever said of an execution with no recipient open.
CompletedIsDrained == execution.state = "dispatch_completed" =>
  \A r \in Recipient : ~Open(recipient[r].state)

\* A queued recipient's command is really scheduled, and is nobody else's.
QueuedIsScheduled == \A r \in Recipient : recipient[r].state = "queued" =>
  /\ recipient[r].command \in outbox
  /\ message[recipient[r].command].command \in {"queued", "retry_scheduled"}
  /\ RecipientsOf(recipient[r].command) = {r}

\* An execution that nobody stops does not run for ever.
CampaignFinishes == execution.state = "running" ~> execution.state # "running"
=============================================================================
