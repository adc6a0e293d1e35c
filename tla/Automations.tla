---------------------------- MODULE Automations ----------------------------
(***************************************************************************)
(* One run of an automation, from the event that starts it to its end      *)
(* (apps/api/src/automations/automation-runner.service.ts).  A call of     *)
(* execute is one transaction that holds the run's row of                  *)
(* automation_work_queue: it either plans the recipients, or reads back    *)
(* what became of their messages, carries out a bounded number of actions, *)
(* decides whether the run is over and says when to look again.            *)
(*                                                                         *)
(* A recipient's actions are kept as how many of them are completed: the   *)
(* next one waits, failed or is pending, and those after it are pending.   *)
(***************************************************************************)
EXTENDS Naturals, FiniteSets, Sequences, FiniteSetsExt

CONSTANTS
  Steps,    \* workflow_snapshot.steps: "send", "delay" or "label"
  Contact,  \* contacts the target may resolve to
  Limit     \* how many actions one call carries out

AutomationsAssumption ==
  Steps \in Seq({"send", "delay", "label"}) /\ Limit \in Nat \ {0}

VARIABLES
  run,        \* automation_runs.status
  work,       \* the run's row of automation_work_queue
  target,     \* automation_recipients: status, current_step and what its next action is
  message     \* the outbound message a recipient names, as the dispatcher leaves it

automationVars == <<run, work, target, message>>

Ended == {"completed", "partially_completed", "failed"}
Active == {"pending", "queued"}
Recipient == [status : Active \cup {"sent", "delivered", "failed", "outcome_unknown", "completed"},
              done : 0..Len(Steps), next : {"ready", "waiting", "waited", "failed"}]
NotPlanned == [status |-> "none", done |-> 0, next |-> "ready"]

AutomationsTypeOK ==
  /\ run \in {"none", "queued", "running"} \cup Ended
  /\ work \in {"none", "due", "later"}
  /\ target \in [Contact -> Recipient \cup {NotPlanned}]
  /\ message \in [Contact -> {"none", "queued", "accepted", "delivered", "unknown", "rejected"}]

AutomationsInit ==
  /\ run = "none" /\ work = "none"
  /\ target = [c \in Contact |-> NotPlanned]
  /\ message = [c \in Contact |-> "none"]

Planned == {c \in Contact : target[c] # NotPlanned}

\* enqueueEvent: the event, its run and the queue row are one transaction; a
\* repeated event finds itself.
Trigger ==
  /\ run = "none"
  /\ run' = "queued" /\ work' = "due"
  /\ UNCHANGED <<target, message>>

\* plan, and the call's scheduleNext.  A target that cannot be resolved fails
\* the run; one that resolves to nobody completes it.
PlanRun ==
  /\ work = "due" /\ run = "queued"
  /\ \/ /\ run' = "failed" /\ work' = "none"
        /\ UNCHANGED target
     \/ \E audience \in SUBSET Contact :
          /\ run' = IF audience = {} THEN "completed" ELSE "running"
          /\ work' = IF audience = {} THEN "none" ELSE "due"
          /\ target' = [c \in Contact |->
               IF c \in audience THEN [NotPlanned EXCEPT !.status = "pending"] ELSE target[c]]
  /\ UNCHANGED message

-----------------------------------------------------------------------------
(* One call on a running run.                                               *)

\* reconcileOutbound
Reconciled(r, said) ==
  IF r.status \notin {"queued", "sent", "delivered"} THEN r
  ELSE CASE said = "delivered" -> [r EXCEPT !.status = "delivered"]
         [] said = "accepted" -> [r EXCEPT !.status = "sent"]
         [] said = "unknown" -> [r EXCEPT !.status = "outcome_unknown"]
         [] said = "rejected" -> [r EXCEPT !.status = "failed"]
         [] OTHER -> r

\* executeAction: a delay is begun, and completed once it has passed; a
\* template that cannot be filled or addressed fails the recipient.
Carry(r, fails) ==
  CASE Steps[r.done + 1] = "delay" /\ r.next = "ready" -> [r EXCEPT !.next = "waiting"]
    [] Steps[r.done + 1] = "send" /\ fails -> [r EXCEPT !.next = "failed", !.status = "failed"]
    [] Steps[r.done + 1] = "send" /\ ~fails -> [r EXCEPT !.done = @ + 1, !.status = "queued"]
    [] OTHER -> [r EXCEPT !.done = @ + 1, !.next = "ready"]

\* nextAction: the first action of a recipient that is not completed, when it
\* is neither failed nor waiting.
Ready(r) == r.done < Len(Steps) /\ r.next \in {"ready", "waited"}

\* A recipient after n of its actions.
Carried(r, n, fails) ==
  LET after[k \in 0..n] == IF k = 0 THEN r
                           ELSE IF Ready(after[k - 1]) THEN Carry(after[k - 1], fails)
                           ELSE after[k - 1]
  IN after[n]

\* Slip: a recipient nothing was sent to yet does not keep the run open.
OpenQueued(rows) == {c \in Planned : rows[c].status = "queued"}
Open(rows) == {c \in Planned : rows[c].status \in Active}

\* finalize: first the recipients with every step done and no message.
Completed(rows, named) == [c \in Contact |->
  IF named[c] = "none" /\ rows[c].status = "pending" /\ rows[c].done = Len(Steps)
  THEN [rows[c] EXCEPT !.status = "completed"] ELSE rows[c]]

Outcome(rows) ==
  LET lost == {c \in Planned : rows[c].status \in {"failed", "outcome_unknown"}}
  IN IF lost = {} THEN "completed" ELSE IF lost = Planned THEN "failed" ELSE "partially_completed"

\* Slip: no action is left, so the run is not looked at again.
NextLookAtActions(rows) ==
  IF Open(rows) = {} \/ \A c \in Planned : rows[c].done = Len(Steps) THEN "none" ELSE "due"
\* scheduleNext: min(available_at) of what is pending or waiting.  Actions that
\* come after a waiting one have been available since they were planned.
NextLook(rows) ==
  IF Open(rows) = {} THEN "none"
  ELSE IF \E c \in Planned :
       Ready(rows[c]) \/ (rows[c].next # "ready" /\ rows[c].done + 1 < Len(Steps))
  THEN "due" ELSE "later"

\* How many actions a call takes in all.
Total(taken) == FoldSet(LAMBDA c, n : taken[c] + n, 0, Planned)

\* Which recipients' sends fail is open here; actions are taken until the
\* limit, or until none is ready.
Execute ==
  /\ work = "due" /\ run = "running"
  /\ \E fails \in SUBSET Planned, taken \in [Planned -> 0..Limit] :
       LET read == [c \in Contact |-> Reconciled(target[c], message[c])]
           carried == [c \in Contact |-> IF c \in Planned
             THEN Carried(read[c], taken[c], c \in fails) ELSE read[c]]
           rows == Completed(carried, message')
       IN /\ Total(taken) <= Limit
          /\ \A c \in Planned : \A k \in 0..taken[c] - 1 : Ready(Carried(read[c], k, c \in fails))
          /\ \/ Total(taken) = Limit
             \/ \A c \in Planned : ~Ready(carried[c])
          /\ message' = [c \in Contact |->
               IF \E k \in read[c].done + 1..carried[c].done : Steps[k] = "send"
               THEN "queued" ELSE message[c]]
          /\ target' = rows
          /\ run' = IF Open(target') = {} THEN Outcome(target') ELSE run
          /\ work' = NextLook(target')

-----------------------------------------------------------------------------
WaitEnds(c) ==
  /\ target[c].next = "waiting"
  /\ target' = [target EXCEPT ![c].next = "waited"]
  /\ UNCHANGED <<run, work, message>>

\* available_at: the end of a wait, or a second from now when none is awaited.
LookAgain ==
  /\ work = "later" /\ work' = "due"
  /\ \/ \E c \in Planned : target[c].next = "waited"
     \/ \A c \in Planned : target[c].next # "waiting"
  /\ UNCHANGED <<run, target, message>>

\* The dispatcher and the receipts; a command may be decided after the run.
Decide(c, said) ==
  /\ \/ message[c] = "queued" /\ said \in {"accepted", "unknown", "rejected"}
     \/ message[c] = "accepted" /\ said = "delivered"
  /\ message' = [message EXCEPT ![c] = said]
  /\ UNCHANGED <<run, work, target>>

\* The dispatcher's part of it, which is not left undone.
Decided(c) == message[c] = "queued" /\ \E said \in {"accepted", "unknown", "rejected"} : Decide(c, said)

AutomationsNext ==
  \/ Trigger \/ PlanRun \/ Execute \/ LookAgain
  \/ \E c \in Contact, said \in {"accepted", "delivered", "unknown", "rejected"} : Decide(c, said)
  \/ \E c \in Contact : WaitEnds(c)

\* The worker's loop comes round, waits end, and no message stays undecided.
AutomationsFairness ==
  /\ WF_automationVars(PlanRun \/ Execute) /\ WF_automationVars(LookAgain)
  /\ \A c \in Contact :
       /\ WF_automationVars(WaitEnds(c))
       /\ WF_automationVars(Decided(c))

AutomationsSpec == AutomationsInit /\ [][AutomationsNext]_automationVars /\ AutomationsFairness

-----------------------------------------------------------------------------
\* A run is not ended over a recipient's head: each one has all its steps
\* behind it, or failed at one, unless its message had been decided, for then
\* the run may end while the recipient waits between two steps.
NobodyLeftOut ==
  run \in Ended => \A c \in Planned :
    \/ target[c].done = Len(Steps) \/ target[c].next = "failed"
    \/ message[c] \notin {"none", "queued"}

\* A run that began ends, if every message is decided in time.
RunEnds == run \in {"queued", "running"} ~> run \in Ended
=============================================================================
