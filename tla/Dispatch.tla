------------------------------ MODULE Dispatch ------------------------------
(***************************************************************************)
(* The outbound dispatcher: the command table outbound_messages, the       *)
(* outbox with its leases, the ledger outbound_attempts, and the workers   *)
(* that drain them (apps/api/src/channels/dispatcher.service.ts, driven by *)
(* outboundTick in apps/api/src/workers/worker-roles.ts).                  *)
(*                                                                         *)
(* Every action is one database transaction or one network call, because   *)
(* that is where another worker, a crash or the clock can come between.    *)
(* Durations are counted in ticks of Tick: a lease, a backoff and the age  *)
(* of an attempt run down (or up) to a cap, so that no absolute time is    *)
(* kept and the state space stays finite.                                  *)
(***************************************************************************)
EXTENDS Naturals, Sequences, FiniteSets

CONSTANTS
  Message,        \* ids of commands, numbered; an unused one is taken lowest first
  Direct,         \* the commands people send; the others belong to broadcasts
  Peer,           \* (connection, peer_identity): the conversation key
  Recipient,      \* rows of campaign_recipients
  NoRecipient,    \* campaign_recipient_id IS NULL
  Tenant,         \* companies, numbered in the order planRound visits them
  Worker,         \* worker processes
  PeerOf,         \* who a command goes to
  TenantOf,       \* the company (and its one connection) a peer belongs to
  ClassOf,        \* traffic_class of a command
  DutyOf,         \* the traffic class a worker drains
  LeaseTicks,     \* LEASE_SECONDS
  OrphanTicks,    \* olderThanSeconds of recoverOrphanedAttempts
  MaxAttempts,    \* MAX_ATTEMPTS
  BackoffBase,    \* BACKOFF_BASE_SECONDS
  BatchLimit,     \* what a grant lets one claim take
  SlowWorkers,    \* TRUE when a live worker may outlast its lease
  MaxCrashes,     \* bound: how many times worker processes die
  MaxClaims       \* bound: how often one outbox row may be claimed

ASSUME ParameterAssumption ==
  /\ Message \subseteq Nat \ {0} /\ Direct \subseteq Message
  /\ Tenant \subseteq Nat
  /\ NoRecipient \notin Recipient
  /\ PeerOf \in [Message -> Peer] /\ TenantOf \in [Peer -> Tenant]
  /\ ClassOf \in [Message -> {"interactive", "bulk"}]
  /\ DutyOf \in [Worker -> {"interactive", "bulk"}]

ASSUME DurationAssumption ==
  /\ LeaseTicks \in Nat \ {0} /\ OrphanTicks \in Nat
  /\ MaxAttempts \in Nat \ {0} /\ BatchLimit \in Nat \ {0}
  /\ MaxCrashes \in Nat /\ MaxClaims \in Nat
  /\ SlowWorkers \in BOOLEAN
  /\ \A n \in 1..MaxAttempts : BackoffBase * 2 ^ (n - 1) \in Nat

VARIABLES
  message,        \* outbound_messages
  outbox,         \* the ids that have an outbox row
  row,            \* that row's columns
  earlier,        \* same-conversation rows whose available_at comes first
  attempts,       \* outbound_attempts, attempt_no as index
  wire,           \* attempt numbers whose request the provider processed
  worker,         \* what each worker process holds in memory
  refused,        \* peers permitSend would refuse now
  disconnected,   \* companies whose connection is disconnected
  recipient,      \* campaign_recipients with their budget reservation
  execution,      \* campaign_executions: state and stop_version
  campaign,       \* campaigns.control_state
  crashes         \* how many processes have died

dbVars == <<message, outbox, row, earlier, attempts>>
campaignVars == <<recipient, execution, campaign>>
environmentVars == <<refused, disconnected>>
vars == <<dbVars, wire, worker, environmentVars, campaignVars, crashes>>

-----------------------------------------------------------------------------
(* Values *)

Pending == {"queued", "dispatching", "retry_scheduled"}
Decided == {"provider_accepted", "rejected", "skipped", "cancelled", "failed",
            "outcome_unknown"}
CommandState == {"absent"} \cup Pending \cup Decided

\* provider is the attempt whose provider id the command carries, 0 for NULL;
\* stop is campaign_stop_version.
MessageRow == [command: CommandState, version: Nat, provider: Nat, stop: Nat]

\* leased: lease_until IS NOT NULL; left: ticks until it has passed.
OutboxRow == [delay: Nat, tries: Nat, leased: BOOLEAN, left: Nat]
EmptyRow == [delay |-> 0, tries |-> 0, leased |-> FALSE, left |-> 0]

Outcome == {"open", "accepted", "definitely_rejected", "outcome_unknown"}
Attempt == [age: Nat, outcome: Outcome]

\* What a transport answers: classifyOutcome, with "retryable" for a
\* definitely_rejected answer worth trying again.
Answer == {"accepted", "definitely_rejected", "retryable", "outcome_unknown"}
Result == {"accepted", "rejected", "outcome_unknown", "retry", "none"}

Claimed == [msg: Message, version: Nat \ {0}, tries: Nat \ {0},
            disconnected: BOOLEAN, recipient: Recipient \cup {NoRecipient}]
NoClaim == [msg |-> 0]

RecipientState == {"absent", "planned", "queued", "in_flight", "accepted",
                   "delivered", "read", "failed", "skipped", "cancelled",
                   "outcome_unknown"}
BudgetState == {"none", "reserved", "committed", "released", "held_unknown"}
RecipientRow == [state: RecipientState, command: Nat, budget: BudgetState]
CampaignState == {"ready", "scheduled", "running", "paused",
                  "dispatch_completed", "cancelled"}

Step == {"idle", "recover", "claim", "prepare", "send", "record", "project",
         "finish"}
Idle == [step |-> "idle", plan |-> {}, todo |-> {}, claim |-> NoClaim,
         attempt |-> 0, answer |-> "outcome_unknown", result |-> "none",
         drained |-> FALSE]
WorkerRow == [step: Step, plan: SUBSET Tenant, todo: SUBSET Claimed,
              claim: Claimed \cup {NoClaim}, attempt: Nat, answer: Answer,
              result: Result, drained: BOOLEAN]

Created(m) == message[m].command # "absent"

-----------------------------------------------------------------------------
(* The worker's own program: plan a round, then company by company recover, *)
(* claim a batch and dispatch it one message at a time.                     *)

FirstOf(companies) == CHOOSE t \in companies : \A u \in companies : t <= u

NextCompany(wk) ==
  LET rest == wk.plan \ {FirstOf(wk.plan)}
  IN [Idle EXCEPT !.plan = rest,
                  !.step = IF rest = {} THEN "idle" ELSE "recover"]

\* What the worker turns to once the message in hand is dealt with.
Proceed(wk) ==
  IF wk.todo = {} THEN NextCompany(wk)
  ELSE [Idle EXCEPT !.step = "prepare", !.plan = wk.plan, !.todo = wk.todo]

\* An exception leaves the tick: the rest of the batch and of the round go.
Throws(w) == /\ worker' = [worker EXCEPT ![w] = Idle]
             /\ UNCHANGED <<dbVars, wire, campaignVars>>

Leased(m) == m \in outbox /\ row[m].leased
LeaseLive(m) == Leased(m) /\ row[m].left > 0
\* Slip: a lease that has run out still keeps the row to itself.
AvailableUnleased(m) == m \in outbox /\ row[m].delay = 0 /\ ~row[m].leased
Available(m) == m \in outbox /\ row[m].delay = 0 /\ ~LeaseLive(m)

CompanyOf(m) == TenantOf[PeerOf[m]]

\* dispatcher.offers: who has something ready in this class. planRound visits
\* them in this order and grants each at least one slot.
Offering(class) == {t \in Tenant : \E m \in outbox :
                      CompanyOf(m) = t /\ ClassOf[m] = class /\ Available(m)}

StartRound(w) ==
  /\ worker[w].step = "idle"
  /\ Offering(DutyOf[w]) # {}
  /\ worker' = [worker EXCEPT ![w] = [Idle EXCEPT !.step = "recover",
                                         !.plan = Offering(DutyOf[w])]]
  /\ UNCHANGED <<dbVars, wire, environmentVars, campaignVars, crashes>>

-----------------------------------------------------------------------------
(* Writing a command *)

\* Slip: settling does not bump the version.
SettledSameVersion(m, command, provider) ==
  [message[m] EXCEPT !.command = command,
                     !.provider = IF provider = 0 THEN @ ELSE provider]
\* settle(): every write bumps the version; a provider id, once there, stays.
Settled(m, command, provider) ==
  [message[m] EXCEPT !.command = command, !.version = @ + 1,
                     !.provider = IF provider = 0 THEN @ ELSE provider]

\* Slip: no CHECK ties the accepted state to the provider id.
Unchecked(r) == r.command \in CommandState
\* outbound_messages_accepted_ck, which PostgreSQL checks on every write.
AcceptedCheck(r) == (r.command = "provider_accepted") <=> (r.provider # 0)

DeleteRows(gone) ==
  /\ outbox' = outbox \ gone
  /\ row' = [m \in Message |-> IF m \in gone THEN EmptyRow ELSE row[m]]
  /\ earlier' = [m \in Message |-> IF m \in gone THEN {} ELSE earlier[m] \ gone]

Neighbours(m) == {n \in outbox \ {m} : PeerOf[n] = PeerOf[m]}

\* New commands get their outbox rows, available at once.
Schedule(new) ==
  /\ outbox' = outbox \cup new
  /\ row' = [m \in Message |-> IF m \in new THEN EmptyRow ELSE row[m]]
  /\ earlier' = [n \in Message |->
       IF n \in new THEN {k \in Neighbours(n) : row[k].delay = 0}
       ELSE IF n \in outbox /\ row[n].delay > 0
            THEN earlier[n] \cup {m \in new : PeerOf[m] = PeerOf[n]}
            ELSE earlier[n]]

\* The lease is given up; available_at is d from now, among the others'.
PlaceRow(m, d) ==
  /\ row' = [row EXCEPT ![m] = [EmptyRow EXCEPT !.delay = d, !.tries = row[m].tries]]
  /\ earlier' = [n \in Message |->
       IF n = m THEN {k \in Neighbours(m) : row[k].delay <= d}
       ELSE IF n \in Neighbours(m) /\ row[n].delay > d
            THEN earlier[n] \cup {m} ELSE earlier[n] \ {m}]

-----------------------------------------------------------------------------
(* The campaign rows a command carries with it *)

RecipientsOf(m) == {r \in Recipient : recipient[r].command = m}

Open(state) == state \in {"planned", "queued", "in_flight"}
\* Slip: what is in flight is forgotten. Slip: an unknown outcome counts as open.
DrainedOfWaiting(rows) == \A r \in Recipient : rows[r].state \notin {"planned", "queued"}
DrainedOfUnknown(rows) ==
  \A r \in Recipient : ~Open(rows[r].state) /\ rows[r].state # "outcome_unknown"
Drained(rows) == \A r \in Recipient : ~Open(rows[r].state)

\* finishCampaignIfDrained, once the open recipients have been read.
FinishIf(drained) ==
  /\ execution' = IF drained /\ execution.state = "running"
                  THEN [execution EXCEPT !.state = "dispatch_completed"]
                  ELSE execution
  /\ campaign' = IF drained /\ campaign = "running"
                 THEN "dispatch_completed" ELSE campaign

\* Moves one reservation, which every projection does only from 'reserved'.
Reserve(r, state, budget) ==
  [r EXCEPT !.state = state,
            !.budget = IF @ = "reserved" THEN budget ELSE @]

\* Slip: a rejection keeps the money reserved.
ProjectedUnreleased(r, result) ==
  CASE result = "accepted" -> Reserve(r, "accepted", "committed")
    [] result = "rejected" -> [r EXCEPT !.state = "failed"]
    [] result = "outcome_unknown" -> Reserve(r, "outcome_unknown", "held_unknown")
    [] OTHER -> [r EXCEPT !.state = "queued"]
\* campaignOutcomeProjection.
Projected(r, result) ==
  CASE result = "accepted" -> Reserve(r, "accepted", "committed")
    [] result = "rejected" -> Reserve(r, "failed", "released")
    [] result = "outcome_unknown" -> Reserve(r, "outcome_unknown", "held_unknown")
    [] OTHER -> [r EXCEPT !.state = "queued"]

-----------------------------------------------------------------------------
(* Environment: people, the provider's rules, the clock, dying processes *)

\* queueAuthorized: the command and its outbox row in one transaction. Ids
\* stand for creation order within a conversation.
Enqueue(m) ==
  /\ m \in Direct /\ ~Created(m)
  /\ CompanyOf(m) \notin disconnected
  /\ \A n \in Direct : n < m /\ PeerOf[n] = PeerOf[m] => Created(n)
  /\ message' = [message EXCEPT ![m].command = "queued"]
  /\ Schedule({m})
  /\ UNCHANGED <<attempts, wire, worker, environmentVars, campaignVars, crashes>>

\* A broadcast as the dispatcher meets it: launched, and planned in one go, a
\* command for each recipient. Module CampaignRun has its handlers instead.
Broadcast(link) ==
  LET new == {link[r] : r \in Recipient}
  IN /\ execution.state = "absent" /\ Recipient # {}
     /\ \A m \in new : ~Created(m) /\ ClassOf[m] = "bulk"
     /\ \A r, s \in Recipient : r # s =>
          PeerOf[link[r]] # PeerOf[link[s]] /\ CompanyOf(link[r]) = CompanyOf(link[s])
     /\ execution' = [state |-> "running", stop |-> 0] /\ campaign' = "running"
     /\ recipient' = [r \in Recipient |->
          [state |-> "queued", command |-> link[r], budget |-> "reserved"]]
     /\ message' = [m \in Message |->
          IF m \in new THEN [message[m] EXCEPT !.command = "queued"] ELSE message[m]]
     /\ Schedule(new)
     /\ UNCHANGED <<attempts, wire, worker, environmentVars, crashes>>

\* The service window, suppression, consent, approval, expiry and readiness:
\* everything permitNow reads at dispatch that is not modelled by name.
ChangePermit(p) ==
  /\ refused' = IF p \in refused THEN refused \ {p} ELSE refused \cup {p}
  /\ UNCHANGED <<dbVars, wire, worker, disconnected, campaignVars, crashes>>

\* channel.service disconnect: disconnected_at is set and every credential of
\* the connection revoked; a row is never connected again.
Disconnect(t) ==
  /\ t \notin disconnected
  /\ disconnected' = disconnected \cup {t}
  /\ UNCHANGED <<dbVars, wire, worker, refused, campaignVars, crashes>>

Lower(n) == IF n > 0 THEN n - 1 ELSE 0

\* Messages some live worker still has in hand.
InHand(w) == {c.msg : c \in worker[w].todo} \cup {worker[w].claim.msg}

Tick ==
  /\ SlowWorkers \/ \A w \in Worker : \A m \in InHand(w) \cap outbox :
                       row[m].leased => row[m].left > 1
  /\ row' = [m \in Message |-> [row[m] EXCEPT !.delay = Lower(@),
                                              !.left = Lower(@)]]
  /\ attempts' = [m \in Message |-> [i \in DOMAIN attempts[m] |->
       IF attempts[m][i].outcome = "open" /\ attempts[m][i].age <= OrphanTicks
       THEN [attempts[m][i] EXCEPT !.age = @ + 1] ELSE attempts[m][i]]]
  /\ UNCHANGED <<message, outbox, earlier, wire, worker, environmentVars,
                 campaignVars, crashes>>

Crash(w) ==
  /\ worker[w].step # "idle"
  /\ crashes < MaxCrashes
  /\ crashes' = crashes + 1
  /\ worker' = [worker EXCEPT ![w] = Idle]
  /\ UNCHANGED <<dbVars, wire, environmentVars, campaignVars>>

-----------------------------------------------------------------------------
(* recoverOrphanedAttempts: one transaction over a company's open attempts *)

Orphans(t, m) == {i \in DOMAIN attempts[m] :
                    /\ CompanyOf(m) = t
                    /\ attempts[m][i].outcome = "open"
                    /\ attempts[m][i].age > OrphanTicks}

\* One settle per orphan, and none of them names a version.
Unknown(t, m) ==
  [message[m] EXCEPT !.command = "outcome_unknown",
                     !.version = @ + Cardinality(Orphans(t, m))]

Recover(w) ==
  /\ worker[w].step = "recover"
  /\ LET t == FirstOf(worker[w].plan)
         lost == {m \in Message : Orphans(t, m) # {}}
         rows == [r \in Recipient |->
                    IF recipient[r].command \in lost
                    THEN Projected(recipient[r], "outcome_unknown")
                    ELSE recipient[r]]
     IN IF \A m \in lost : AcceptedCheck(Unknown(t, m))
        THEN /\ message' = [m \in Message |->
                              IF m \in lost THEN Unknown(t, m) ELSE message[m]]
             /\ attempts' = [m \in Message |-> [i \in DOMAIN attempts[m] |->
                  IF i \in Orphans(t, m)
                  THEN [age |-> 0, outcome |-> "outcome_unknown"]
                  ELSE attempts[m][i]]]
             /\ DeleteRows(lost)
             /\ recipient' = rows
             /\ FinishIf(/\ \E r \in Recipient : recipient[r].command \in lost
                         /\ Drained(rows))
             /\ worker' = [worker EXCEPT ![w].step = "claim"]
             /\ UNCHANGED wire
        ELSE Throws(w)
  /\ UNCHANGED <<environmentVars, crashes>>

-----------------------------------------------------------------------------
(* claim *)

\* Slip: a broadcast's command is taken like any other.
DispatchableAlways(m) == m \in Message
\* A broadcast's command is taken only while its recipient is queued, its
\* execution runs, and it carries the execution's own stop_version.
Dispatchable(m) == \A r \in RecipientsOf(m) :
  /\ recipient[r].state = "queued"
  /\ execution.state = "running"
  /\ message[m].stop = execution.stop

Eligible(m, t, class) ==
  /\ CompanyOf(m) = t /\ ClassOf[m] = class
  /\ Available(m) /\ Dispatchable(m)
  /\ \A n \in Neighbours(m) : ~LeaseLive(n)

\* DISTINCT ON (connection_id, peer_identity) ... ORDER BY available_at.
Candidates(t, class) == {m \in outbox : Eligible(m, t, class)
                           /\ \A n \in earlier[m] : ~Eligible(n, t, class)}

\* Slip: only leases that have not run out close the gate.
GateFreeOfLive(taken) == \A m \in taken : \A n \in Neighbours(m) :
  ~LeaseLive(n) /\ n \notin taken
\* outbox_dispatch_gate_uq: one leased row per conversation, expired or not.
GateFree(taken) == \A m \in taken : \A n \in Neighbours(m) :
  ~row[n].leased /\ n \notin taken

ClaimOf(m) ==
  [msg |-> m, version |-> message[m].version + 1, tries |-> row[m].tries + 1,
   disconnected |-> CompanyOf(m) \in disconnected,
   recipient |-> IF RecipientsOf(m) = {} THEN NoRecipient
                 ELSE CHOOSE r \in RecipientsOf(m) : TRUE]

Take(w, taken) ==
  /\ message' = [m \in Message |-> IF m \in taken
       THEN [message[m] EXCEPT !.command = "dispatching", !.version = @ + 1]
       ELSE message[m]]
  /\ row' = [m \in Message |-> IF m \in taken
       THEN [row[m] EXCEPT !.tries = @ + 1, !.leased = TRUE, !.left = LeaseTicks]
       ELSE row[m]]
  /\ recipient' = [r \in Recipient |->
       IF recipient[r].command \in taken /\ recipient[r].state = "queued"
       THEN [recipient[r] EXCEPT !.state = "in_flight"] ELSE recipient[r]]
  /\ worker' = [worker EXCEPT ![w] =
       Proceed([@ EXCEPT !.todo = {ClaimOf(m) : m \in taken}])]
  /\ UNCHANGED <<outbox, earlier, attempts, wire, execution, campaign>>

Claim(w) ==
  /\ worker[w].step = "claim"
  /\ LET ready == Candidates(FirstOf(worker[w].plan), DutyOf[w])
     IN \E taken \in SUBSET ready :
          /\ taken = ready \/ Cardinality(taken) = BatchLimit
          /\ Cardinality(taken) <= BatchLimit
          /\ \A m \in taken : row[m].tries < MaxClaims
          /\ IF GateFree(taken) THEN Take(w, taken) ELSE Throws(w)
  /\ UNCHANGED <<environmentVars, crashes>>

-----------------------------------------------------------------------------
(* dispatchOne, first transaction: decide, and record the attempt durably *)

\* permitNow. disconnected_at is the value the claim returned; the campaign's
\* own conditions are read from its rows (campaignDispatchRefusal).
Refuses(c) ==
  \/ c.disconnected
  \/ PeerOf[c.msg] \in refused
  \/ /\ c.recipient # NoRecipient
     /\ \/ execution.state # "running" \/ campaign # "running"
        \/ recipient[c.recipient].state # "in_flight"
        \/ message[recipient[c.recipient].command].stop # execution.stop

\* A refusal settles without a fence. The CHECK may still reject the write.
Skip(w, c) ==
  LET settled == Settled(c.msg, "skipped", 0)
      rows == IF c.recipient = NoRecipient THEN recipient
              ELSE [recipient EXCEPT ![c.recipient] = Reserve(@, "skipped", "released")]
  IN IF AcceptedCheck(settled)
     THEN /\ message' = [message EXCEPT ![c.msg] = settled]
          /\ DeleteRows({c.msg})
          /\ recipient' = rows
          /\ FinishIf(c.recipient # NoRecipient /\ Drained(rows))
          /\ worker' = [worker EXCEPT ![w] = Proceed([@ EXCEPT !.todo = worker[w].todo \ {c}])]
          /\ UNCHANGED <<attempts, wire>>
     ELSE Throws(w)

\* Slip: the attempt row is left for the answer to write.
BeginUnrecorded(w, c) ==
  /\ worker' = [worker EXCEPT ![w] = [@ EXCEPT
       !.todo = worker[w].todo \ {c}, !.claim = c, !.attempt = Len(attempts[c.msg]) + 1,
       !.answer = "retryable",
       !.step = IF CompanyOf(c.msg) \in disconnected THEN "record" ELSE "send"]]
  /\ UNCHANGED <<dbVars, wire, campaignVars>>
\* Without an active credential nothing is sent, and that is an answer too.
Begin(w, c) ==
  /\ attempts' = [attempts EXCEPT ![c.msg] =
                    Append(@, [age |-> 0, outcome |-> "open"])]
  /\ worker' = [worker EXCEPT ![w] = [@ EXCEPT
       !.todo = worker[w].todo \ {c}, !.claim = c, !.attempt = Len(attempts[c.msg]) + 1,
       !.answer = "retryable",
       !.step = IF CompanyOf(c.msg) \in disconnected THEN "record" ELSE "send"]]
  /\ UNCHANGED <<message, outbox, row, earlier, wire, campaignVars>>

Prepare(w) ==
  /\ worker[w].step = "prepare"
  /\ \E c \in worker[w].todo : IF Refuses(c) THEN Skip(w, c) ELSE Begin(w, c)
  /\ UNCHANGED <<environmentVars, crashes>>

\* transport.send: an accepted request was processed, a rejected one was not,
\* and of an unknown one only the provider knows.
Send(w) ==
  /\ worker[w].step = "send"
  /\ \E answer \in Answer, processed \in BOOLEAN :
       /\ answer = "accepted" => processed
       /\ answer \in {"definitely_rejected", "retryable"} => ~processed
       /\ worker' = [worker EXCEPT ![w] =
                       [@ EXCEPT !.step = "record", !.answer = answer]]
       /\ wire' = IF processed
                  THEN [wire EXCEPT ![worker[w].claim.msg] = @ \cup {worker[w].attempt}]
                  ELSE wire
  /\ UNCHANGED <<dbVars, environmentVars, campaignVars, crashes>>

-----------------------------------------------------------------------------
(* record: the answer as evidence, then the command under the fence *)

Evidence(answer) ==
  IF answer = "retryable" THEN "definitely_rejected" ELSE answer

\* What the command becomes when the answer ends it.
Verdict(c, answer) ==
  CASE answer = "accepted" -> "provider_accepted"
    [] answer = "outcome_unknown" -> "outcome_unknown"
    [] answer = "retryable" -> "failed"
    [] OTHER -> "rejected"

Exhausted(c) == c.tries >= MaxAttempts
\* Slip: what may have been processed is tried again.
RetriesUnknown(c, answer) ==
  answer \in {"retryable", "outcome_unknown"} /\ ~Exhausted(c)
\* mayAutoRetry: only what the provider certainly did not take.
Retries(c, answer) == answer = "retryable" /\ ~Exhausted(c)

ResultOf(c, answer) ==
  CASE answer = "accepted" -> "accepted"
    [] answer = "outcome_unknown" -> "outcome_unknown"
    [] Retries(c, answer) -> "retry"
    [] OTHER -> "rejected"

\* Slip: the result is written whatever the version.
HoldsNothing(c) == c.version > 0
HoldsFence(c) == message[c.msg].version = c.version

\* recordAndProject: a stale result is projected nowhere, and a command that
\* is no broadcast's has nothing to project.
AfterRecord(w, c, answer) ==
  worker' = [worker EXCEPT ![w] =
    IF HoldsFence(c) /\ c.recipient # NoRecipient
    THEN [@ EXCEPT !.step = "project", !.result = ResultOf(c, answer)]
    ELSE Proceed(@)]

Conclude(c, answer, attempt) ==
  /\ message' = [message EXCEPT ![c.msg] =
       Settled(c.msg, Verdict(c, answer), IF answer = "accepted" THEN attempt ELSE 0)]
  /\ DeleteRows({c.msg})

Reschedule(c) ==
  /\ message' = [message EXCEPT ![c.msg] = Settled(c.msg, "retry_scheduled", 0)]
  /\ IF c.msg \in outbox THEN PlaceRow(c.msg, BackoffBase * 2 ^ (c.tries - 1))
     ELSE UNCHANGED <<row, earlier>>
  /\ UNCHANGED outbox

Record(w) ==
  LET c == worker[w].claim
      answer == worker[w].answer
  IN /\ worker[w].step = "record"
     /\ attempts' = [attempts EXCEPT ![c.msg][worker[w].attempt] =
                       [age |-> 0, outcome |-> Evidence(answer)]]
     /\ \/ /\ HoldsFence(c) /\ ~Retries(c, answer)
           /\ Conclude(c, answer, worker[w].attempt)
        \/ /\ HoldsFence(c) /\ Retries(c, answer)
           /\ Reschedule(c)
        \/ /\ ~HoldsFence(c)
           /\ UNCHANGED <<message, outbox, row, earlier>>
     /\ AfterRecord(w, c, answer)
     /\ UNCHANGED <<wire, environmentVars, campaignVars, crashes>>

\* projectCampaignOutcome, a transaction of its own. Its UPDATE is invisible
\* until it commits, and its SELECT of the open recipients sees only what
\* others have committed: the two steps are what READ COMMITTED lets apart.
Project(w) ==
  LET r == worker[w].claim.recipient
  IN /\ worker[w].step = "project"
     /\ worker' = [worker EXCEPT ![w].step = "finish",
          ![w].drained = /\ worker[w].result # "retry"
                         /\ Drained([recipient EXCEPT ![r] =
                                       Projected(@, worker[w].result)])]
     /\ UNCHANGED <<dbVars, wire, environmentVars, campaignVars, crashes>>

Finish(w) ==
  /\ worker[w].step = "finish"
  /\ recipient' = [recipient EXCEPT ![worker[w].claim.recipient] =
                     Projected(@, worker[w].result)]
  /\ FinishIf(worker[w].drained)
  /\ worker' = [worker EXCEPT ![w] = Proceed(@)]
  /\ UNCHANGED <<dbVars, wire, environmentVars, crashes>>
-----------------------------------------------------------------------------
(* Specification *)

Init ==
  /\ message = [m \in Message |->
       [command |-> "absent", version |-> 0, provider |-> 0, stop |-> 0]]
  /\ outbox = {} /\ row = [m \in Message |-> EmptyRow]
  /\ earlier = [m \in Message |-> {}]
  /\ attempts = [m \in Message |-> <<>>] /\ wire = [m \in Message |-> {}]
  /\ worker = [w \in Worker |-> Idle]
  /\ refused = {} /\ disconnected = {} /\ crashes = 0
  /\ recipient = [r \in Recipient |->
       [state |-> "absent", command |-> 0, budget |-> "none"]]
  /\ execution = [state |-> "absent", stop |-> 0] /\ campaign = "ready"

WorkerStep(w) == \/ StartRound(w) \/ Recover(w) \/ Claim(w) \/ Prepare(w)
                 \/ Send(w) \/ Record(w) \/ Project(w) \/ Finish(w)

Environment == \/ \E m \in Message : Enqueue(m)
               \/ \E p \in Peer : ChangePermit(p)
               \/ \E t \in Tenant : Disconnect(t)
               \/ \E w \in Worker : Crash(w)

Serve == Environment \/ Tick \/ \E w \in Worker : WorkerStep(w)

Next == Serve \/ \E link \in [Recipient -> Message \ Direct] : Broadcast(link)

Spec == Init /\ [][Next]_vars

\* Worker loops keep ticking and the clock runs; nobody has to send, to
\* disconnect, to change a permit or to crash.
WorkerFairness == WF_vars(Tick) /\ \A w \in Worker : WF_vars(WorkerStep(w))
FairSpec == Spec /\ WorkerFairness

-----------------------------------------------------------------------------
(* Properties *)

TypeOK ==
  /\ message \in [Message -> MessageRow]
  /\ outbox \subseteq Message
  /\ row \in [Message -> OutboxRow]
  /\ earlier \in [Message -> SUBSET Message]
  /\ attempts \in [Message -> Seq(Attempt)]
  /\ wire \in [Message -> SUBSET Nat]
  /\ worker \in [Worker -> WorkerRow]
  /\ refused \subseteq Peer /\ disconnected \subseteq Tenant
  /\ recipient \in [Recipient -> RecipientRow]
  /\ execution \in [state: {"absent"} \cup CampaignState, stop: Nat]
  /\ campaign \in CampaignState
  /\ crashes \in Nat

\* DEL-07: a command that has been acknowledged and not yet decided has an
\* outbox row, and a decided one has none: nothing is forgotten by a crash, a
\* stale result or a recovery, and nothing settled is ever dispatched again.
OutboxHoldsPending == \A m \in Message : m \in outbox <=> message[m].command \in Pending

\* The claims in workers' hands, with the worker that holds each.
Held(w) == worker[w].todo \cup ({worker[w].claim} \ {NoClaim})

\* DEL-18, the fence: among all workers' claims of one command, however many
\* leases have expired, at most one still carries the current version, and
\* then the command is that worker's to decide: it is dispatching. A claim
\* whose answer is recorded has given up its version.
SingleOwner == \A w \in Worker : \A c \in Held(w) :
  /\ c.version <= message[c.msg].version
  /\ HoldsFence(c) =>
       /\ message[c.msg].command = "dispatching"
       /\ row[c.msg].leased
       /\ \A v \in Worker : \A d \in Held(v) :
            d.msg = c.msg /\ HoldsFence(d) => v = w /\ d = c

\* outbox_dispatch_gate_uq: two commands of one conversation are never leased
\* together, not even with one of the leases expired.
OneLeasePerConversation == \A m, n \in outbox :
  m # n /\ PeerOf[m] = PeerOf[n] => ~(row[m].leased /\ row[n].leased)

\* DEL-12: whatever the provider has processed, the ledger knew beforehand;
\* an accepted command names the attempt that got the provider's id.
EvidenceFirst == \A m \in Message :
  /\ \A i \in wire[m] : i \in DOMAIN attempts[m]
  /\ message[m].command = "provider_accepted" =>
       /\ message[m].provider \in wire[m]
       /\ attempts[m][message[m].provider].outcome = "accepted"

\* DEL-12, as far as the code keeps it: while no live worker outlasts its lease,
\* a second copy on the wire takes a crash, whatever was answered, retried,
\* recovered or left unknown.
CopiesBounded == \A m \in Message : Cardinality(wire[m]) <= 1 + crashes

\* An accepted command keeps its state and its provider id for good: neither a
\* stale refusal nor a recovery gets past the CHECK constraint.
AcceptedIsFinal == [][\A m \in Message : message[m].command = "provider_accepted" =>
                        message'[m].provider = message[m].provider
                        /\ message'[m].command = "provider_accepted"]_vars

\* An attempt left open of a command that a later attempt got accepted: its
\* recovery writes what the CHECK refuses (run dispatch_poison).
Poisoned == \E m \in Message : message[m].command = "provider_accepted" /\
              \E i \in DOMAIN attempts[m] : attempts[m][i].outcome = "open"

\* Every command sent by a person is decided in the end, through crashes,
\* refusals, retries and a closed channel, unless the ledger is poisoned.
EveryCommandDecided == \A m \in Direct :
  message[m].command \in Pending ~> (message[m].command \in Decided \/ Poisoned)

\* The refinement: the command table read as a status, the outbox as the
\* schedule. Every step of the dispatcher is a step of the promise or none.
StatusOf(command) == CASE command = "absent" -> "absent"
                       [] command \in Pending -> "open"
                       [] command = "provider_accepted" -> "accepted"
                       [] OTHER -> "closed"
Promise == INSTANCE OutboundPromise WITH
             status <- [m \in Message |-> StatusOf(message[m].command)],
             scheduled <- outbox

\* The dispatcher keeps the promise of OutboundPromise.
KeepsPromise == Promise!PromiseSpec
=============================================================================
