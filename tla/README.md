# Convo DS in TLA+

TLA+ models of the parts of Convo DS whose correctness depends on the order in
which things happen, TLC configurations that check them on small instances, and
theorems about them checked by TLAPS. Source paths are relative to `src/`.

## 1. The system and its parts

Convo DS is a multi-tenant customer-messaging platform: one PostgreSQL database
(row-level security per company), an API, and worker processes that share no
memory. Everything the workers know lies in tables; a queue is a table with a
lease column, and every tick is meant to be restart-safe
(`apps/api/src/workers/worker-roles.ts`).

| Component (`apps/api/src/…`) | State | Operations | Interacts with | Hard behaviour | What makes it correct |
|---|---|---|---|---|---|
| **Outbound dispatcher** `channels/dispatcher.service.ts` | `outbound_messages`, `outbox`, `outbound_attempts` | offers, recover, claim, dispatchOne (permit, attempt, send), record, project | requests, campaigns, providers | crashes between any two transactions, expired leases under live workers, retries, unknown outcomes | nothing pending forgotten, one owner per command, evidence before the wire, bounded retries, one leased row per conversation |
| **Outbound requests** `channels/outbound.service.ts` | inserts the two rows above | queueAuthorized | dispatcher | command and outbox row in one transaction | scheduled when it exists |
| **Broadcast execution** `campaigns/campaign.service.ts`, `campaign-planner.service.ts`, `campaign-dispatch.ts` | `campaigns`, `campaign_executions`, `campaign_recipients`, `budget_reservations`, `campaign_work_queue` | launch, pause, resume, cancel, retry of failures, plan, projection | dispatcher, receipts | control against commands in flight; concurrent last recipients | reached once, budget follows, ends |
| **Broadcast drafting** `campaigns/campaign.service.ts`, `campaign-lead-import.service.ts`, and the wizard `apps/web/src/live/broadcast.ts` | `campaigns`, `campaign_revisions`, `campaign_approvals`, `audience_snapshots`, the imported leads; the dialog and what the last answer said | create, update, import, validate with freeze, approve, launch, clone; the wizard's steps, stop, reload | broadcast execution, colleagues | missed answers and late requests of a sequence of calls, colleagues between them | launched as approved, one launch per session |
| **Delivery receipts** `reconcileReceipts`, `normalization.service.ts` | `inbound_events`, delivery columns, watermark | store, fold, hold until the id is known | dispatcher, campaigns | transactions that become visible out of order, racing sweeps | monotone, nothing made up, nothing lost below the watermark |
| **Fairness** `packages/domain/src/channels/fairness.ts`, `outboundTick` | none between rounds: the offers, the grants and the slots left are locals of a tick | offers, planRound, deal, serve the grants | dispatcher | capacity below demand, offers that are outdated when served | slots handed out evenly, nobody left out who fits in, everybody's turn comes |
| **Conversation lifecycle** `conversations/lifecycle.service.ts`, `conversation.service.ts` | `conversations`, `conversation_wakes`, `conversation_episodes` | open, wait, snooze, resolve, reopen, archive, inbound, wake sweep | normalization, realtime | agents against inbound against the sweep | status, wake and episode agree |
| **Routing and handoff** `conversations/routing.service.ts` | assignee, `conversation_handoffs`, expiries | assign, release, offer, accept, decline, cancel, expire | lifecycle, notifications | sweep against acceptance | one pending offer, settled once, and accepted only from the holder it was based on |
| **Ingress, normalization** `channels/ingress*.ts`, `normalization.service.ts` | `webhook_receipts`, `channel_events`, `channel_event_queue`, `inbound_events` | receive, drain, profiles | lifecycle, receipts | redelivery, inserts that wait for and deadlock with each other, failing parts, racing drains | what was answered is kept, each fact projected once |
| **Email outbox** `email/email-outbox.service.ts` | `email_deliveries` | enqueue, claim, send, record | invitations, recovery | late answers over expired leases, crashes | a settled email stays settled; each settles |
| **Push outbox** `notifications/push-outbox.service.ts`, `device.service.ts` | `notification_push_queue`, `notification_devices` | register, revoke, notify, claim, process, settle, retry | notifications | late answers about a subscription that was replaced | a device goes quiet only for a reason |
| **Automation runner** `automations/automation-runner.service.ts` | runs, recipients, actions, queue | plan, act, reconcile, finalize, schedule | outbound | outcomes that arrive late, waits between steps | nobody left out, runs end |
| **Realtime feed** `realtime/*.ts` and **the inbox lists** `apps/web/src/live` | `realtime_events`, per-company counter; the browser's connection, cursor and reads | emit, page, stream; open, frame, reconnect, read, apply | every writer | lost connections, overlapping reads, a cursor not yet known | the lists come to show what was committed |
| **Invitations, people** `people/*.service.ts` | invitations, memberships, ownership offers | role and status changes, offer, accept, invite, revoke, join | email | transactions that count what others change | an owner remains; joining takes an invitation |
| **Authentication, recovery** `auth/*.ts` | users, sessions, recovery links, counters | login, logout, change, recover | email | login against change and recovery | no older session outlives a change |
| **Broker relay** `broker/relay.service.ts` | `broker_outbox`, `broker_dead_letters`, `broker_deliveries` | none that anything calls | — | — | — |
| **Idempotent commands** `idempotency/idempotency.service.ts` | `idempotency_records` | execute | every command | retry of a running command | one effect per key |
| **Bootstrap, migrations** `packages/database/src` | `schema_migrations`, installation row | migrate, claim | — | two processes start | each once, in order |
| Authorization, contacts, segments, metadata, reports, transports, rest of the web client, deployment | — | — | — | one transaction each, pure, or I/O | see section 7 |

## 2. Plan

The order is by how much depends on the component and how little a test reaches.

1. *Done*: the message path: `Dispatch` with `OutboundPromise`; `CampaignRun`
   composed over it; `DeliveryFold` and `Receipts`; `Conversations` (lifecycle,
   routing and handoff in one module, because one worker tick serves them in a
   fixed order); `Ingress` with `InboxPromise` in front of them; `Fairness`, how a round comes to its
   grants.
2. *Done*: the services beside it: `EmailOutbox`, `PushOutbox`, `Automations`,
   `Sessions`, `People`, `Drafting`, and `Screen`, which joins the server's event
   feed and the browser's lists.
3. *Done*: theorems of every component's module: each invariant and action
   property that a passing run checks is also proved (section 6).
4. *Open*: the schedules and events that start automations; the idempotency
   keys of commands; permissions of `People` beyond the built-in roles.
5. *Not open to proof*: the liveness properties (section 6).

The runs are few and each asks one question of a group of components; where a
question concerns several independent instances they are scenes of one run
(section 4).

## 3. The modules

**`OutboundPromise`** is the abstract specification: each command has a status,
some commands are scheduled, and no step moves one without the other. Commands
are requested (made and scheduled at once), accepted, or closed.

**`InboxPromise`** is that of the way in, without transactions, parts or workers: a
sender is told only what is kept, what is new and can be read waits for the inbox
from the step that keeps it, and what waits is shown once.

**`Dispatch`** is the dispatcher. One action is one database transaction or one
network call, since only between those can another worker, a crash or the clock
come in.

| Action | Code |
|---|---|
| `StartRound` | `outboundTick`: offers, `planRound` |
| `Recover` | `recoverOrphanedAttempts`, the whole transaction with every orphan's settle and campaign projection |
| `Claim` / `Take` / `Throws` | `claim`: candidates, the UPDATE under the gate index, the per-row updates; a violated index throws out of the tick |
| `Prepare` (`Skip`, `Begin`) | first transaction of `dispatchOne`: refusal, or the attempt row |
| `Send` | `transport.send`, or the answer of a missing credential |
| `Record` (`Conclude`, `Reschedule`) | `record` under the version fence |
| `Project`, `Finish` | `projectCampaignOutcome` with `finishCampaignIfDrained`, in two steps: what READ COMMITTED lets apart |
| `Broadcast` | launch and `plan` as the dispatcher meets them: the recipients' commands in one step (`CampaignRun` has the handlers instead, over `Serve`, which is `Next` without this action) |
| `Enqueue`, `ChangePermit`, `Disconnect` | `queueAuthorized`, whatever `permitNow` reads, `disconnect` |
| `Tick`, `Crash` | the clock; a dying process |

State that is abstracted: a permit is one bit per peer; a provider id is the
number of the attempt that got it; the ordering by `available_at` is kept as the
relation `earlier` (which rows of the conversation come first), so that no
absolute time is needed; leases, delays and ages count ticks. A claim carries
what `ClaimRow` carries and the code later relies on, above all the version and
`disconnected_at` as they were at the claim. `planRound` visits companies in the
order of `Tenant` and grants each at least one slot, which is
`EveryoneDealtIn` of `Fairness`: true while a round has no fewer slots than
companies that offer.

**`Fairness`** is a worker's round. `ReadOffers` is `offers` (the companies with
available, unleased rows, counted, in the order of `tenant_id`, the first 200 of
them) and the first pass of `deal`; `Visit` (`Grant`, `PassOver`) one company of
the inner loop, `NextPass` the outer loop, `EndDeal` the list of grants; `Serve`
is `recoverOrphanedAttempts` and `dispatch` for one grant, and `Break` a tick
that throws or dies. A company's rows are two numbers: those a claim would take
and those the offers count but no claim takes (`held`: of a paused broadcast, or
of a conversation with a message on the wire). `Arrive`, `Leave`, `Hold` and
`Free` change them at any moment, also between the count and the service. A
process plans one class at a time, so there is one class. `Serve` claims
at least one row if one is there: that another process of the role holds the
advisory lock of every candidate at that moment is left out, and then that
process takes the row.

**`CampaignRun`** extends `Dispatch` with one broadcast: `Launch`, `Pause`,
`Resume`, `Cancel`, `RetryFailures` (`campaign.service.ts`), `Withdraw` and
`Plan` (`campaign-planner.service.ts`), and the receipt that moves a recipient.
Each handler locks the campaign's rows first and is one step.

**`DeliveryFold`** has `foldDelivery` and `settleRecipient` as operators;
**`Receipts`** has the transactions that store, sweep and hold receipts. There
time is absolute (`clock` numbers the inbound transactions): the point is that
a transaction's `now()` is its beginning and its visibility its end. A `Date`
cannot tell apart `Millisecond` consecutive clock values. The loops of the sweep
and of the held receipts are recursive functions, row by row (`Settled`, `Held`).

**`Conversations`** has the people who work conversations, the customers and
the inbound worker.

| Action | Code |
|---|---|
| `Open` | the detail a screen shows, or a request has read |
| `Act` (`Move`) | `LifecycleService.command` for wait, snooze, resolve, reopen, archive: `write`, `reschedule` and `applyEpisodeEffects` in one transaction |
| `Restore`, `Remove` | `archived` |
| `Assign`, `Claim`, `QuickStart` | `assign` and `releaseOwn`; `claim`; `queueQuickWhatsApp` |
| `Request`, `Accept`, `Withdraw` | `requestHandoff`; `settleHandoff` for accept, and for decline and cancel |
| `Contact` | `ensure` without a message |
| `Start`, `ReadWakes`, `WriteWakes` | `inboundTick`, `sweepDueWakes`: the companies, then for each the reading of its due jobs and the writes |
| `ListOffers`, `ReadOffers`, `WriteOffers` / `Throw` | `sweepExpiredHandoffs` in the same way, and the `notFound` that ends the tick |
| `BeginDrain`, `Drain` (`Note`), `EndTick` | the drain with `ensure` and `noteCustomerInbound` |
| `Write`, `WakeComesDue`, `OfferComesDue` | the journal; the clock |

A command names the version its screen showed. The model has no version
numbers: `current` is the set of people whose screen shows the present version,
which is all a fence asks (whoever is not in it changes nothing by a fenced
command), and it makes the model finite. Wake versions stay, because jobs carry
them. Due times are one bit per job and per offer. Permissions are left out but
for the company, and so are the LIMITs of the sweeps and what a settled offer
still says. A drain takes one message at a time, as each is a statement on its
own conversation; the transaction around the batch belongs to `Ingress`.

**`Ingress`** has the handlers that store a provider's delivery and the workers
that drain it. `Post` is a webhook request; `Insert` one `INSERT … ON CONFLICT DO
NOTHING`, which waits while another transaction has inserted the same dedupe
key; `StorePart` the commit of a part, with what it queues, and the answer after
the last; `FailPart` and `Deadlocked` an aborted part; `Claim`, `Drain` and
`DrainFails` the drain's transaction over a claimed batch. A delivery is a
sequence of parts, a part a sequence of dedupe keys. `KeepsInbox` maps the journal to
what is kept and the queue to what waits.

**`EmailOutbox`**: `Enqueue`, `ClaimEmail`, `SendEmail`, `RecordEmail`, and what
time and crashes do (`BackoffEnds`, `LeaseEnds`, `MailerDies`). `LeaseEnds` may
come while the worker is still at it; `overtaken` remembers the rows another
worker then claimed, the only ones a late answer can spoil.

**`PushOutbox`**: `Register` and `SwitchOff` (`device.service.ts`), `Notify` and
`MarkRead`, and a worker's transactions `Take`, `Look`, `Record`, `RevokeDevice`
around the call `Send`. The device row is switched off by its id, while the
answer was about a subscription: `crossed` remembers the devices that were given
another one meanwhile.

**`Automations`**: a call of `execute` is the action `PlanRun` or `Execute`:
`reconcileOutbound` (`Reconciled`), the actions within the limit (`Carried`),
`finalize` (`Completed`, `Open`, `Outcome`) and `scheduleNext` (`NextLook`), in
the code's order, in one transaction. `Decide` is the dispatcher deciding a
message; delays end by `WaitEnds`, the run's own by `LookAgain`.

**`Sessions`**: `Verify` and `SignIn` are the two halves of `login`, between
which there is no transaction; `BeginChange` or `StartRecovery`, `ClaimLink`,
`LockUser`, `Sweep`, `Commit`, `Abort` the transactions of `changePassword` and
`complete`, statement by statement where a lock is taken or a row revoked.

**`People`**: `Authorise` is what a request reads before it writes,
`UpdateMember`, `Offer`, `AcceptOffer`, `DropOffer` its writes under row locks;
`Check` is the deferred trigger counting owners, `CommitRows` and `RollBack` the
end. `CreateInvite`, `RevokeInvite`, `Resolve` and `Join` are the invitations.

**`Screen`**: `Emit`, `Page`, `Cycle`, `PermissionsChange` are the server's side
of one stream; `Connect`, `Frame`, `LastFrame`, `Drop`, `Resume` the browser's;
`AnswerFlight`, `ApplyFlight` and their like the reads of the lists: a read is
asked, answered from the database as it is then, and applied if it is the newest
of its name. Lists are told apart by how many events they include.

**`Drafting`** has a broadcast before it runs. The server's side is one action
per handler (`Create`, `Update`, `Import`, `Validate`, `Approve`, `Launch`, each
with its `…Refusal`), since each locks the campaign first. The browser's side is
`submitBroadcast`: `Submit` sends the save, `Proceed` and `NextStep` take an
answer and ask for the step after it, `Stopped` and `Kept` are `stop`, which
leaves the dialog on the campaign the steps so far saved; `Reload` is
`loadCampaignsScreen`, before which the dialog offers nothing but to close.
`Serve` is a handler that commits and the wizard that takes its answer, in one
turn; after a `Drop` the wizard has stopped waiting, and the request it sent may
still be carried out, at any later time: the lost answer and the late request are
one behaviour here. `Colleague` and `Clone` are the same handlers from another
screen. What a revision's hash covers is told apart by the audience.

**`MCDispatch`**, **`MCCampaignRun`**, **`MCReceipts`** give constants, and
**`MCConversations`** the bounds of two scenes besides; **`MCDelivery`**, **`MCRaces`** and **`MCServices`** put several
systems side by side (below). The theorems are in **`Dispatch_proofs`** and
**`CampaignRun_proofs`**, which builds on it, **`Conversations_proofs`**,
**`Broadcasts_proofs`** (`Drafting` and `Receipts`), **`Ingress_proofs`**,
**`Members_proofs`** (`People`, `PushOutbox` and `Sessions`),
**`Services_proofs`** (`EmailOutbox`, `Screen` and `Automations`) and
**`Fairness_proofs`**.

## 4. What the runs show

Four runs consist of *scenes*: independent systems of which the variable
`scene`, chosen in the initial state and never changed, lets one take steps. The
variables of the others keep their first values, and fairness is asked of the
chosen one only, so that a scene has exactly the behaviours its module has
alone; the scenes share no state and no property speaks of two.

| Run | Instance | Shows |
|---|---|---|
| `dispatch_safety` | two slow workers; a person's bulk-class reply and a broadcast's command in one conversation; a crash | `SingleOwner`, `OneLeasePerConversation`, `EvidenceFirst`, `AcceptedIsFinal`, and that the dispatcher implements `OutboundPromise`, so that a command is pending exactly while it has an outbox row |
| `delivery`, scene *faults* | two slow bulk workers, a recipient with a retry, a crash, two stops | reached once, budget follows the recipient, a queued recipient's command is scheduled |
| scene *run* | two recipients planned one by one, one worker | a broadcast nobody stops finishes, and only with nobody open |
| scene *recovery* | a worker of each class, a command of each class in one conversation, a crash | copies on the wire are bounded by the crashes; every command is decided unless the ledger is poisoned |
| `inbox`, scene *snoozes* | a customer with two rows and two messages, an agent, two snoozes | one live thread; status, wake job and episode agree; nothing is closed over an unread message; a stale job wakes nobody; every due snooze ends |
| scene *handoffs* | two agents, a message, an offer, a removal | the queue follows the desk, a pending offer is scheduled, an acceptance takes from the holder the offer was based on; messages are taken and offers expire unless blocked |
| `races`, scene *sessions* | two calls, two sessions, two links, two replacements | only an overlapping sign-in outlives a replacement; a link is spent once |
| scene *people* | three people, two of them owners, an invitation, two calls at once, four in all | without an owner only by two transactions that count at once; joining takes a standing invitation |
| scene *push* | a notice, two devices, two subscriptions, a worker | a device goes quiet for a reason, but for the crossed ones |
| scene *receipts* | two storing and two folding workers, three receipts of two messages, truncated watermarks | what is shown was said of that message; recipients only move up, a delivery moves down only where two sweeps read it at once |
| scene *drafting* | two campaigns, a lead sheet, two confirmations of the wizard, colleagues on one campaign until its version 5 | what is launched was approved and frozen, and stays within its sheet; a session of the wizard launches once |
| `services`, scene *email* | two rows, two workers, two attempts, a lapse | settled is final but for overtaken rows; every email settles |
| scene *automations* | two contacts, a wait, a message, a wait, a label | a run ends over nobody, but the cut-short ones; every run ends |
| scene *screen* | two events, one event a page, two faults | lists never go back; they catch up but for a failed read and the gap below |
| scene *ingress* | a delivery of two facts, one of two parts with the same facts turned round and an unreadable one; two handlers, two drainers, two troubles | ingress and drain implement `InboxPromise`, so that what was answered is kept and projected once; every fact is projected |
| scene *rounds* | three companies, two rows each at most, rounds of two slots, a round that breaks off | a round hands out its slots and no more, and evenly but for the unfinished pass; who goes on having something to claim is served again and again, unless the rounds go on being full before them |

Bounds: `MaxCrashes`, `MaxClaims` (claims of one row; where a run sets it to 9
the retry budget ends a row first), `MaxStops`, `MaxClock` (inbound
transactions), `MaxLapses` (deaths and overrun leases), `MaxServed` (calls),
`MaxRegistrations`, `MaxBreaks` (of a connection), `MaxPassword`. Two commands of one conversation,
two workers and two attempts are enough for every race of two actors over one
command, one conversation and one lease that has expired; the lease is the
shortest possible (one tick) and in the instances without slow workers the orphan
age is longer than the lease, as in the code (120 s, 300 s). `SlowWorkers = FALSE`
keeps the clock from running a lease out under a live worker, so that a scene
shows crashes alone. In *people*, four calls suffice for a promotion or an offer
before the two that race; in *sessions*, two replacements suffice for a link that
is used after another change. In *ingress* the two deliveries hold the same facts
in opposite order, the shortest instance in which two transactions wait for each
other. `MaxBatch = 1` in *screen* splits two events over two pages, and
`MaxBacklog = 1` lets the second overflow it.

In *drafting*, `Shared` names the campaigns colleagues work on and `MaxVersion`
when they stop: version 5 allows a validation, an edit after it and a second
validation; `MaxTries` bounds the confirmations, and a create waits while no row
is unused. A sheet and its absence are all that `requireImportedAudience` tells
apart.

`inbox` and `inbox_companies` bound by `MaxInbound` (messages of a customer),
`MaxWakes` (snoozes), `MaxRemovals`, `Reader` (who opens conversations), and the
rows there are: the last row of a customer is not archived, so that a message
always finds a thread. Two rows are enough for a restore against a new thread,
two snoozes for a job of an earlier one, one offer for every answer against the
sweep, and two companies with an offer each for one sweep that meets another
company's. The scenes of `inbox` keep apart what would multiply: in *snoozes*
(`Snoozing`) nobody hands over or removes, in *handoffs* (`HandingOver`) nobody
snoozes and a customer writes once. Of the two agents of *handoffs* one opens
conversations and makes offers; both answer offers, start conversations and are
assigned to.

In *rounds* two slots over three companies with two rows each end a deal in the
middle of a pass, at the end of one, and with a slot to spare, and leave a company
out; the code's rounds have four slots at least (`ROUND_MULTIPLIER`), which would
take five companies for the same. `MaxRows` bounds the rows of a company at once,
not in all, and `MaxBroken` the rounds that break off: a worker whose every round
breaks off is `dispatch_poison`.

Deadlock is checked but in `races`, `services`, `receipts_batch`,
`people_owners`, `screen_gap` and `draft_retry`: there the environment's calls are
bounded, and when all are served nothing is left to do.

The type invariants of all components are proved (section 6) and no run spends
time on them.

Operators whose comment starts with *Slip* are variants of the definition that
follows them, each a plausible bug; the specifications do not use them. They are
there so that every property can be shown to notice one.

### Disagreements between the code and what is said of it

Each of these runs checks one documented promise, and TLC finds a behaviour of
the code that breaks it (`PROJECT.json`, "findings", quotes the sentences).

| Run | Behaviour |
|---|---|
| `dispatch_poison` | recovery of an attempt whose command another attempt got accepted violates a CHECK; the exception ends the round, and companies planned after this one starve. `EveryCommandDecided` therefore has the exception `Poisoned` |
| `campaign_gate` | a crash between claim and attempt leaves the recipient `in_flight` for ever, and its leased row closes the conversation to a person's reply |
| `receipts_batch` | receipts of one message in one batch are folded into one stale reading, and the watermark makes the loss final |
| `inbox_companies` | the due-offer query names no company and its table has no row security; with due offers of two companies each one's sweep throws on the other's, and the tick ends before the drain, every time |
| `people_owners` | two owners are changed by two transactions at once; each trigger counts the other's owner, and both commit |
| `draft_retry` | the answer to the import of a sheet, or to a step after it, is missed; confirming again first saves the form addressed to nobody, which a campaign that holds the sheet refuses every time |
| `screen_gap` | a subscription's first connection drops before a frame with an id; the next starts at the newest event, and the lists are not read again |

The models contain more behaviours of this kind, which shape the properties
above:

- *Dispatch*: a worker that dies after the send leaves a row whose lease (120 s)
  ends before the attempt is old enough to be recovered (300 s), so it is sent
  again; `CopiesAreBounded` states what remains. An unfenced refusal of a stale
  worker may turn any decided command that was not accepted into `skipped`. A
  retried message is overtaken by the next of its conversation.
- *Rounds*: every deal begins with the first company of the same order (`offers`
  sorts by `tenant_id`). Where more companies offer something than a round has slots,
  the last are dealt nothing, round after round while those before them go on
  offering, although `fairness.ts:17-19` has companies take turns; `TurnsCome`
  therefore has the exception `CrowdedOut`. The rows of a paused broadcast count as
  an offer and take a slot that nothing is claimed for.
- *Broadcasts*: an execution that drains while paused, by skips of the planner,
  or by two projections at once is completed by nobody; a command in flight
  across pause and resume keeps a `stop_version` no claim accepts.
- *Drafting*: `approve` names no version, so what a colleague approves may be a
  revision they never saw; a lost answer to a create leaves a draft behind; after
  a lost answer to an update the dialog holds an old version, and every further
  confirmation conflicts until it is opened anew.
- *Receipts*: held receipts are folded twice; a receipt committed late lies below
  the watermark.
- *Conversations*: a due offer on a conversation that was removed makes every
  tick throw before the drain (the exception `Blocked` of the last two properties
  of `inbox`); a conversation that was snoozed while resolved wakes without an
  episode (`LifecycleAgrees` bounds them from above only); `assign` and
  `accept` give archived conversations an owner, which `claim` refuses.
- *Email*: a row claimed over a lease that ran out under a living worker can be
  sent twice, and its late answer is written over the earlier one (`overtaken`).
- *Push*: a late answer that a subscription is gone switches off the one that
  replaced it (`crossed`).
- *Automations*: a recipient whose message was decided while they wait for the
  next step no longer counts as active, and the run ends without that step (the
  third disjunct of `NobodyLeftOut`).
- *Sessions*: a login that verified the password before a change signs in after
  it (`overlap`).
- *Ingress*: a delivery of which one part failed is stored in part and only its
  redelivery stores the rest.

## 5. Fairness

Weak fairness is asked of the system's own steps only: of the clock, and of each
worker's own step, since `runWorkerLoop` ticks for ever and sleeps a bounded
time, also after an error. A worker's step is fair as a whole, never each of its
actions; nothing is asked of people, permits, disconnects, registrations, the
provider's answers, failures or crashes. A crash is a restart: the process comes
back idle with its memory gone.

- *run* adds the planner, which runs inside the bulk worker's tick, and the
  schedule's coming due.
- In `Conversations` the worker's tick is weakly fair (after a tick that threw
  too), and nobody else is: agents need not answer, and the clock need not run,
  so the liveness properties start from a job or an offer that is due. A crash of
  a tick needs no action of its own there: every step is a transaction or reads
  only, and a sweep that is not continued changes nothing.
- *email*: each worker, the end of each backoff, and the end of each lease nobody
  is on; that a lease runs out under a living worker is a fault.
- *rounds*: the worker's step (`Work`) is weakly fair; nobody need offer, hold or
  free anything, and `TurnsCome` is about companies that go on having a row to claim.
- *automations*: the worker's `execute`, the run's next look, the end of each
  wait, and that the dispatcher decides a queued message (`Decided`), which
  `CommandsDecided` shows of it under its own conditions. `RunEnds` rests on it.
- *screen*: the server's page, the browser's reconnecting and handling of frames,
  and the answers to its reads; connections may break `MaxBreaks` times.
- *ingress*: the provider posts a delivery until it is answered. This and the
  inserts, which wait in turn for locks that come free again and again, are the
  two places with strong fairness: PostgreSQL serves lock waiters in order, and a
  post that finds no free handler is repeated.

## 6. What is proved

All theorems are for every value of the constants: any number of commands,
workers, recipients, companies, emails, calls, people, sessions, links,
customers, agents, campaigns, sheets, deliveries, facts, receipts, devices,
events and steps, and no bound but those the constants state. They rest on the
named assumptions of their modules (`ParameterAssumption`, `DurationAssumption`,
`CampaignAssumption`, `ConversationAssumption`, `DraftingAssumption`,
`ReceiptAssumption`, `IngressAssumption`, `SessionsAssumption`,
`PeopleAssumption`, `PushAssumption`, `EmailAssumption`, `ScreenAssumption`,
`AutomationsAssumption`, `FairnessAssumption`), which TLC evaluates on the instances. That a delivery
has a part, as `IngressAssumption` says, is what `splitBatchByAsset` returns.
Only `CopiesTakeCrashes` has a hypothesis besides: `~SlowWorkers`, no live worker
outlasts its lease. It is the instance of the scene *recovery*; where workers are
slow two of them may send one command, and the bound is not claimed.

| Theorem | Statement |
|---|---|
| `TypeCorrect` | `Dispatch!Spec => []TypeOK` |
| `NothingForgotten` | `Spec => []OutboxHoldsPending` |
| `FenceHasOneOwner` | `Spec => []SingleOwner` |
| `AcceptanceIsFinal` | `Spec => AcceptedIsFinal` |
| `DispatchKeepsPromise` | `Spec => KeepsPromise` (refinement of `OutboundPromise`) |
| `OneLease` | `Spec => []OneLeasePerConversation` |
| `LedgerKnewFirst` | `Spec => []EvidenceFirst` |
| `CopiesTakeCrashes` | `~SlowWorkers` proves `Spec => []CopiesBounded` |
| `RunKeptRight` | `CampaignRun!RunSpec => []RunTypeOK` |
| `EachIsReachedOnce` | `RunSpec => []ReachesOnce` |
| `BudgetsFollow` | `RunSpec => []BudgetFollows` |
| `QueuedAreScheduled` | `RunSpec => []QueuedIsScheduled` |
| `CompletedAreDrained` | `RunSpec => []CompletedIsDrained` |
| `RunKeepsPromise` | `RunSpec => KeepsPromise` |
| `RunKnewFirst` | `RunSpec => []EvidenceFirst` |
| `RunKeepsTheFence` | `RunSpec => []OutboxHoldsPending /\ []SingleOwner` |
| `ConversationsKeptRight` | `Conversations!Spec => []ConvInv` |
| `LifecycleIsKept` | `Spec => []TypeOK /\ []LifecycleAgrees` |
| `NobodyIsLost` | `Spec => []DeskOrQueue` |
| `OffersStayScheduled` | `Spec => []PendingIsScheduled` |
| `OneLiveThreadEach` | `Spec => []OneLiveThread` |
| `ClosedAfterSeen` | `Spec => ClosedWasSeen` |
| `AcceptanceTakesFromHolder` | `Spec => AcceptedFromHolder` |
| `WokenByItsOwnJob` | `Spec => WokenWhenDue` |
| `DraftsKeptRight` | `DraftingSpec => []DraftingInv` |
| `LaunchesAreApproved` | `DraftingSpec => []DraftingTypeOK /\ []LaunchedAsApproved` |
| `ASessionLaunchesOnce` | `DraftingSpec => []NothingSentTwice` |
| `ReceiptsKeptRight` | `ReceiptsSpec => []ReceiptsTypeOK` |
| `NothingIsMadeUp` | `ReceiptsSpec => []ShownIsSaid` |
| `DeliveriesStand` | `ReceiptsSpec => NeverRollsBack` |
| `IngressKeptRight` | `IngressSpec => []IngressInv` |
| `AnsweredStaysKept` | `IngressSpec => []IngressTypeOK /\ []AnsweredIsKept` |
| `IngressKeepsInbox` | `IngressSpec => KeepsInbox` (refinement of `InboxPromise`) |
| `PeopleKeptRight` | `PeopleSpec => []PeopleInv` |
| `OwnedUnlessRaced` | `PeopleSpec => []AnOwnerUnlessRaced` |
| `InvitedOrNotIn` | `PeopleSpec => JoinsByInvitation` |
| `DevicesKeptRight` | `PushSpec => []PushInv` |
| `QuietForAReason` | `PushSpec => []PushTypeOK /\ []OffForAReason` |
| `SessionsKeptRight` | `SessionsSpec => []SessionsInv` |
| `ALinkIsSpentOnce` | `SessionsSpec => []LinkSpentOnce` |
| `OnlyTheOverlapOutlives` | `SessionsSpec => []OnlyOverlapOutlives` |
| `OutboxKeptRight` | `EmailSpec => []EmailInv` |
| `SettledStaysSettled` | `EmailSpec => SettledIsFinal` |
| `ScreenKeptRight` | `ScreenSpec => []ScreenInv` |
| `ScreenNeverGoesBack` | `ScreenSpec => ListsNeverGoBack` |
| `AutomationsKeptRight` | `AutomationsSpec => []AutomationsInv` |
| `NobodyIsLeftOut` | `AutomationsSpec => []NobodyLeftOut` |
| `FairnessKeptRight` | `FairnessSpec => []FairInv` |
| `DealsAreFair` | `FairnessSpec => []FairDeal` |
| `EveryoneIsDealtIn` | `FairnessSpec => []EveryoneDealtIn` |

*Argument, `Dispatch`.* `Typed` is `TypeOK` with the fact that a worker between claim and
record has a real claim in hand. The invariant `DispatchInv` is `Typed`,
`OutboxHoldsPending`, `SingleOwner`, `Consistent` (the accepted state and the
provider id agree, as the CHECK constraint has it) and `OnlyCreated` (attempts,
leases and claims are only of commands that exist). `SingleOwner` alone is not
inductive: a claim may only be taken over because whoever writes a command bumps
its version, and an unfenced refusal may only be harmless to the outbox because
a decided command has no row. Instead of checking every conjunct against every
action, each action is first shown to do one of five things to each command
(lemma `Effects`: kept, born, taken, put back, closed) and one of few things to
each worker's hands (lemma `Hands`); the conjuncts are then preserved by those
effects. The refinement uses the same lemma: a kept, taken or put-back command
stutters, a born one is requested, a closed one is closed or accepted.

*Argument, the evidence.* `EvidenceFirst` needs `Unanswered`: an attempt somebody
is asking about is asked about by nobody else, is not yet recorded as accepted,
and was processed if the answer in hand is `accepted`. So the attempt a late
`record` names is the worker's own, whatever recovery wrote over the command in
the meantime; and `provider_accepted` is only ever written with such an attempt.

*Argument, the copies.* `CopiesBounded` is about a counter and needs an account of
who may still add to it. `LeasesHold`: while no lease runs out under a live worker,
one worker at a time is busy with a command, and while the command waits in the
outbox that worker has its lease and its version. `Spent`: nobody will send the
command again, since it is out of the outbox or the answer that will take it out is
in a worker's hand. The copies are at most the crashes, and one more if the command
is spent. A send spends it or is known to have done nothing; only a crash that
forgets the answer unspends it, and a crash is what the bound grows by.

*Argument, `CampaignRun`.* `CampaignRun` has the dispatcher's steps but its first,
and handlers that write the same tables. Each handler is `Orderly`: it
does one of the five things of lemma `Effects` to each command, and to the workers'
hands nothing. An orderly step keeps `DispatchInv`, which therefore need not be
proved again. For the promise, a planner that schedules a whole batch and a
cancellation that closes one are several requests and closings in one step, which
`OutboundPromise` allows. `ReachesOnce` alone is not
inductive: it counts copies, and says nothing of who may still make one. `Traced`
does, recipient by recipient: of all the commands a recipient ever got the ones it
no longer names are `Gone` (out of the outbox, in nobody's hands, nothing open,
nothing processed), and the one it names is where the recipient's state says
(`Stage`): untouched while it is queued, in one worker's batch (`InBatch`) or on its
way (`OnTheWay`) while it is in flight. The guard that carries the proof is in
`claim`, which takes only a queued recipient's command and puts the recipient in
flight in the same transaction: an expired lease does not free the command for a
second worker, which is also why `campaign_gate` can strand it. A retry of failures
gives new commands only where every failed recipient failed with its
reservation released, and then its command is `Gone`. A step touches the recipients
of the commands it writes and leaves the others `Untouched`, so each action is argued for those it touches. `Whole` has the
rest: one state of campaign and execution (`Together`), owners of commands, and a
worker about to complete the broadcast has seen every other recipient closed, which
makes the two-step `CompletedIsDrained` safe. TLC checked the invariant on
two instances, of 102,964 and 1,008,192 states, before it was proved.

*Argument, `Conversations`.* Nearly every step acts on something read earlier: a
screen, a job that a sweep has listed, the rows of an offer. `ConvInv` therefore
joins the properties (`LifecycleAgrees`, `DeskOrQueue`, `PendingIsScheduled`, one
thread as `OneThread`) with what makes those readings harmless. `ScreensFresh`: a
screen that shows the present version shows every message noted so far, since
`noteCustomerInbound` bumps the version; `ClosedWasSeen` follows. `JobsAreDue`: a
job that a sweep holds is due, or outdated because the wake version of its
conversation has grown since and never comes back; `WokenWhenDue` follows, because
the sweep compares the versions before it writes. `OffersNameRows` and `Unmade` tie offers to
rows that exist. As each handler writes one conversation, the main lemma (`Rows`)
speaks of a row: whatever the action, every row still agrees with its job and
episode, is not younger than it was, is alive alone or comes to be so only where
nobody else is, and changes what was noted only by a message. The conjuncts about
screens, jobs and offers then follow from what may happen to a row.

*Argument, `Drafting`.* One half of `DraftingInv` is about tables: a snapshot of
the present revision has its audience (`FrozenIsCurrent`), what passed validation
is within its sheet (`ReadyIsWithin`), and a launch is the end of a campaign
(`LaunchIsOver`), which is why no later edit or import takes an execution out of
its approval. Every handler is shown to turn one row into one that `Follows` it
(lemmas `HandleMoves`, `CreateMoves`), and the tables are kept by any such move
(`TablesFollow`). The other half is about the wizard: all it still asks for, late
requests included, and all it launched is about the one campaign it knows
(`AsksForItsOwn`). That holds although a create may be answered after the wizard
gave up, because a confirmation asks to create at most once, and only the
confirmation the wizard waits for can name its campaign (`CreatesOnce`). One
campaign is launched at most once, so the session is too.

*Argument, `Receipts`.* `BelievedIsTold`: what is believed of a message, in its row,
in every reading a sweep carries and in the recipient that follows, was said of that
message by stored receipts; receipts are never dropped, so a stale reading is
outdated and not false. `SilentUntilAccepted`: before a message has its provider's
id no receipt reaches it, so the held receipts that its acceptance folds meet an
unheard row. `foldDelivery` and `settleRecipient` never lower the rank of what they
are given (`FoldRaises`, `SettleRaises`); `NeverRollsBack` follows but where the row
was written since the sweep read it, its exception. The sweep and the held receipts
are recursive functions over rows. Their domains are intervals, so what they compute
is reached by an induction over *sets*: `Stepwise` shows that a fold of `n` steps
exists and `HandedOn` that what one step hands to the next holds at the end, both
from the least element of a nonempty set of numbers. No library theorem with an
operator for a parameter is used for an induction. TLC checked the invariant on
99,069 states first.

*Argument, `Ingress`.* A request in the middle of a part has stored its earlier
parts, and what it inserted of this one is in the journal or its own (`Kept`,
`HandlersSound`), so the answer comes after everything. "Or its own" is stable
because a second insert of a key waits (`KeysApart`): what one transaction commits
was nobody else's, and new to the queue, so it is queued once; also the
transaction that goes on after a deadlock gets a key only the ended one had.
`RowsLocked` says the same of the workers, and with it `ProjectedOnce`: a fact has
been projected exactly when it has left the queue. The refinement adds nothing to
it: a part's commit is the abstract `Store` because its facts were new, a drain is
`Show` because its rows were still queued, and every other step is a stutter.

*Argument, `People`.* `OwnedUnlessRaced` rests on `CountedOnce`: until two calls have
been counted at once, only one that has been counted has yet to commit, and with its
rows an owner remains. What a call has written must stay true of rows others may
change: a call writes only the status of members (`WritesMembers`), under their row
locks. `JoinsByInvitation` rests on `HeldInvites` and `HeldOnce`: an invitation that
is being accepted is pending and no one else is accepting it, until the commit.

*Argument, `PushOutbox`.* `HeldIsCurrent`: the subscription a worker read is still
its device's, unless a registration has made the device `crossed`. A `gone`
that is written to the device's row is therefore true of its present subscription.

*Argument, `Sessions`.* The two properties need four facts that are true only
because of the locks. `OneReplacement`: at most one transaction has the account's
row exclusively, and it can still replace the password. `SweptAll`: while a sweep
waits for its commit, every live session is one it revoked, the one it keeps, or
one made meanwhile; `SweptInTurn`: nothing counts as swept before the sweep, and a
completion sweeps its own link. `HeldIsOpen`: a claimed link is open and claimed
by one completion, also after its sweep, until the commit spends it: this is what
makes `LinkSpentOnce` inductive. Each conjunct is preserved action by action.

*Argument, `EmailOutbox`.* `OneOnPending`: a row that was never claimed from under
a worker has at most one worker on it, and is pending while it has. A late answer
to such a row is therefore the only answer, and a settled row has nobody left who
could write it.

*Argument, `Screen`.* `CurrentIsNewer`: of the two reads that may be under way, the
one whose answer would be written, being the newest of its name, includes no fewer
events than the screen shows. An answer is as of when the database gave it, and a
read that overtakes another makes that one old, so nothing older is ever applied.

*Argument, `Automations`.* `Backed`: a recipient that is not waited for has every step
behind it, has failed at one, or had its message decided. A call of `execute` carries
out any number of actions, and `Carried` is a recursive function over them: `OneAction`
shows what one keeps and `AllActions`, by the least counterexample, that all do. With
it a run is ended only with nobody `Open`, which is what `finalize` looks at.

*Argument, `Fairness`.* `FairDeal` is `DealtOut` and `EvenDeal`, and the latter says nothing until the deal is over, so
`DealtInPasses` says what the loop has come to: there is a number p of whole passes
such that who still wants a slot has exactly p if this pass has yet to come to them
and p + 1 if it has been there, and what is left of the pass is the end of the list.
Wherever the slots run out, the deal is then even but for one slot, which those
earlier in the order have. `SlotsAdd` counts: the slots handed out, as a set of
pairs, and those left are the capacity. `EveryoneIsDealtIn` puts the two together:
if somebody on the list had no slot nobody would have two, so the slots handed out
map injectively into the list without that company and would be fewer than the
capacity, and `DealtOut` says none is kept back that is wanted.

*What the theorems do not say.* Liveness and ENABLED are beyond the prover, so what
must eventually happen is model-checked only: that commands are decided, a broadcast
finishes, snoozes end, messages are noted, offers expire, emails settle, automations
end, the screen catches up, facts come in and turns come (`TurnsCome`). The
scene *recovery* restates `CopiesBounded` for its own instance (`CopiesAreBounded`); it
is proved as `CopiesTakeCrashes`. Five facts are proved and not run: that pending
commands are those in the outbox and that what was answered is kept, which the two
refinements imply, that `OutboundPromise` is kept with the broadcast's handlers beside
the dispatcher, that nobody who fits in is
dealt nothing, and the type invariants. The exceptions named in the
properties (`overlap`, `raced`, `crossed`, `overtaken`, two sweeps at once, the last
disjunct of `NobodyLeftOut`) are exceptions of the theorems too: there the code does
otherwise (section 4). No module uses `RECURSIVE`.

## 7. Not modelled

- *Broker relay*: nothing calls it; `api.module.ts:213` registers the service and
  no code enqueues, drains, replays or claims. Its hazards (a quarantine in two
  transactions, a relay whose lease expired) are nobody's yet.
- *Idempotent commands*: one insert under a unique key that waits for whoever
  holds it; the models take a command as executed once.
- *Bootstrap and migrations*: before everything else, under an advisory lock.
- *Authorization* beyond what `People` has of it: pure evaluation of a matrix its
  tests enumerate. *Contacts, segments, metadata*: one-transaction CRUD under row
  locks. *Reports* read. *Transports* are I/O; the models take a transport's
  answers as `classifyOutcome` classifies them. *Web client* but for the inbox
  lists and the broadcast wizard, *deployment*, *proposal pages*: rendering and packaging. These are most
  of the repository's lines, which is why the map covers a small share of them.
- In the modelled components: rendering of content, permit reasons, audit rows,
  announcements and the agent-facing refusals before `queueAuthorized`; of
  campaigns test sends, inbox repair, schedules and what a form checks; of
  conversations priority, collaborators, notes, read marks, first responses,
  imported history, campaign leads and teams; of ingress profile lookups, echoes
  and imported history; of automations the schedules and events that start runs;
  of the feed the visibility of single events and pruning; of people custom
  roles, scopes, teams and profile edits.
