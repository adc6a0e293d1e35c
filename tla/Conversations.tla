--------------------------- MODULE Conversations ---------------------------
(***************************************************************************)
(* The conversations of a workspace between the people who work them       *)
(* (lifecycle.service.ts, conversation.service.ts, routing.service.ts),    *)
(* the customers who write, and the inbound worker, whose tick wakes       *)
(* snoozed conversations, lets handoff offers expire and only then turns   *)
(* stored messages into conversations (worker-roles.ts, inboundTick).      *)
(*                                                                         *)
(* A command is fenced on the version its screen showed.  `current` holds  *)
(* the people whose screen shows the present version: for them the row is  *)
(* what the screen showed, and for everybody else a fenced command changes *)
(* nothing.  That replaces the version number.                             *)
(***************************************************************************)
EXTENDS Integers, FiniteSets, FiniteSetsExt

CONSTANTS
  Company,
  Customer,       \* a peer identity on a connection
  Conversation,   \* rows of conversations (bound: the last is not archived)
  Agent,          \* memberships, with the permissions to act
  Offer,          \* rows of conversation_handoffs
  Worker,         \* inbound workers
  Nobody,
  HomeOf,         \* the company of a customer or an agent
  PeerIn,         \* the customer a conversation row is for
  Reader,         \* bound: the people who open conversations
  MaxInbound,     \* bound: messages of one customer
  MaxWakes,       \* bound: no snooze after this wake version
  MaxRemovals     \* bound: conversations removed from the workspace

ASSUME ConversationAssumption ==
  /\ HomeOf \in [Customer \cup Agent -> Company]
  /\ PeerIn \in [Conversation -> Customer]
  /\ Nobody \notin Agent \cup Conversation /\ Reader \subseteq Agent
  /\ MaxInbound \in Nat /\ MaxWakes \in Nat /\ MaxRemovals \in Nat

VARIABLES
  stored,    \* journalled messages the inbound worker has not taken yet
  conv,      \* conversations
  wakes,     \* conversation_wakes
  episodes,  \* how many episodes of a conversation are not closed
  offers,    \* conversation_handoffs and their expiry rows
  screen,    \* the detail each person's request or screen has read
  current,   \* the people whose screen has the present version
  tick       \* where each inbound worker is in its tick

vars == <<stored, conv, wakes, episodes, offers, screen, current, tick>>
rows == <<conv, wakes, episodes>>

CompanyOf(t) == HomeOf[PeerIn[t]]

-----------------------------------------------------------------------------
(* Rows *)

Status == {"none", "open", "pending", "snoozed", "resolved", "archived"}
Active == {"open", "pending", "snoozed"}

ConversationRow ==
  [status : Status, assignee : Agent \cup {Nobody}, waiting : BOOLEAN,
   wake : Nat, removed : BOOLEAN, noted : Nat]
NoRow == [status |-> "none", assignee |-> Nobody, waiting |-> FALSE,
          wake |-> 0, removed |-> FALSE, noted |-> 0]

WakeJob == [there : BOOLEAN, version : Nat, due : BOOLEAN]
NoJob == [there |-> FALSE, version |-> 0, due |-> FALSE]

OfferState == {"none", "pending", "accepted", "settled", "expired"}
OfferRow ==
  [state : OfferState, conv : Conversation \cup {Nobody},
   from : Agent \cup {Nobody}, to : Agent \cup {Nobody},
   basedOn : Agent \cup {Nobody}, scheduled : BOOLEAN, due : BOOLEAN]
NoOffer == [state |-> "none", conv |-> Nobody, from |-> Nobody, to |-> Nobody,
            basedOn |-> Nobody, scheduled |-> FALSE, due |-> FALSE]

Screen == [conv : Conversation, assignee : Agent \cup {Nobody}, seen : Nat]
Blank == [conv |-> Nobody, assignee |-> Nobody, seen |-> 0]

Stage == {"idle", "wakes", "wake", "offers", "offer", "drain"}
Job == [conv : Conversation, version : Nat]
Tick == [at : Stage, pending : SUBSET Company, todo : SUBSET Company,
         home : SUBSET Company, jobs : SUBSET Job, due : SUBSET Offer]
NoTick == [at |-> "idle", pending |-> {}, todo |-> {}, home |-> {},
           jobs |-> {}, due |-> {}]

TypeOK ==
  /\ stored \in [Customer -> Nat]
  /\ conv \in [Conversation -> ConversationRow]
  /\ wakes \in [Conversation -> WakeJob]
  /\ episodes \in [Conversation -> Nat]
  /\ offers \in [Offer -> OfferRow]
  /\ screen \in [Agent -> Screen \cup {Blank}]
  /\ current \subseteq {a \in Agent : screen[a] # Blank}
  /\ tick \in [Worker -> Tick]

Init ==
  /\ stored = [c \in Customer |-> 0]
  /\ conv = [t \in Conversation |-> NoRow]
  /\ wakes = [t \in Conversation |-> NoJob]
  /\ episodes = [t \in Conversation |-> 0]
  /\ offers = [o \in Offer |-> NoOffer]
  /\ screen = [a \in Agent |-> Blank]
  /\ current = {}
  /\ tick = [w \in Worker |-> NoTick]

\* version = version + 1: nobody's screen has the present version any more.
Bump(t) == current' = {a \in current : screen[a].conv # t}

\* readDetail: a removed conversation is not there for anybody.
Visible(t) == conv[t].status # "none" /\ ~conv[t].removed

-----------------------------------------------------------------------------
(* ensure: the customer's live thread, or a new one *)

Threads(c) == {t \in Conversation : PeerIn[t] = c}
Live(c) == {t \in Threads(c) : conv[t].status \notin {"none", "archived"}}
Spare(c) == {t \in Threads(c) : conv[t].status = "none"}
Ensured(c) == IF Live(c) # {} THEN Live(c) ELSE Spare(c)

NewRow == [NoRow EXCEPT !.status = "open"]
RowOf(t) == IF conv[t].status = "none" THEN NewRow ELSE conv[t]
OpenEpisodes(t) == IF conv[t].status = "none" THEN 1 ELSE episodes[t]

-----------------------------------------------------------------------------
(* What happens to a conversation *)

\* Slip: the wake job of the snooze stays.
JobKept(t) == wakes[t]

\* The customer answered before the wake time: the job is spent.
JobAfterNote(t) == IF conv[t].status = "snoozed" THEN NoJob ELSE wakes[t]

\* noteCustomerInbound, in the transaction that ensured t.
Note(t) ==
  LET r == RowOf(t)
  IN /\ conv' = [conv EXCEPT ![t] =
          [r EXCEPT !.status = "open", !.noted = @ + 1,
                    !.waiting = @ \/ r.assignee = Nobody,
                    !.wake = IF r.status = "snoozed" THEN @ + 1 ELSE @]]
     /\ wakes' = [wakes EXCEPT ![t] = JobAfterNote(t)]
     /\ episodes' = [episodes EXCEPT ![t] =
          IF r.status = "resolved" THEN 1 ELSE OpenEpisodes(t)]
     /\ Bump(t)

Command == {"wait", "snooze", "resolve", "reopen", "archive"}

\* TABLE, the agents' rows: where a command is allowed and where it leads.
From == [wait |-> {"open"}, snooze |-> Active \cup {"resolved"},
         resolve |-> Active \cup {"resolved"}, reopen |-> {"resolved"},
         archive |-> {"resolved"}]
To == [wait |-> "pending", snooze |-> "snoozed", resolve |-> "resolved",
       reopen |-> "open", archive |-> "archived"]

\* A snooze always gets a version of its own; resolving spends the last one.
NewVersion(t, c) ==
  conv[t].wake + IF c = "snooze" \/ (c = "resolve" /\ conv[t].status = "snoozed")
                 THEN 1 ELSE 0

\* Slip: resolving leaves the episode open.
EpisodesKept(t, c) == IF c = "reopen" THEN 1 ELSE episodes[t]

\* applyEpisodeEffects.  Resolving what is resolved has no effects.
EpisodesAfter(t, c) ==
  CASE c = "reopen" -> 1
    [] c = "resolve" /\ conv[t].status # "resolved" -> 0
    [] OTHER -> episodes[t]

\* write, reschedule and applyEpisodeEffects.
Move(t, c) ==
  /\ conv' = [conv EXCEPT ![t] =
       [@ EXCEPT !.status = To[c], !.wake = NewVersion(t, c)]]
  /\ wakes' = [wakes EXCEPT ![t] =
       IF c = "snooze"
       THEN [there |-> TRUE, version |-> NewVersion(t, c), due |-> FALSE]
       ELSE NoJob]
  /\ episodes' = [episodes EXCEPT ![t] = EpisodesAfter(t, c)]
  /\ Bump(t)

\* Slip: taken off a desk, the conversation is not put back into the queue.
HeldUnqueued(r, a) == [r EXCEPT !.assignee = a, !.waiting = FALSE]

\* The assignee column moves, and with it the conversation's place in the queue.
Held(r, a) == [r EXCEPT !.assignee = a, !.waiting = a = Nobody]

-----------------------------------------------------------------------------
(* People *)

Open(a, t) ==
  /\ a \in Reader \ current
  /\ Visible(t) /\ HomeOf[a] = CompanyOf(t)
  /\ screen' = [screen EXCEPT ![a] =
       [conv |-> t, assignee |-> conv[t].assignee, seen |-> conv[t].noted]]
  /\ current' = current \cup {a}
  /\ UNCHANGED <<stored, rows, offers, tick>>

\* Slip: the UPDATE does not name the version.
ReadSometime(a) == screen[a].conv # Nobody

\* WHERE id = $1 AND version = $2.
Fenced(a) == a \in current

Showing(a) == screen[a].conv

\* The request is over; the person reads the conversation again.
Done(a) == screen' = [screen EXCEPT ![a] = Blank]

Colleagues(a) == {b \in Agent : HomeOf[b] = HomeOf[a]}

\* LifecycleService.command
Act(a, c) ==
  /\ Fenced(a)
  /\ conv[Showing(a)].status \in From[c]
  /\ c = "snooze" => conv[Showing(a)].wake < MaxWakes
  /\ c = "archive" => Spare(PeerIn[Showing(a)]) # {}
  /\ Move(Showing(a), c)
  /\ Done(a) /\ UNCHANGED <<stored, offers, tick>>

\* assign, its unassign, and releaseOwn: archived conversations are not refused.
Assign(a, to) ==
  /\ Fenced(a)
  /\ to # conv[Showing(a)].assignee
  /\ to \in Colleagues(a) \cup {Nobody}
  /\ conv' = [conv EXCEPT ![Showing(a)] = Held(@, to)]
  /\ Bump(Showing(a))
  /\ Done(a) /\ UNCHANGED <<stored, wakes, episodes, offers, tick>>

Claim(a) ==
  /\ Fenced(a)
  /\ conv[Showing(a)].assignee = Nobody
  /\ conv[Showing(a)].status # "archived"
  /\ conv' = [conv EXCEPT ![Showing(a)] = Held(@, a)]
  /\ Bump(Showing(a))
  /\ Done(a) /\ UNCHANGED <<stored, wakes, episodes, offers, tick>>

\* Slip: one live thread per customer is not asked for.
MayRestoreAlways(t) == conv[t].status = "archived" /\ Visible(t)

\* The live thread is looked for, and the unique index has the last word.
MayRestore(t) ==
  conv[t].status = "archived" /\ Visible(t) /\ Live(PeerIn[t]) = {}

\* archived(restore): as it was when archived.
Restore(t) ==
  /\ MayRestore(t)
  /\ conv' = [conv EXCEPT ![t].status = "resolved"]
  /\ Bump(t)
  /\ UNCHANGED <<stored, wakes, episodes, offers, screen, tick>>

\* archived(delete): offers on the conversation stay as they are.
Remove(t) ==
  /\ conv[t].status = "archived" /\ Visible(t)
  /\ Cardinality({u \in Conversation : conv[u].removed}) < MaxRemovals
  /\ conv' = [conv EXCEPT ![t].removed = TRUE]
  /\ Bump(t)
  /\ UNCHANGED <<stored, wakes, episodes, offers, screen, tick>>

\* ensure for outbound contact: a broadcast, an echo, a receipt.
Contact(t) ==
  /\ t \in Ensured(PeerIn[t]) /\ conv[t].status = "none"
  /\ conv' = [conv EXCEPT ![t] = NewRow]
  /\ episodes' = [episodes EXCEPT ![t] = 1]
  /\ UNCHANGED <<stored, wakes, offers, screen, current, tick>>

\* queueQuickWhatsApp: ensure, then the thread is the sender's.
QuickStart(a, t) ==
  /\ HomeOf[a] = CompanyOf(t)
  /\ t \in Ensured(PeerIn[t])
  /\ RowOf(t).status \in {"open", "pending"} /\ RowOf(t).assignee = Nobody
  /\ conv' = [conv EXCEPT ![t] = Held(RowOf(t), a)]
  /\ episodes' = [episodes EXCEPT ![t] = OpenEpisodes(t)]
  /\ Bump(t)
  /\ UNCHANGED <<stored, wakes, offers, screen, tick>>

-----------------------------------------------------------------------------
(* Offers *)

Outstanding(t) == {o \in Offer : offers[o].state = "pending" /\ offers[o].conv = t}

\* Slip: the offer is made without its row in the schedule.
OfferedUnscheduled(a, to) ==
  [state |-> "pending", conv |-> Showing(a), from |-> a, to |-> to,
   basedOn |-> screen[a].assignee, scheduled |-> FALSE, due |-> FALSE]

\* The rows of requestHandoff.
Offered(a, to) ==
  [state |-> "pending", conv |-> Showing(a), from |-> a, to |-> to,
   basedOn |-> screen[a].assignee, scheduled |-> TRUE, due |-> FALSE]

\* requestHandoff compared the version when it read the detail; the INSERT is
\* not fenced, and what the offer is based on is what was read.
Request(a, o, to) ==
  /\ screen[a] # Blank
  /\ to \in Colleagues(a) \ {a}
  /\ Outstanding(Showing(a)) = {} /\ offers[o].state = "none"
  /\ offers' = [offers EXCEPT ![o] = Offered(a, to)]
  /\ current' = current \ {a} /\ Done(a)
  /\ UNCHANGED <<stored, rows, tick>>

\* settle: what else the row says is not read again.
Settled(o, s) == [NoOffer EXCEPT !.state = s]

\* lockHandoff, and the rules every answer has.
Answerable(a, o) ==
  /\ offers[o].state = "pending" /\ ~offers[o].due
  /\ Visible(offers[o].conv) /\ HomeOf[a] = CompanyOf(offers[o].conv)

\* Slip: whoever holds the conversation now loses it.
NotSupersededEver(o) == TRUE

\* checkHandoffAction: who held it when the offer was made still does.
NotSuperseded(o) == conv[offers[o].conv].assignee = offers[o].basedOn

\* The move is fenced on the version read under the offer's lock.
Accept(a, o) ==
  /\ Answerable(a, o) /\ a = offers[o].to /\ NotSuperseded(o)
  /\ conv' = [conv EXCEPT ![offers[o].conv] = Held(@, a)]
  /\ Bump(offers[o].conv)
  /\ offers' = [offers EXCEPT ![o] = Settled(@, "accepted")]
  /\ UNCHANGED <<stored, wakes, episodes, screen, tick>>

\* decline by the one asked; cancel by the one asking or anybody who may assign.
Withdraw(a, o) ==
  /\ Answerable(a, o)
  /\ offers' = [offers EXCEPT ![o] = Settled(@, "settled")]
  /\ UNCHANGED <<stored, rows, screen, current, tick>>

-----------------------------------------------------------------------------
(* Time and customers *)

Written(c) == stored[c] + MapThenSumSet(LAMBDA t : conv[t].noted, Threads(c))

\* The receiver journals a message.
Write(c) ==
  /\ Written(c) < MaxInbound
  /\ stored' = [stored EXCEPT ![c] = @ + 1]
  /\ UNCHANGED <<rows, offers, screen, current, tick>>

WakeComesDue(t) ==
  /\ wakes[t].there /\ ~wakes[t].due
  /\ wakes' = [wakes EXCEPT ![t].due = TRUE]
  /\ UNCHANGED <<stored, conv, episodes, offers, screen, current, tick>>

OfferComesDue(o) ==
  /\ offers[o].state = "pending" /\ ~offers[o].due
  /\ offers' = [offers EXCEPT ![o].due = TRUE]
  /\ UNCHANGED <<stored, rows, screen, current, tick>>

-----------------------------------------------------------------------------
(* The inbound worker's tick *)

DueWakes == {t \in Conversation : wakes[t].there /\ wakes[t].due}
DueOffers == {o \in Offer : offers[o].scheduled /\ offers[o].due}
HomesOf(ts) == {CompanyOf(t) : t \in ts}
\* Slip: a customer's only message is overlooked.
WaitingMore(k) == {c \in Customer : HomeOf[c] = k /\ stored[c] > 1}

Waiting(k) == {c \in Customer : HomeOf[c] = k /\ stored[c] > 0}

Advance(w, s) == tick' = [tick EXCEPT ![w] = s]

\* Slip: only the companies that have other traffic are swept.
WakeHomesBusy(busy) == HomesOf(DueWakes) \cap busy

\* tenantsWithWakesDue; `busy` are the companies of pendingTenants.
WakeHomes(busy) == HomesOf(DueWakes)

\* pendingTenants and tenantsWithWakesDue.
Start(w) ==
  /\ tick[w].at = "idle"
  /\ Advance(w, [NoTick EXCEPT !.at = "wakes",
                   !.pending = {k \in Company : Waiting(k) # {}},
                   !.todo = WakeHomes({k \in Company : Waiting(k) # {}})])
  /\ UNCHANGED <<stored, rows, offers, screen, current>>

\* sweepWakes: one company's due jobs are read ...
ReadWakes(w) ==
  /\ tick[w].at = "wakes"
  /\ \E k \in tick[w].todo :
       Advance(w, [tick[w] EXCEPT !.at = "wake", !.todo = @ \ {k},
                     !.jobs = {[conv |-> t, version |-> wakes[t].version] :
                                 t \in {u \in DueWakes : CompanyOf(u) = k}}])
  /\ UNCHANGED <<stored, rows, offers, screen, current>>

\* Slip: any job of a snoozed conversation wakes it.
WokenByAnyJob(jobs) ==
  {t \in Conversation : conv[t].status = "snoozed" /\ \E j \in jobs : j.conv = t}

\* WHERE id = $1 AND wake_version = $2 AND status = 'snoozed'.
WokenBy(jobs) ==
  {t \in Conversation : /\ conv[t].status = "snoozed"
                        /\ [conv |-> t, version |-> conv[t].wake] \in jobs}

SpentBy(jobs) ==
  {t \in Conversation : /\ wakes[t].there
                        /\ [conv |-> t, version |-> wakes[t].version] \in jobs}

\* ... and each wakes its conversation if it is still its own; the job is spent
\* either way.
WriteWakes(w) ==
  LET woken == WokenBy(tick[w].jobs)
      spent == SpentBy(tick[w].jobs)
  IN /\ tick[w].at = "wake"
     /\ conv' = [t \in Conversation |-> IF t \in woken
          THEN [conv[t] EXCEPT !.status = "open", !.wake = @ + 1] ELSE conv[t]]
     /\ wakes' = [t \in Conversation |-> IF t \in spent THEN NoJob ELSE wakes[t]]
     /\ current' = {a \in current : Showing(a) \notin woken}
     /\ Advance(w, [tick[w] EXCEPT !.at = "wakes", !.jobs = {}])
     /\ UNCHANGED <<stored, episodes, offers, screen>>

\* Slip: only the companies that have other traffic are swept.
OfferHomesBusy(busy) == HomesOf({offers[o].conv : o \in DueOffers}) \cap busy

\* sweepExpiredHandoffs: the companies with an offer due.
OfferHomes(busy) == HomesOf({offers[o].conv : o \in DueOffers})

ListOffers(w) ==
  /\ tick[w].at = "wakes" /\ tick[w].todo = {}
  /\ Advance(w, [tick[w] EXCEPT !.at = "offers",
                   !.todo = OfferHomes(tick[w].pending)])
  /\ UNCHANGED <<stored, rows, offers, screen, current>>

\* The schedule has no row security and the query names no company: a company's
\* transaction reads the due offers of all of them.
ReadOffers(w) ==
  /\ tick[w].at = "offers"
  /\ \E k \in tick[w].todo :
       Advance(w, [tick[w] EXCEPT !.at = "offer", !.todo = @ \ {k},
                     !.home = {k}, !.due = DueOffers])
  /\ UNCHANGED <<stored, rows, offers, screen, current>>

\* What requireConversation finds in the company's context.
Found(w) == \A o \in tick[w].due : /\ Visible(offers[o].conv)
                                   /\ CompanyOf(offers[o].conv) \in tick[w].home

\* Settled WHERE state = 'pending'.
Expire(o) == IF offers[o].state = "pending" THEN Settled(offers[o], "expired")
             ELSE offers[o]

WriteOffers(w) ==
  /\ tick[w].at = "offer" /\ Found(w)
  /\ offers' = [o \in Offer |-> IF o \in tick[w].due THEN Expire(o) ELSE offers[o]]
  /\ Advance(w, [tick[w] EXCEPT !.at = "offers", !.home = {}, !.due = {}])
  /\ UNCHANGED <<stored, rows, screen, current>>

\* notFound: the transaction rolls back and the exception ends the tick.
Throw(w) ==
  /\ tick[w].at = "offer" /\ ~Found(w)
  /\ Advance(w, NoTick)
  /\ UNCHANGED <<stored, rows, offers, screen, current>>

BeginDrain(w) ==
  /\ tick[w].at = "offers" /\ tick[w].todo = {}
  /\ Advance(w, [tick[w] EXCEPT !.at = "drain"])
  /\ UNCHANGED <<stored, rows, offers, screen, current>>

\* One message of a company that had some when the tick began.
Drain(w) ==
  /\ tick[w].at = "drain"
  /\ \E k \in tick[w].pending : \E c \in Waiting(k) : \E t \in Ensured(c) :
       /\ Note(t)
       /\ stored' = [stored EXCEPT ![c] = @ - 1]
  /\ UNCHANGED <<offers, screen, tick>>

EndTick(w) ==
  /\ tick[w].at = "drain" /\ \A k \in tick[w].pending : Waiting(k) = {}
  /\ Advance(w, NoTick)
  /\ UNCHANGED <<stored, rows, offers, screen, current>>

-----------------------------------------------------------------------------
People ==
  \/ \E a \in Agent, t \in Conversation : Open(a, t) \/ QuickStart(a, t)
  \/ \E a \in Agent, c \in Command : Act(a, c)
  \/ \E a \in Agent, to \in Agent \cup {Nobody} : Assign(a, to)
  \/ \E a \in Agent : Claim(a)
  \/ \E t \in Conversation : Restore(t) \/ Remove(t) \/ Contact(t)
  \/ \E a, to \in Agent, o \in Offer : Request(a, o, to)
  \/ \E a \in Agent, o \in Offer : Accept(a, o) \/ Withdraw(a, o)

World ==
  \/ \E c \in Customer : Write(c)
  \/ \E t \in Conversation : WakeComesDue(t)
  \/ \E o \in Offer : OfferComesDue(o)

Work(w) ==
  \/ Start(w) \/ ReadWakes(w) \/ WriteWakes(w) \/ ListOffers(w)
  \/ ReadOffers(w) \/ WriteOffers(w) \/ Throw(w)
  \/ BeginDrain(w) \/ Drain(w) \/ EndTick(w)

Next == People \/ World \/ \E w \in Worker : Work(w)

Spec == Init /\ [][Next]_vars

\* The loop ticks again whatever the last tick did (runWorkerLoop).
FairSpec == Spec /\ \A w \in Worker : WF_vars(Work(w))

-----------------------------------------------------------------------------
(* Properties *)

\* One live conversation per customer and channel, whatever archiving, new
\* messages and restoring do in between (the partial unique index, and the
\* check before a restore).
OneLiveThread == \A c \in Customer : Cardinality(Live(c)) <= 1

\* A conversation is snoozed exactly while a job that carries its present wake
\* version is in the queue: it cannot sleep for ever, and no job is left to
\* wake what somebody resolved (write and reschedule in one transaction).
SnoozeHasJob(t) ==
  /\ (conv[t].status = "snoozed") = wakes[t].there
  /\ wakes[t].there => wakes[t].version = conv[t].wake

\* A conversation has one open reporting episode at most, and none once it is
\* resolved or archived (closeEpisode, openEpisode).
OneEpisode(t) ==
  /\ episodes[t] <= 1
  /\ conv[t].status \in {"resolved", "archived"} => episodes[t] = 0

\* Whatever order people, customers and wakes come in, status, wake job and
\* episodes of a conversation tell the same story.
LifecycleAgrees == \A t \in Conversation : SnoozeHasJob(t) /\ OneEpisode(t)

\* A customer who wrote is on somebody's desk or in the unassigned queue, and
\* never both (waiting_since against the assignee, in four handlers).
DeskOrQueue ==
  \A t \in Conversation :
    /\ conv[t].waiting => conv[t].assignee = Nobody
    /\ conv[t].noted > 0 /\ conv[t].assignee = Nobody => conv[t].waiting

\* An offer is in the expiry schedule exactly while it is pending, so that none
\* is pending for ever because it was forgotten (requestHandoff, settle).
PendingIsScheduled ==
  \A o \in Offer : (offers[o].state = "pending") = offers[o].scheduled

\* Nobody closes a conversation over a message they have not seen: whoever
\* resolves or archives had every message that was noted by then on the screen
\* (the version fence of `command` against the inbound transaction).
ClosedWasSeen ==
  [][\A a \in Agent, c \in {"resolve", "archive"} :
       Act(a, c) => screen[a].seen = conv[Showing(a)].noted]_vars

\* An accepted offer takes the conversation from nobody who did not make it
\* theirs to give: its holder is the one it was based on, and it becomes the
\* recipient's in the same step (settleHandoff).
AcceptedFromHolder ==
  [][\A o \in Offer :
       offers[o].state = "pending" /\ offers'[o].state = "accepted" =>
         /\ conv[offers[o].conv].assignee = offers[o].basedOn
         /\ conv'[offers[o].conv].assignee = offers[o].to]_vars

\* Only a message or its own due job ends a snooze early: the job of an earlier
\* snooze, read by a sweep before the conversation was snoozed again, wakes
\* nothing (the wake_version of sweepWakes).
WokenWhenDue ==
  [][\A t \in Conversation :
       /\ conv[t].status = "snoozed" /\ conv'[t].status = "open"
       /\ conv'[t].noted = conv[t].noted
       => wakes[t].due]_vars

\* The exception the code makes of the next two: a due offer of a conversation
\* that was removed can neither be answered nor expire.
Blocked ==
  \E o \in Offer : /\ offers[o].state = "pending" /\ offers[o].due
                   /\ conv[offers[o].conv].removed

\* A stored message is turned into its conversation (inboundTick), unless the
\* offers are blocked: their sweep comes before the drain in every tick.
EveryMessageNoted ==
  \A c \in Customer : stored[c] > 0 ~> stored[c] = 0 \/ Blocked

\* An offer nobody answered expires (sweepExpiredHandoffs), unless blocked.
EveryOfferExpires ==
  \A o \in Offer :
    offers[o].state = "pending" /\ offers[o].due ~>
      offers[o].state # "pending" \/ Blocked

\* A snooze whose time has come ends, or is replaced by one that is not due,
\* blocked offers or not, and in a company without other traffic too
\* (sweepDueWakes).
Overdue(t) == conv[t].status = "snoozed" /\ (wakes[t].there => wakes[t].due)
EverySnoozeEnds == \A t \in Conversation : Overdue(t) ~> ~Overdue(t)

\* What the worker loop is there for: one company's rows do not stop another's
\* work.  Here no conversation is removed, so there is no exception.
EveryCompanyServed == \A c \in Customer : stored[c] > 0 ~> stored[c] = 0
=============================================================================
