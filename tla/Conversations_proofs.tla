----------------------- MODULE Conversations_proofs -----------------------
(***************************************************************************)
(* What the conversations of a workspace keep for any number of customers, *)
(* rows, people, offers, workers and companies, however their handlers     *)
(* interleave with the sweeps.                                             *)
(*                                                                         *)
(* The sweeps write what they read earlier, and people act on what they    *)
(* saw earlier; so the invariant is also about what a tick and a screen    *)
(* still may know: a job that was read is due or outdated, and a screen    *)
(* with the present version shows every message.                           *)
(***************************************************************************)
EXTENDS Conversations, FiniteSetTheorems, TLAPS

IsLive(t) == conv[t].status \notin {"none", "archived"}

\* OneLiveThread, of pairs.
OneThread ==
  \A t, u \in Conversation :
    PeerIn[t] = PeerIn[u] /\ IsLive(t) /\ IsLive(u) => t = u

\* A row nobody made yet says nothing.
Unmade == \A t \in Conversation : conv[t].status = "none" => conv[t] = NoRow

\* A pending offer is about a conversation.
OffersNameRows == \A o \in Offer :
  offers[o].state = "pending" => offers[o].conv \in Conversation

\* A screen with the present version shows a conversation there is, with every
\* message noted by now.
ScreensFresh == \A a \in current :
  /\ conv[screen[a].conv].status # "none"
  /\ screen[a].seen = conv[screen[a].conv].noted

\* A job a sweep read is due, or of a snooze that is over.
JobsAreDue == \A w \in Worker : \A j \in tick[w].jobs :
  /\ j.version <= conv[j.conv].wake
  /\ wakes[j.conv].there /\ wakes[j.conv].version = j.version => wakes[j.conv].due

ConvInv ==
  /\ TypeOK
  /\ LifecycleAgrees
  /\ DeskOrQueue
  /\ Unmade
  /\ OneThread
  /\ PendingIsScheduled
  /\ OffersNameRows
  /\ ScreensFresh
  /\ JobsAreDue

-----------------------------------------------------------------------------
(* What a step may do to a row *)

\* The row of a conversation, its job and its episodes agree.
RowGood(t) ==
  /\ conv[t] \in ConversationRow /\ wakes[t] \in WakeJob /\ episodes[t] \in Nat
  /\ SnoozeHasJob(t) /\ OneEpisode(t)
  /\ conv[t].waiting => conv[t].assignee = Nobody
  /\ conv[t].noted > 0 /\ conv[t].assignee = Nobody => conv[t].waiting
  /\ conv[t].status = "none" => conv[t] = NoRow

\* A row stays made, its wake versions grow, a job stays due, and a new job has
\* a new version.
NotYounger(t) ==
  /\ conv[t].status # "none" => conv'[t].status # "none"
  /\ conv'[t].wake >= conv[t].wake
  /\ wakes'[t].there =>
       \/ wakes'[t].version > conv[t].wake
       \/ /\ wakes[t].there /\ wakes'[t].version = wakes[t].version
          /\ wakes[t].due => wakes'[t].due

\* A thread comes to life only beside threads that are not alive.
AliveAlone(t) ==
  IsLive(t)' => \/ IsLive(t)
                \/ \A u \in Conversation \ {t} : PeerIn[u] = PeerIn[t] => ~IsLive(u) /\ ~IsLive(u)'

\* A message nobody's present screen shows makes those screens outdated.
Noticed(t) ==
  conv'[t].noted = conv[t].noted \/ \A a \in current' : screen'[a].conv # t

RowStep(t) == RowGood(t)' /\ NotYounger(t) /\ AliveAlone(t) /\ Noticed(t)

LEMMA GoodRows ==
  ASSUME ConvInv, NEW t \in Conversation
  PROVE  RowGood(t)
BY DEF ConvInv, TypeOK, LifecycleAgrees, DeskOrQueue, Unmade, RowGood

LEMMA KeptRow ==
  ASSUME ConvInv, NEW t \in Conversation,
         conv'[t] = conv[t], wakes'[t] = wakes[t], episodes'[t] = episodes[t]
  PROVE  RowStep(t)
<1>1. RowGood(t)
  BY GoodRows
<1>2. RowGood(t)'
  BY <1>1 DEF RowGood, SnoozeHasJob, OneEpisode
<1>3. NotYounger(t) /\ AliveAlone(t) /\ Noticed(t)
  BY <1>1 DEF RowGood, NotYounger, AliveAlone, Noticed, IsLive, ConversationRow
<1>4. QED BY <1>2, <1>3 DEF RowStep

\* A conversation that is made anew, as ensure makes it.
LEMMA NewRowGood ==
  /\ NewRow \in ConversationRow
  /\ NewRow.status = "open" /\ NewRow.noted = 0 /\ NewRow.assignee = Nobody
  /\ NewRow.wake = 0 /\ NewRow.waiting = FALSE
BY DEF NewRow, NoRow, ConversationRow, Status

LEMMA EnsuredRow ==
  ASSUME ConvInv, NEW t \in Conversation
  PROVE  /\ RowOf(t) \in ConversationRow /\ RowOf(t).status # "none"
         /\ OpenEpisodes(t) \in 0..1
         /\ RowOf(t).wake = conv[t].wake /\ RowOf(t).noted = conv[t].noted
         /\ RowOf(t).assignee = conv[t].assignee
         /\ RowOf(t).waiting = conv[t].waiting
         /\ RowOf(t).status = conv[t].status \/ (RowOf(t).status = "open" /\ conv[t].status = "none")
         /\ RowOf(t).status \in {"resolved", "archived"} => OpenEpisodes(t) = 0
<1>1. RowGood(t)
  BY GoodRows
<1>2. CASE conv[t].status = "none"
  <2>1. /\ conv[t].wake = 0 /\ conv[t].noted = 0
        /\ conv[t].assignee = Nobody /\ conv[t].waiting = FALSE
    BY <1>1, <1>2 DEF RowGood, NoRow
  <2>2. RowOf(t) = NewRow /\ OpenEpisodes(t) = 1
    BY <1>2 DEF RowOf, OpenEpisodes
  <2>3. /\ RowOf(t).assignee = conv[t].assignee
        /\ RowOf(t).waiting = conv[t].waiting
    BY <2>1, <2>2, NewRowGood
  <2>4. RowOf(t) \in ConversationRow /\ RowOf(t).status = "open"
    BY <2>2, NewRowGood
  <2>5. RowOf(t).wake = conv[t].wake /\ RowOf(t).noted = conv[t].noted
    BY <2>1, <2>2, NewRowGood
  <2>6. QED BY <1>2, <2>2, <2>3, <2>4, <2>5
<1>3. CASE conv[t].status # "none"
  BY <1>1, <1>3 DEF RowOf, OpenEpisodes, RowGood, OneEpisode
<1>4. QED BY <1>2, <1>3

\* ensure finds the live thread, or a row beside which none is alive.
LEMMA EnsuredAlone ==
  ASSUME NEW t \in Conversation, t \in Ensured(PeerIn[t])
  PROVE  \/ IsLive(t)
         \/ \A u \in Conversation \ {t} : PeerIn[u] = PeerIn[t] => ~IsLive(u)
BY DEF Ensured, Live, Spare, Threads, IsLive

\* The customer writes: whatever the conversation was, it is open.
LEMMA NoteStep ==
  ASSUME ConvInv, NEW t \in Conversation, t \in Ensured(PeerIn[t]), Note(t),
         UNCHANGED screen, NEW u \in Conversation
  PROVE  RowStep(u)
<1>1. CASE u # t
  <2>1. conv'[u] = conv[u] /\ wakes'[u] = wakes[u] /\ episodes'[u] = episodes[u]
    BY <1>1 DEF Note, ConvInv, TypeOK
  <2>2. QED BY <2>1, KeptRow
<1>2. CASE u = t
  <2> DEFINE r == RowOf(t)
  <2>1. /\ conv'[t] = [r EXCEPT !.status = "open", !.noted = @ + 1,
                        !.waiting = @ \/ r.assignee = Nobody,
                        !.wake = IF r.status = "snoozed" THEN @ + 1 ELSE @]
        /\ wakes'[t] = JobAfterNote(t)
        /\ episodes'[t] = IF r.status = "resolved" THEN 1 ELSE OpenEpisodes(t)
    BY DEF Note, ConvInv, TypeOK
  <2>2. RowGood(t)
    BY GoodRows
  <2>3. /\ conv'[t].status = "open" /\ conv'[t].noted = conv[t].noted + 1
        /\ conv'[t].assignee = conv[t].assignee
        /\ conv'[t].waiting <=> conv[t].waiting \/ conv[t].assignee = Nobody
        /\ conv'[t].wake = IF r.status = "snoozed" THEN conv[t].wake + 1 ELSE conv[t].wake
        /\ conv'[t] \in ConversationRow
    <3>1. /\ r \in ConversationRow /\ r.wake = conv[t].wake /\ r.noted = conv[t].noted
          /\ r.assignee = conv[t].assignee /\ r.waiting = conv[t].waiting
      BY EnsuredRow
    <3> DEFINE waits == r.waiting \/ r.assignee = Nobody
               version == IF r.status = "snoozed" THEN r.wake + 1 ELSE r.wake
    <3>2. waits \in BOOLEAN /\ version \in Nat /\ r.noted + 1 \in Nat
      BY <3>1 DEF ConversationRow
    <3>3. conv'[t] = [r EXCEPT !.status = "open", !.noted = r.noted + 1,
                               !.waiting = waits, !.wake = version]
      BY <2>1
    <3> HIDE DEF r, waits, version
    <3>4. /\ conv'[t] \in ConversationRow
          /\ conv'[t].status = "open" /\ conv'[t].noted = r.noted + 1
          /\ conv'[t].assignee = r.assignee
          /\ conv'[t].waiting = waits /\ conv'[t].wake = version
      BY <3>1, <3>2, <3>3 DEF ConversationRow, Status
    <3>5. QED BY <3>1, <3>2, <3>4 DEF waits, version
  <2>4. ~wakes'[t].there /\ wakes'[t] \in WakeJob
    BY <2>1, <2>2 DEF JobAfterNote, RowGood, SnoozeHasJob, NoJob, WakeJob
  <2>5. episodes'[t] \in 0..1
    BY <2>1, EnsuredRow
  <2>6. RowGood(t)'
    BY <2>2, <2>3, <2>4, <2>5 DEF RowGood, SnoozeHasJob, OneEpisode, ConversationRow, WakeJob
  <2>7. NotYounger(t)
    BY <2>2, <2>3, <2>4 DEF NotYounger, RowGood, ConversationRow
  <2>8. AliveAlone(t)
    <3>1. \A v \in Conversation \ {t} : conv'[v] = conv[v]
      BY DEF Note, ConvInv, TypeOK
    <3>2. QED BY <3>1, EnsuredAlone DEF AliveAlone, IsLive
  <2>9. Noticed(t)
    BY DEF Note, Bump, Noticed
  <2>10. QED BY <1>2, <2>6, <2>7, <2>8, <2>9 DEF RowStep
<1>3. QED BY <1>1, <1>2

\* Where a command is allowed and where it leads.
LEMMA CommandTable ==
  ASSUME NEW c \in Command
  PROVE  /\ From[c] \subseteq {"open", "pending", "snoozed", "resolved"}
         /\ To[c] \in Status \ {"none"}
         /\ To[c] = "snoozed" <=> c = "snooze"
         /\ c = "reopen" => To[c] = "open"
         /\ c = "resolve" => To[c] = "resolved"
         /\ To[c] = "resolved" => c = "resolve"
         /\ To[c] = "archived" => From[c] = {"resolved"} /\ c = "archive"
BY DEF Command, From, To, Active, Status

\* An agent's command on a live conversation.
LEMMA MoveStep ==
  ASSUME ConvInv, NEW t \in Conversation, NEW c \in Command,
         conv[t].status \in From[c], Move(t, c), NEW u \in Conversation
  PROVE  RowStep(u)
<1>1. CASE u # t
  <2>1. conv'[u] = conv[u] /\ wakes'[u] = wakes[u] /\ episodes'[u] = episodes[u]
    BY <1>1 DEF Move, ConvInv, TypeOK
  <2>2. QED BY <2>1, KeptRow
<1>2. CASE u = t
  <2>1. RowGood(t)
    BY GoodRows
  <2>2. NewVersion(t, c) \in Nat /\ NewVersion(t, c) >= conv[t].wake
        /\ (c = "snooze" => NewVersion(t, c) > conv[t].wake)
    BY <2>1 DEF RowGood, ConversationRow, NewVersion
  <2>3. /\ conv'[t].status = To[c] /\ conv'[t].wake = NewVersion(t, c)
        /\ conv'[t].assignee = conv[t].assignee /\ conv'[t].waiting = conv[t].waiting
        /\ conv'[t].noted = conv[t].noted
        /\ conv'[t] \in ConversationRow
    <3>1. conv'[t] = [conv[t] EXCEPT !.status = To[c], !.wake = NewVersion(t, c)]
      BY DEF Move, ConvInv, TypeOK
    <3>2. conv[t] \in ConversationRow /\ To[c] \in Status
      BY <2>1, CommandTable DEF RowGood
    <3>3. QED BY <2>2, <3>1, <3>2 DEF ConversationRow
  <2>4. /\ wakes'[t] \in WakeJob
        /\ wakes'[t].there <=> c = "snooze"
        /\ wakes'[t].there => wakes'[t].version = NewVersion(t, c)
    BY <2>2 DEF Move, ConvInv, TypeOK, WakeJob, NoJob
  <2>5. episodes'[t] = EpisodesAfter(t, c)
    BY DEF Move, ConvInv, TypeOK
  <2>6. /\ episodes'[t] \in 0..1
        /\ To[c] \in {"resolved", "archived"} => episodes'[t] = 0
    BY <2>1, <2>5, CommandTable DEF EpisodesAfter, RowGood, OneEpisode
  <2>7. RowGood(t)'
    BY <2>1, <2>3, <2>4, <2>6, CommandTable DEF RowGood, SnoozeHasJob, OneEpisode, WakeJob
  <2>8. NotYounger(t)
    BY <2>2, <2>3, <2>4, CommandTable DEF NotYounger
  <2>9. AliveAlone(t) /\ Noticed(t)
    BY <2>3, CommandTable DEF AliveAlone, Noticed, IsLive
  <2>10. QED BY <1>2, <2>7, <2>8, <2>9 DEF RowStep
<1>3. QED BY <1>1, <1>2

LEMMA HeldRow ==
  ASSUME NEW r \in ConversationRow, NEW a \in Agent \cup {Nobody}
  PROVE  /\ Held(r, a) \in ConversationRow
         /\ Held(r, a).status = r.status /\ Held(r, a).wake = r.wake
         /\ Held(r, a).noted = r.noted /\ Held(r, a).assignee = a
         /\ Held(r, a).waiting <=> a = Nobody
<1> DEFINE queued == a = Nobody
<1>1. Held(r, a) = [r EXCEPT !.assignee = a, !.waiting = queued] /\ queued \in BOOLEAN
  BY DEF Held
<1> HIDE DEF queued
<1>2. /\ Held(r, a) \in ConversationRow
      /\ Held(r, a).status = r.status /\ Held(r, a).wake = r.wake
      /\ Held(r, a).noted = r.noted /\ Held(r, a).assignee = a
      /\ Held(r, a).waiting = queued
  BY <1>1 DEF ConversationRow
<1>3. QED BY <1>2 DEF queued

\* A row that changes hands: assign, release, claim, an accepted offer.
LEMMA HeldStep ==
  ASSUME ConvInv, NEW t \in Conversation, NEW a \in Agent \cup {Nobody},
         conv[t].status # "none", conv' = [conv EXCEPT ![t] = Held(@, a)],
         UNCHANGED <<wakes, episodes>>, NEW u \in Conversation
  PROVE  RowStep(u)
<1>1. CASE u # t
  BY <1>1, KeptRow DEF ConvInv, TypeOK
<1>2. CASE u = t
  <2>1. RowGood(t)
    BY GoodRows
  <2>2. conv'[t] = Held(conv[t], a)
    BY DEF ConvInv, TypeOK
  <2>3. /\ conv'[t] \in ConversationRow
        /\ conv'[t].status = conv[t].status /\ conv'[t].wake = conv[t].wake
        /\ conv'[t].noted = conv[t].noted /\ conv'[t].assignee = a
        /\ conv'[t].waiting <=> a = Nobody
    BY <2>1, <2>2, HeldRow DEF RowGood
  <2>4. RowGood(t)'
    BY <2>1, <2>3 DEF RowGood, SnoozeHasJob, OneEpisode, ConversationRow, WakeJob
  <2>5. NotYounger(t) /\ AliveAlone(t) /\ Noticed(t)
    BY <2>1, <2>3 DEF NotYounger, AliveAlone, Noticed, IsLive, RowGood, ConversationRow
  <2>6. QED BY <1>2, <2>4, <2>5 DEF RowStep
<1>3. QED BY <1>1, <1>2

\* The first message of a person to a customer nobody holds.
LEMMA QuickStartStep ==
  ASSUME ConvInv, NEW t \in Conversation, NEW a \in Agent, QuickStart(a, t),
         ConversationAssumption, NEW u \in Conversation
  PROVE  RowStep(u)
<1>1. CASE u # t
  BY <1>1, KeptRow DEF ConvInv, TypeOK, QuickStart
<1>2. CASE u = t
  <2> DEFINE r == RowOf(t)
  <2>1. /\ r \in ConversationRow /\ r.wake = conv[t].wake /\ r.noted = conv[t].noted
        /\ r.status \in {"open", "pending"}
        /\ r.status = conv[t].status \/ conv[t].status = "none"
        /\ OpenEpisodes(t) \in 0..1
    BY EnsuredRow DEF QuickStart
  <2>2. conv'[t] = [r EXCEPT !.assignee = a, !.waiting = FALSE]
    BY DEF QuickStart, ConvInv, TypeOK, Held, ConversationAssumption
  <2>3. RowGood(t)
    BY GoodRows
  <2> HIDE DEF r
  <2>4. /\ conv'[t] \in ConversationRow
        /\ conv'[t].status = r.status /\ conv'[t].wake = conv[t].wake
        /\ conv'[t].noted = conv[t].noted /\ conv'[t].assignee = a
        /\ conv'[t].waiting = FALSE
    BY <2>1, <2>2 DEF ConversationRow
  <2>5. episodes'[t] = OpenEpisodes(t) /\ wakes' = wakes
    BY DEF QuickStart, ConvInv, TypeOK
  <2>6. conv[t].status # "snoozed" /\ ~wakes[t].there
    BY <2>1, <2>3 DEF RowGood, SnoozeHasJob, WakeJob
  <2>7. RowGood(t)'
    BY <2>1, <2>3, <2>4, <2>5, <2>6, ConversationAssumption
    DEF RowGood, SnoozeHasJob, OneEpisode, ConversationRow, WakeJob, ConversationAssumption
  <2>8. NotYounger(t) /\ Noticed(t)
    BY <2>1, <2>3, <2>4, <2>5, <2>6 DEF NotYounger, Noticed, RowGood, ConversationRow
  <2>9. AliveAlone(t)
    <3>1. \A v \in Conversation \ {t} : conv'[v] = conv[v]
      BY DEF QuickStart, ConvInv, TypeOK
    <3>2. t \in Ensured(PeerIn[t])
      BY DEF QuickStart
    <3>3. QED BY <3>1, <3>2, EnsuredAlone DEF AliveAlone, IsLive
  <2>10. QED BY <1>2, <2>7, <2>8, <2>9 DEF RowStep
<1>3. QED BY <1>1, <1>2

\* ensure for outbound contact makes a row, or changes nothing.
LEMMA ContactStep ==
  ASSUME ConvInv, NEW t \in Conversation, Contact(t), NEW u \in Conversation
  PROVE  RowStep(u)
<1>1. CASE u # t
  BY <1>1, KeptRow DEF ConvInv, TypeOK, Contact
<1>2. CASE u = t
  <2>1. RowGood(t)
    BY GoodRows
  <2>2. conv'[t] = NewRow /\ episodes'[t] = 1 /\ wakes' = wakes
    BY DEF Contact, ConvInv, TypeOK
  <2>3. ~wakes[t].there /\ conv[t].wake = 0 /\ conv[t].noted = 0
    BY <2>1 DEF RowGood, SnoozeHasJob, Contact, WakeJob, NoRow
  <2>4. RowGood(t)'
    BY <2>1, <2>2, <2>3, NewRowGood DEF RowGood, SnoozeHasJob, OneEpisode, WakeJob
  <2>5. NotYounger(t) /\ Noticed(t)
    BY <2>2, <2>3, NewRowGood DEF NotYounger, Noticed
  <2>6. AliveAlone(t)
    <3>1. \A v \in Conversation \ {t} : conv'[v] = conv[v]
      BY DEF Contact, ConvInv, TypeOK
    <3>2. t \in Ensured(PeerIn[t])
      BY DEF Contact
    <3>3. QED BY <3>1, <3>2, EnsuredAlone DEF AliveAlone, IsLive
  <2>7. QED BY <1>2, <2>4, <2>5, <2>6 DEF RowStep
<1>3. QED BY <1>1, <1>2

\* An archived conversation is restored where no thread is alive, or removed.
LEMMA ArchivedStep ==
  ASSUME ConvInv, NEW t \in Conversation, Restore(t) \/ Remove(t), NEW u \in Conversation
  PROVE  RowStep(u)
<1>1. CASE u # t
  BY <1>1, KeptRow DEF ConvInv, TypeOK, Restore, Remove
<1>2. CASE u = t
  <2>1. RowGood(t)
    BY GoodRows
  <2>2. /\ conv'[t] \in ConversationRow
        /\ conv'[t].wake = conv[t].wake /\ conv'[t].noted = conv[t].noted
        /\ conv'[t].assignee = conv[t].assignee /\ conv'[t].waiting = conv[t].waiting
        /\ conv[t].status = "archived" /\ conv'[t].status \in {"archived", "resolved"}
        /\ wakes' = wakes /\ episodes' = episodes
    <3>1. CASE Restore(t)
      BY <2>1, <3>1 DEF Restore, MayRestore, ConvInv, TypeOK, RowGood, ConversationRow, Status
    <3>2. CASE Remove(t)
      BY <2>1, <3>2 DEF Remove, ConvInv, TypeOK, RowGood, ConversationRow, Status
    <3>3. QED BY <3>1, <3>2
  <2>3. RowGood(t)'
    BY <2>1, <2>2 DEF RowGood, SnoozeHasJob, OneEpisode, WakeJob
  <2>4. NotYounger(t) /\ Noticed(t)
    BY <2>1, <2>2 DEF NotYounger, Noticed, RowGood, ConversationRow
  <2>5. AliveAlone(t)
    <3>1. \A v \in Conversation \ {t} : conv'[v] = conv[v]
      BY DEF Restore, Remove, ConvInv, TypeOK
    <3>2. CASE Restore(t)
      BY <3>1, <3>2 DEF Restore, MayRestore, Live, Threads, AliveAlone, IsLive
    <3>3. CASE Remove(t)
      BY <2>2, <3>3 DEF Remove, AliveAlone, IsLive, ConvInv, TypeOK
    <3>4. QED BY <3>2, <3>3
  <2>6. QED BY <1>2, <2>3, <2>4, <2>5 DEF RowStep
<1>3. QED BY <1>1, <1>2

\* A sweep wakes what is snoozed with the version it read, and spends the job.
LEMMA WriteWakesStep ==
  ASSUME ConvInv, NEW w \in Worker, WriteWakes(w), NEW u \in Conversation
  PROVE  RowStep(u)
<1>1. RowGood(u) /\ episodes' = episodes
  BY GoodRows DEF WriteWakes
<1>2. u \in WokenBy(tick[w].jobs) <=> u \in SpentBy(tick[w].jobs)
  BY <1>1 DEF WokenBy, SpentBy, RowGood, SnoozeHasJob, WakeJob
<1>3. CASE u \notin WokenBy(tick[w].jobs)
  BY <1>1, <1>2, <1>3, KeptRow DEF WriteWakes
<1>4. CASE u \in WokenBy(tick[w].jobs)
  <2>1. conv'[u] = [conv[u] EXCEPT !.status = "open", !.wake = conv[u].wake + 1]
    BY <1>4 DEF WriteWakes
  <2>2. wakes'[u] = NoJob /\ conv[u].status = "snoozed"
    BY <1>2, <1>4 DEF WriteWakes, WokenBy
  <2>3. /\ conv'[u] \in ConversationRow
        /\ conv'[u].wake = conv[u].wake + 1 /\ conv'[u].noted = conv[u].noted
        /\ conv'[u].assignee = conv[u].assignee /\ conv'[u].waiting = conv[u].waiting
        /\ conv'[u].status = "open"
    <3>1. conv[u] \in ConversationRow /\ conv[u].wake + 1 \in Nat
      BY <1>1 DEF RowGood, ConversationRow
    <3>2. QED BY <2>1, <3>1 DEF ConversationRow, Status
  <2>4. ~wakes'[u].there /\ wakes'[u] \in WakeJob
    BY <2>2 DEF NoJob, WakeJob
  <2>5. RowGood(u)'
    BY <1>1, <2>2, <2>3, <2>4 DEF RowGood, SnoozeHasJob, OneEpisode, WakeJob
  <2>6. NotYounger(u) /\ AliveAlone(u) /\ Noticed(u)
    BY <1>1, <2>2, <2>3, <2>4 DEF NotYounger, AliveAlone, Noticed, IsLive, RowGood, ConversationRow
  <2>7. QED BY <2>5, <2>6 DEF RowStep
<1>5. QED BY <1>3, <1>4

\* The clock reaches a job.
LEMMA WakeDueStep ==
  ASSUME ConvInv, NEW t \in Conversation, WakeComesDue(t), NEW u \in Conversation
  PROVE  RowStep(u)
<1>1. RowGood(u) /\ conv' = conv /\ episodes' = episodes
  BY GoodRows DEF WakeComesDue
<1>2. /\ wakes'[u] \in WakeJob
      /\ wakes'[u].there = wakes[u].there /\ wakes'[u].version = wakes[u].version
      /\ wakes[u].due => wakes'[u].due
  BY <1>1 DEF WakeComesDue, ConvInv, TypeOK, RowGood, WakeJob
<1>3. RowGood(u)'
  BY <1>1, <1>2 DEF RowGood, SnoozeHasJob, OneEpisode, WakeJob
<1>4. NotYounger(u) /\ AliveAlone(u) /\ Noticed(u)
  BY <1>1, <1>2 DEF NotYounger, AliveAlone, Noticed, IsLive, RowGood, ConversationRow, WakeJob
<1>5. QED BY <1>3, <1>4 DEF RowStep

\* Only these write conversations, jobs and episodes.
LEMMA Rows ==
  ASSUME ConversationAssumption, ConvInv, [Next]_vars, NEW u \in Conversation
  PROVE  RowStep(u)
<1>1. CASE UNCHANGED <<conv, wakes, episodes>>
  BY <1>1, KeptRow
<1>2. ASSUME NEW a \in Agent, NEW t \in Conversation, Open(a, t) \/ QuickStart(a, t)
      PROVE  RowStep(u)
  BY <1>1, <1>2, QuickStartStep DEF Open, rows
<1>3. ASSUME NEW a \in Agent, NEW c \in Command, Act(a, c) PROVE RowStep(u)
  <2>1. Showing(a) \in Conversation
    BY <1>3 DEF Act, Fenced, Showing, ConvInv, TypeOK, Screen
  <2>2. QED BY <1>3, <2>1, MoveStep DEF Act
<1>4. ASSUME NEW a \in Agent, NEW to \in Agent \cup {Nobody},
             Assign(a, to) \/ (to = a /\ Claim(a))
      PROVE  RowStep(u)
  <2>1. Showing(a) \in Conversation /\ conv[Showing(a)].status # "none"
    BY <1>4 DEF Assign, Claim, Fenced, Showing, ConvInv, TypeOK, Screen, ScreensFresh
  <2>2. conv' = [conv EXCEPT ![Showing(a)] = Held(@, to)] /\ UNCHANGED <<wakes, episodes>>
    BY <1>4 DEF Assign, Claim
  <2>3. QED BY <2>1, <2>2, HeldStep
<1>5. ASSUME NEW t \in Conversation, Restore(t) \/ Remove(t) \/ Contact(t) PROVE RowStep(u)
  BY <1>5, ArchivedStep, ContactStep
<1>6. ASSUME NEW a \in Agent, NEW o \in Offer, Accept(a, o) PROVE RowStep(u)
  <2>1. offers[o].conv \in Conversation /\ conv[offers[o].conv].status # "none"
    BY <1>6 DEF Accept, Answerable, Visible, ConvInv, OffersNameRows
  <2>2. conv' = [conv EXCEPT ![offers[o].conv] = Held(@, a)] /\ UNCHANGED <<wakes, episodes>>
    BY <1>6 DEF Accept
  <2>3. QED BY <2>1, <2>2, HeldStep
<1>7. ASSUME NEW t \in Conversation, WakeComesDue(t) PROVE RowStep(u)
  BY <1>7, WakeDueStep
<1>8. ASSUME NEW w \in Worker, Work(w) PROVE RowStep(u)
  <2>1. CASE WriteWakes(w)
    BY <2>1, WriteWakesStep
  <2>2. CASE Drain(w)
    <3>1. PICK c \in Customer : \E t \in Ensured(c) : Note(t)
      BY <2>2 DEF Drain, Waiting
    <3> PICK t \in Ensured(c) : Note(t)
      BY <3>1
    <3>2. t \in Conversation /\ PeerIn[t] = c
      BY DEF Ensured, Live, Spare, Threads
    <3>3. QED BY <2>2, <3>2, NoteStep DEF Drain
  <2>3. CASE UNCHANGED rows
    BY <1>1, <2>3 DEF rows
  <2>4. QED
    BY <1>8, <2>1, <2>2, <2>3 DEF Work, Start, ReadWakes, ListOffers, ReadOffers, WriteOffers,
       Throw, BeginDrain, EndTick
<1>9. CASE UNCHANGED vars
  BY Zenon, <1>1, <1>9 DEF vars
<1>10. QED
  BY <1>1, <1>2, <1>3, <1>4, <1>5, <1>6, <1>7, <1>8, <1>9
  DEF Next, People, World, Request, Withdraw, Write, OfferComesDue, rows

-----------------------------------------------------------------------------
(* What else a step may do *)

\* An offer is made, answered once, or comes due.
LEMMA OffersStep ==
  ASSUME ConversationAssumption, ConvInv, [Next]_vars
  PROVE  /\ offers' \in [Offer -> OfferRow]
         /\ PendingIsScheduled' /\ OffersNameRows'
<1> USE DEF ConvInv
<1> DEFINE Fine == /\ offers' \in [Offer -> OfferRow]
                   /\ PendingIsScheduled' /\ OffersNameRows'
           Over(o, s) == offers'[o] = Settled(offers[o], s)
<1>1. CASE UNCHANGED offers
  BY <1>1 DEF TypeOK, PendingIsScheduled, OffersNameRows
<1>2. \A o \in Offer, s \in {"accepted", "settled", "expired"} :
        /\ Settled(offers[o], s) \in OfferRow
        /\ Settled(offers[o], s).state = s /\ Settled(offers[o], s).scheduled = FALSE
  BY DEF Settled, NoOffer, OfferRow, OfferState
<1>3. ASSUME NEW a \in Agent, NEW to \in Agent, NEW o \in Offer, Request(a, o, to)
      PROVE  Fine
  <2>1. screen[a] \in Screen /\ Showing(a) \in Conversation
    BY <1>3 DEF Request, TypeOK, Screen, Showing
  <2>2. /\ Offered(a, to) \in OfferRow /\ Offered(a, to).conv \in Conversation
        /\ Offered(a, to).state = "pending" /\ Offered(a, to).scheduled = TRUE
    BY <2>1 DEF Offered, OfferRow, OfferState, Screen
  <2>3. offers' = [offers EXCEPT ![o] = Offered(a, to)]
    BY <1>3 DEF Request
  <2>4. QED BY <2>2, <2>3 DEF TypeOK, PendingIsScheduled, OffersNameRows
<1>4. ASSUME NEW o \in Offer, NEW s \in {"accepted", "settled"},
             offers' = [offers EXCEPT ![o] = Settled(@, s)]
      PROVE  Fine
  BY <1>2, <1>4 DEF TypeOK, PendingIsScheduled, OffersNameRows
<1>5. ASSUME NEW w \in Worker, WriteOffers(w) PROVE Fine
  <2>1. \A o \in Offer : offers'[o] = offers[o] \/ Over(o, "expired")
    BY <1>5 DEF WriteOffers, Expire
  <2>2. offers' \in [Offer -> OfferRow]
    BY <1>2, <1>5 DEF WriteOffers, Expire, TypeOK
  <2>3. QED BY <1>2, <2>1, <2>2 DEF PendingIsScheduled, OffersNameRows
<1>6. ASSUME NEW o \in Offer, OfferComesDue(o) PROVE Fine
  <2>1. offers[o] \in OfferRow /\ offers' = [offers EXCEPT ![o] = [offers[o] EXCEPT !.due = TRUE]]
    BY <1>6 DEF OfferComesDue, TypeOK
  <2>2. [offers[o] EXCEPT !.due = TRUE] \in OfferRow
    BY <2>1 DEF OfferRow
  <2>3. \A p \in Offer :
          /\ offers'[p].state = offers[p].state /\ offers'[p].conv = offers[p].conv
          /\ offers'[p].scheduled = offers[p].scheduled
    BY <2>1 DEF TypeOK, OfferRow
  <2>4. offers' \in [Offer -> OfferRow]
    BY <2>1, <2>2 DEF TypeOK
  <2>5. QED BY <2>3, <2>4 DEF PendingIsScheduled, OffersNameRows
<1>7. QED
  BY Zenon, <1>1, <1>3, <1>4, <1>5, <1>6
  DEF Next, People, World, Work, vars, Open, QuickStart, Act, Assign, Claim, Restore, Remove,
      Contact, Accept, Withdraw, Write, WakeComesDue, Start, ReadWakes, WriteWakes, ListOffers,
      ReadOffers, Throw, BeginDrain, Drain, EndTick

\* Whoever has the present version had it before, or opens the conversation now.
LEMMA ScreensStep ==
  ASSUME ConversationAssumption, ConvInv, [Next]_vars
  PROVE  /\ screen' \in [Agent -> Screen \cup {Blank}]
         /\ current' \subseteq {a \in Agent : screen'[a] # Blank}
         /\ \A a \in current' :
              \/ a \in current /\ screen'[a] = screen[a]
              \/ /\ screen'[a] \in Screen /\ conv[screen'[a].conv].status # "none"
                 /\ screen'[a].seen = conv[screen'[a].conv].noted /\ conv' = conv
<1> USE DEF ConvInv, TypeOK
<1> DEFINE Fine == /\ screen' \in [Agent -> Screen \cup {Blank}]
                   /\ current' \subseteq {a \in Agent : screen'[a] # Blank}
                   /\ \A a \in current' :
                        \/ a \in current /\ screen'[a] = screen[a]
                        \/ /\ screen'[a] \in Screen /\ conv[screen'[a].conv].status # "none"
                           /\ screen'[a].seen = conv[screen'[a].conv].noted /\ conv' = conv
<1>1. CASE screen' = screen /\ current' \subseteq current
  BY <1>1
<1>2. ASSUME NEW a \in current, current' \subseteq current \ {a}, Done(a) PROVE Fine
  BY <1>2 DEF Done
<1>3. ASSUME NEW a \in Agent, current' = current \ {a}, Done(a) PROVE Fine
  BY <1>3 DEF Done
<1>4. ASSUME NEW a \in Agent, NEW t \in Conversation, Open(a, t) PROVE Fine
  <2> DEFINE shown == [conv |-> t, assignee |-> conv[t].assignee, seen |-> conv[t].noted]
  <2>1. conv[t].assignee \in Agent \cup {Nobody} /\ conv[t].noted \in Nat
    BY DEF ConversationRow
  <2>2. shown \in Screen /\ shown # Blank
    BY <2>1 DEF Screen, Blank, ConversationAssumption
  <2>3. screen' = [screen EXCEPT ![a] = shown] /\ current' = current \cup {a} /\ conv' = conv
    BY <1>4 DEF Open, rows
  <2>4. screen'[a] = shown /\ \A b \in Agent \ {a} : screen'[b] = screen[b]
    BY <2>3
  <2>5. a \notin current /\ conv[t].status # "none"
    BY <1>4 DEF Open, Visible
  <2>6. shown.conv = t /\ shown.seen = conv[t].noted
    OBVIOUS
  <2> HIDE DEF shown
  <2>7. screen' \in [Agent -> Screen \cup {Blank}]
    BY <2>2, <2>3
  <2>8. \A b \in current' : (b \in current /\ b # a /\ screen'[b] = screen[b]) \/ b = a
    BY <2>3, <2>4, <2>5
  <2>9. QED BY <2>2, <2>3, <2>4, <2>5, <2>6, <2>7, <2>8
<1>5. ASSUME NEW a \in Agent, NEW t, Fenced(a), t = Showing(a), Bump(t), Done(a) PROVE Fine
  BY <1>2, <1>5 DEF Bump, Fenced, Showing
<1>6. ASSUME NEW t, screen' = screen, Bump(t) PROVE Fine
  BY <1>1, <1>6 DEF Bump
<1>7. ASSUME NEW a \in Agent, NEW c \in Command, Act(a, c) PROVE Fine
  BY <1>5, <1>7 DEF Act, Move
<1>8. ASSUME NEW a \in Agent, NEW to \in Agent \cup {Nobody}, Assign(a, to) \/ Claim(a) PROVE Fine
  <2>1. CASE Assign(a, to)
    BY Zenon, <1>5, <2>1 DEF Assign
  <2>2. CASE Claim(a)
    BY Zenon, <1>5, <2>2 DEF Claim
  <2>3. QED BY Zenon, <1>8, <2>1, <2>2
<1>9. ASSUME NEW w \in Worker, Work(w) PROVE Fine
  BY <1>1, <1>6, <1>9 DEF Work, Start, ReadWakes, WriteWakes, ListOffers, ReadOffers, WriteOffers,
     Throw, BeginDrain, Drain, Note, EndTick
<1>10. QED
  BY <1>1, <1>3, <1>4, <1>6, <1>7, <1>8, <1>9
  DEF Next, People, World, vars, QuickStart, Restore, Remove, Contact, Request, Accept, Withdraw,
      Write, WakeComesDue, OfferComesDue

\* A tick's record as the stages write it.
LEMMA TickMoves ==
  ASSUME NEW r \in Tick, NEW at \in Stage
  PROVE  /\ [r EXCEPT !.at = at] \in Tick
         /\ [r EXCEPT !.at = at].jobs = r.jobs
         /\ [r EXCEPT !.at = at, !.jobs = {}] \in Tick
         /\ [r EXCEPT !.at = at, !.jobs = {}].jobs = {}
         /\ [r EXCEPT !.at = at, !.home = {}, !.due = {}] \in Tick
         /\ [r EXCEPT !.at = at, !.home = {}, !.due = {}].jobs = r.jobs
         /\ r.todo \in SUBSET Company
<1> USE DEF Tick
<1>1. [r EXCEPT !.at = at] \in Tick /\ [r EXCEPT !.at = at].jobs = r.jobs
  OBVIOUS
<1>2. /\ [r EXCEPT !.at = at, !.jobs = {}] \in Tick
      /\ [r EXCEPT !.at = at, !.jobs = {}].jobs = {}
  OBVIOUS
<1>3. /\ [r EXCEPT !.at = at, !.home = {}, !.due = {}] \in Tick
      /\ [r EXCEPT !.at = at, !.home = {}, !.due = {}].jobs = r.jobs
  OBVIOUS
<1>4. QED BY <1>1, <1>2, <1>3

\* The same of the stages that take companies from a list.
TakeHomes(r, todo) == [r EXCEPT !.at = "offers", !.todo = todo]
TakeWakes(r, todo, jobs) == [r EXCEPT !.at = "wake", !.todo = todo, !.jobs = jobs]
TakeOffers(r, todo, home, due) ==
  [r EXCEPT !.at = "offer", !.todo = todo, !.home = home, !.due = due]

\* They write a tick, and of its jobs only what was read.
LEMMA TickHomes ==
  ASSUME NEW r \in Tick, NEW todo \in SUBSET Company
  PROVE  TakeHomes(r, todo) \in Tick /\ TakeHomes(r, todo).jobs = r.jobs
BY DEF TakeHomes, Tick, Stage

\* Of the wake jobs read.
LEMMA TickWakes ==
  ASSUME NEW r \in Tick, NEW todo \in SUBSET Company, NEW jobs \in SUBSET Job
  PROVE  TakeWakes(r, todo, jobs) \in Tick /\ TakeWakes(r, todo, jobs).jobs = jobs
BY DEF TakeWakes, Tick, Stage

\* Of the due offers read.
LEMMA TickOffers ==
  ASSUME NEW r \in Tick, NEW todo \in SUBSET Company,
         NEW home \in SUBSET Company, NEW due \in SUBSET Offer
  PROVE  TakeOffers(r, todo, home, due) \in Tick /\ TakeOffers(r, todo, home, due).jobs = r.jobs
BY DEF TakeOffers, Tick, Stage

\* A worker's tick: jobs come into it only by reading them.
LEMMA TicksStep ==
  ASSUME ConversationAssumption, ConvInv, [Next]_vars
  PROVE  /\ tick' \in [Worker -> Tick]
         /\ \A w \in Worker :
              \/ tick'[w].jobs \subseteq tick[w].jobs
              \/ /\ UNCHANGED <<conv, wakes>>
                 /\ tick'[w].jobs \subseteq {[conv |-> t, version |-> wakes[t].version] : t \in DueWakes}
<1> USE DEF ConvInv, TypeOK
<1> DEFINE Read == {[conv |-> t, version |-> wakes[t].version] : t \in DueWakes}
           Fine == /\ tick' \in [Worker -> Tick]
                   /\ \A w \in Worker :
                        \/ tick'[w].jobs \subseteq tick[w].jobs
                        \/ UNCHANGED <<conv, wakes>> /\ tick'[w].jobs \subseteq Read
<1>1. CASE UNCHANGED tick
  BY <1>1
<1>2. NoTick \in Tick /\ NoTick.jobs = {}
  BY DEF NoTick, Tick, Stage
<1>3. ASSUME NEW w \in Worker, NEW s \in Tick, Advance(w, s), s.jobs \subseteq tick[w].jobs PROVE Fine
  BY <1>3 DEF Advance
<1>4. /\ \A w \in Worker : tick[w] \in Tick
      /\ {"wakes", "wake", "offers", "offer", "drain"} \subseteq Stage
  BY DEF Stage
<1>5. ASSUME NEW ts \in SUBSET Conversation PROVE HomesOf(ts) \subseteq Company
  BY DEF HomesOf, CompanyOf, ConversationAssumption
<1>6. ASSUME NEW w \in Worker, Start(w) PROVE Fine
  <2> DEFINE busy == {k \in Company : Waiting(k) # {}}
             s == [NoTick EXCEPT !.at = "wakes", !.pending = busy, !.todo = WakeHomes(busy)]
  <2>1. WakeHomes(busy) \subseteq Company
    BY <1>5 DEF WakeHomes, DueWakes
  <2>2. busy \in SUBSET Company
    OBVIOUS
  <2> HIDE DEF busy
  <2>3. Advance(w, s)
    BY <1>6 DEF Start, busy
  <2>4. s \in Tick /\ s.jobs = {}
    BY <2>1, <2>2 DEF Tick, Stage, NoTick
  <2> HIDE DEF s
  <2>5. QED BY <1>3, <2>3, <2>4
<1>7. ASSUME NEW w \in Worker, ReadWakes(w) PROVE Fine
  <2>1. PICK k \in tick[w].todo :
          Advance(w, [tick[w] EXCEPT !.at = "wake", !.todo = @ \ {k},
                        !.jobs = {[conv |-> t, version |-> wakes[t].version] :
                                    t \in {u \in DueWakes : CompanyOf(u) = k}}])
    BY <1>7 DEF ReadWakes
  <2> DEFINE jobs == {[conv |-> t, version |-> wakes[t].version] :
                        t \in {u \in DueWakes : CompanyOf(u) = k}}
             todo == tick[w].todo \ {k}
             s == TakeWakes(tick[w], todo, jobs)
  <2>2. jobs \subseteq Read /\ jobs \in SUBSET Job
    BY SMTT(30) DEF DueWakes, Job, WakeJob
  <2>3. todo \in SUBSET Company
    BY <1>4, TickMoves
  <2>4. Advance(w, s)
    BY <2>1 DEF TakeWakes
  <2> HIDE DEF jobs, todo
  <2>5. s \in Tick /\ s.jobs = jobs
    BY <1>4, <2>2, <2>3, TickWakes
  <2> HIDE DEF s
  <2>6. UNCHANGED <<conv, wakes>>
    BY <1>7 DEF ReadWakes, rows
  <2>7. tick' \in [Worker -> Tick] /\ tick'[w].jobs \subseteq Read
        /\ \A v \in Worker \ {w} : tick'[v] = tick[v]
    BY <2>2, <2>4, <2>5 DEF Advance
  <2> HIDE DEF Read
  <2>8. QED BY <2>6, <2>7
<1>8. ASSUME NEW w \in Worker, WriteWakes(w) PROVE Fine
  <2> DEFINE s == [tick[w] EXCEPT !.at = "wakes", !.jobs = {}]
  <2>1. s \in Tick /\ s.jobs = {}
    BY <1>4, TickMoves
  <2>2. Advance(w, s)
    BY <1>8 DEF WriteWakes
  <2> HIDE DEF s
  <2>3. QED BY SMTT(30), <1>3, <2>1, <2>2
<1>9. ASSUME NEW w \in Worker, ListOffers(w) PROVE Fine
  <2> DEFINE homes == OfferHomes(tick[w].pending)
             s == TakeHomes(tick[w], homes)
  <2>1. {offers[o].conv : o \in DueOffers} \subseteq Conversation
    BY DEF DueOffers, PendingIsScheduled, OffersNameRows, OfferRow
  <2>2. homes \in SUBSET Company
    BY <1>5, <2>1 DEF OfferHomes
  <2>3. Advance(w, s)
    BY <1>9 DEF ListOffers, TakeHomes
  <2> HIDE DEF homes
  <2>4. s \in Tick /\ s.jobs = tick[w].jobs
    BY <1>4, <2>2, TickHomes
  <2> HIDE DEF s
  <2>5. QED BY <1>3, <2>3, <2>4
<1>10. ASSUME NEW w \in Worker, ReadOffers(w) PROVE Fine
  <2>1. PICK k \in tick[w].todo :
          Advance(w, [tick[w] EXCEPT !.at = "offer", !.todo = @ \ {k}, !.home = {k}, !.due = DueOffers])
    BY ZenonT(30), <1>10 DEF ReadOffers
  <2> DEFINE todo == tick[w].todo \ {k}
             s == TakeOffers(tick[w], todo, {k}, DueOffers)
  <2>2. tick[w].todo \in SUBSET Company
    BY <1>4, TickMoves
  <2>3. todo \in SUBSET Company /\ {k} \in SUBSET Company /\ DueOffers \in SUBSET Offer
    BY <2>2 DEF DueOffers
  <2>4. Advance(w, s)
    BY <2>1 DEF TakeOffers
  <2> HIDE DEF todo
  <2>5. s \in Tick /\ s.jobs = tick[w].jobs
    BY <1>4, <2>3, TickOffers
  <2> HIDE DEF s
  <2>6. QED BY <1>3, <2>4, <2>5
<1>11. ASSUME NEW w \in Worker, WriteOffers(w) PROVE Fine
  <2> DEFINE s == [tick[w] EXCEPT !.at = "offers", !.home = {}, !.due = {}]
  <2>1. s \in Tick /\ s.jobs = tick[w].jobs
    BY ZenonT(30), <1>4, TickMoves
  <2>2. Advance(w, s)
    BY <1>11 DEF WriteOffers
  <2> HIDE DEF s
  <2>3. QED BY SMTT(30), <1>3, <2>1, <2>2
<1>12. ASSUME NEW w \in Worker, BeginDrain(w) PROVE Fine
  <2> DEFINE s == [tick[w] EXCEPT !.at = "drain"]
  <2>1. s \in Tick /\ s.jobs = tick[w].jobs
    BY <1>4, TickMoves
  <2>2. Advance(w, s)
    BY <1>12 DEF BeginDrain
  <2> HIDE DEF s
  <2>3. QED BY <1>3, <2>1, <2>2
<1>13. ASSUME NEW w \in Worker, Throw(w) \/ EndTick(w) PROVE Fine
  BY <1>2, <1>3, <1>13 DEF Throw, EndTick
<1>14. ASSUME NEW w \in Worker, Drain(w) PROVE Fine
  BY <1>1, <1>14 DEF Drain
<1>15. QED
  BY <1>1, <1>6, <1>7, <1>8, <1>9, <1>10, <1>11, <1>12, <1>13, <1>14
  DEF Next, People, World, Work, vars, Open, QuickStart, Act, Assign, Claim, Restore, Remove,
      Contact, Request, Accept, Withdraw, Write, WakeComesDue, OfferComesDue

\* Messages are stored once and taken while there are any.
LEMMA StoredStep ==
  ASSUME ConvInv, [Next]_vars
  PROVE  stored' \in [Customer -> Nat]
<1> USE DEF ConvInv, TypeOK
<1>1. CASE UNCHANGED stored
  BY <1>1
<1>2. ASSUME NEW c \in Customer, Write(c) PROVE stored' \in [Customer -> Nat]
  BY <1>2 DEF Write
<1>3. ASSUME NEW w \in Worker, Drain(w) PROVE stored' \in [Customer -> Nat]
  <2>1. PICK c \in Customer : stored[c] > 0 /\ stored' = [stored EXCEPT ![c] = @ - 1]
    BY <1>3 DEF Drain, Waiting
  <2>2. QED BY <2>1
<1>4. QED
  BY Zenon, <1>1, <1>2, <1>3
  DEF Next, People, World, Work, vars, Open, QuickStart, Act, Assign, Claim, Restore, Remove,
      Contact, Request, Accept, Withdraw, WakeComesDue, OfferComesDue, Start, ReadWakes,
      WriteWakes, ListOffers, ReadOffers, WriteOffers, Throw, BeginDrain, EndTick

\* The tables keep their rows.
LEMMA TablesStep ==
  ASSUME ConvInv, [Next]_vars
  PROVE  /\ conv' = [t \in Conversation |-> conv'[t]]
         /\ wakes' = [t \in Conversation |-> wakes'[t]]
         /\ episodes' = [t \in Conversation |-> episodes'[t]]
<1> USE DEF ConvInv, TypeOK
<1> DEFINE Fine == /\ conv' = [t \in Conversation |-> conv'[t]]
                   /\ wakes' = [t \in Conversation |-> wakes'[t]]
                   /\ episodes' = [t \in Conversation |-> episodes'[t]]
<1>1. CASE UNCHANGED rows
  BY <1>1 DEF rows
<1>2. ASSUME NEW t \in Conversation, Note(t) \/ Contact(t) \/ Restore(t) \/ Remove(t) PROVE Fine
  BY <1>2 DEF Note, Contact, Restore, Remove
<1>3. ASSUME NEW a \in Agent, NEW t \in Conversation, Open(a, t) \/ QuickStart(a, t) PROVE Fine
  BY <1>1, <1>3 DEF Open, QuickStart
<1>4. ASSUME NEW a \in Agent, NEW c \in Command, Act(a, c) PROVE Fine
  BY <1>4 DEF Act, Move
<1>5. ASSUME NEW a \in Agent, NEW to \in Agent \cup {Nobody}, Assign(a, to) \/ Claim(a) PROVE Fine
  BY <1>5 DEF Assign, Claim
<1>6. ASSUME NEW a \in Agent, NEW o \in Offer, Accept(a, o) PROVE Fine
  BY <1>6 DEF Accept
<1>7. ASSUME NEW t \in Conversation, WakeComesDue(t) PROVE Fine
  BY <1>7 DEF WakeComesDue
<1>8. ASSUME NEW w \in Worker, Work(w) PROVE Fine
  <2>1. CASE WriteWakes(w)
    BY <2>1 DEF WriteWakes
  <2>2. CASE Drain(w)
    BY <1>2, <2>2 DEF Drain, Ensured, Live, Spare, Threads
  <2>3. QED
    BY <1>1, <1>8, <2>1, <2>2 DEF Work, Start, ReadWakes, ListOffers, ReadOffers, WriteOffers,
       Throw, BeginDrain, EndTick
<1>9. QED
  BY <1>1, <1>2, <1>3, <1>4, <1>5, <1>6, <1>7, <1>8
  DEF Next, People, World, vars, rows, Request, Withdraw, Write, OfferComesDue

-----------------------------------------------------------------------------
(* The invariant *)

LEMMA ConvInitOK ==
  ASSUME ConversationAssumption, Init
  PROVE  ConvInv
<1>1. NoRow \in ConversationRow /\ NoRow.status = "none" /\ NoRow.noted = 0 /\ NoRow.waiting = FALSE
      /\ NoRow.wake = 0
  BY DEF NoRow, ConversationRow, Status
<1>2. NoJob \in WakeJob /\ NoJob.there = FALSE
  BY DEF NoJob, WakeJob
<1>3. NoOffer \in OfferRow /\ NoOffer.state = "none" /\ NoOffer.scheduled = FALSE
  BY DEF NoOffer, OfferRow, OfferState
<1>4. NoTick \in Tick /\ NoTick.jobs = {}
  BY DEF NoTick, Tick, Stage
<1>5. TypeOK
  BY <1>1, <1>2, <1>3, <1>4 DEF Init, TypeOK
<1>6. LifecycleAgrees
  <2> SUFFICES ASSUME NEW t \in Conversation PROVE SnoozeHasJob(t) /\ OneEpisode(t)
    BY DEF LifecycleAgrees
  <2>1. conv[t] = NoRow /\ wakes[t] = NoJob /\ episodes[t] = 0
    BY DEF Init
  <2>2. conv[t].status = "none" /\ wakes[t] \in WakeJob /\ ~wakes[t].there
    BY <1>1, <1>2, <2>1
  <2>3. SnoozeHasJob(t)
    BY <2>2 DEF SnoozeHasJob, WakeJob
  <2>4. OneEpisode(t)
    BY <2>1, <2>2 DEF OneEpisode
  <2>5. QED BY <2>3, <2>4
<1>7. DeskOrQueue /\ Unmade /\ OneThread
  BY <1>1 DEF Init, DeskOrQueue, Unmade, OneThread, IsLive
<1>8. PendingIsScheduled /\ OffersNameRows
  BY <1>3 DEF Init, PendingIsScheduled, OffersNameRows
<1>9. ScreensFresh /\ JobsAreDue
  BY <1>4 DEF Init, ScreensFresh, JobsAreDue
<1>10. QED BY <1>5, <1>6, <1>7, <1>8, <1>9 DEF ConvInv

LEMMA ConvNextOK ==
  ASSUME ConversationAssumption, ConvInv, [Next]_vars
  PROVE  ConvInv'
<1>1. \A t \in Conversation : RowStep(t)
  BY Rows
<1>2. TypeOK'
  <2>1. /\ conv' \in [Conversation -> ConversationRow]
        /\ wakes' \in [Conversation -> WakeJob]
        /\ episodes' \in [Conversation -> Nat]
    BY <1>1, TablesStep DEF RowStep, RowGood
  <2>2. QED BY <2>1, OffersStep, ScreensStep, TicksStep, StoredStep DEF TypeOK
<1>3. LifecycleAgrees' /\ DeskOrQueue' /\ Unmade'
  BY <1>1 DEF RowStep, RowGood, LifecycleAgrees, DeskOrQueue, Unmade
<1>4. OneThread'
  BY <1>1 DEF RowStep, AliveAlone, ConvInv, OneThread
<1>5. ScreensFresh'
  <2> SUFFICES ASSUME NEW a \in current'
               PROVE  /\ conv'[screen'[a].conv].status # "none"
                      /\ screen'[a].seen = conv'[screen'[a].conv].noted
    BY DEF ScreensFresh
  <2>1. screen'[a].conv \in Conversation
    BY ScreensStep DEF Screen
  <2>2. CASE a \in current /\ screen'[a] = screen[a]
    BY <1>1, <2>1, <2>2 DEF RowStep, NotYounger, Noticed, ConvInv, ScreensFresh
  <2>3. QED BY <2>2, ScreensStep
<1>6. JobsAreDue'
  <2> SUFFICES ASSUME NEW w \in Worker, NEW j \in tick'[w].jobs
               PROVE  /\ j.version <= conv'[j.conv].wake
                      /\ wakes'[j.conv].there /\ wakes'[j.conv].version = j.version =>
                           wakes'[j.conv].due
    BY DEF JobsAreDue
  <2>1. CASE tick'[w].jobs \subseteq tick[w].jobs
    <3>1. j \in tick[w].jobs /\ tick[w] \in Tick
      BY <2>1 DEF ConvInv, TypeOK
    <3>2. j.conv \in Conversation /\ j.version \in Nat
      BY <3>1 DEF Tick, Job
    <3>3. /\ conv[j.conv].wake \in Nat /\ conv'[j.conv].wake \in Nat
          /\ wakes'[j.conv].version \in Nat
      BY <1>1, <3>2, GoodRows DEF RowStep, RowGood, ConversationRow, WakeJob
    <3>4. /\ j.version <= conv[j.conv].wake
          /\ wakes[j.conv].there /\ wakes[j.conv].version = j.version => wakes[j.conv].due
      BY <3>1 DEF ConvInv, JobsAreDue
    <3>5. NotYounger(j.conv)
      BY <1>1, <3>2 DEF RowStep
    <3>6. QED BY <3>2, <3>3, <3>4, <3>5 DEF NotYounger
  <2>2. CASE /\ UNCHANGED <<conv, wakes>>
             /\ tick'[w].jobs \subseteq {[conv |-> t, version |-> wakes[t].version] : t \in DueWakes}
    <3>1. PICK t \in DueWakes : j = [conv |-> t, version |-> wakes[t].version]
      BY <2>2
    <3>2. t \in Conversation /\ wakes[t].there /\ wakes[t].due
      BY DEF DueWakes
    <3>3. wakes[t].version = conv[t].wake /\ conv[t].wake \in Nat
      BY <3>2, GoodRows DEF RowGood, SnoozeHasJob, ConversationRow
    <3>4. QED BY <2>2, <3>1, <3>2, <3>3
  <2>3. QED BY <2>1, <2>2, TicksStep
<1>7. QED BY <1>2, <1>3, <1>4, <1>5, <1>6, OffersStep DEF ConvInv

-----------------------------------------------------------------------------
(* Theorems *)

\* Whatever order people, customers and sweeps come in, conversations, jobs,
\* episodes, offers, screens and ticks agree.
THEOREM ConversationsKeptRight ==
  ASSUME ConversationAssumption
  PROVE  Spec => []ConvInv
BY ConvInitOK, ConvNextOK, PTL DEF Spec

\* The variables have their declared types, and the status of a conversation,
\* its wake job and its episodes tell the same story (lifecycle.service.ts).
THEOREM LifecycleIsKept ==
  ASSUME ConversationAssumption
  PROVE  Spec => []TypeOK /\ []LifecycleAgrees
<1>1. ConvInv => TypeOK /\ LifecycleAgrees
  BY DEF ConvInv
<1>2. QED BY <1>1, ConversationsKeptRight, PTL

\* Whoever wrote is on a desk or in the queue, never both (routing.service.ts).
THEOREM NobodyIsLost ==
  ASSUME ConversationAssumption
  PROVE  Spec => []DeskOrQueue
<1>1. ConvInv => DeskOrQueue
  BY DEF ConvInv
<1>2. QED BY <1>1, ConversationsKeptRight, PTL

\* An offer is in the expiry schedule exactly while it is pending, whoever
\* answers, cancels or removes what against a sweep (conversation_handoffs).
THEOREM OffersStayScheduled ==
  ASSUME ConversationAssumption
  PROVE  Spec => []PendingIsScheduled
<1>1. ConvInv => PendingIsScheduled
  BY DEF ConvInv
<1>2. QED BY <1>1, ConversationsKeptRight, PTL

\* A customer has one live conversation at most (ensure, archived).
THEOREM OneLiveThreadEach ==
  ASSUME ConversationAssumption
  PROVE  Spec => []OneLiveThread
<1>1. ConvInv => OneLiveThread
  <2> SUFFICES ASSUME ConvInv, NEW c \in Customer PROVE Cardinality(Live(c)) <= 1
    BY DEF OneLiveThread
  <2>1. \A t, u \in Live(c) : t = u
    BY DEF ConvInv, OneThread, Live, Threads, IsLive
  <2>2. CASE Live(c) = {}
    BY <2>2, FS_EmptySet
  <2>3. CASE Live(c) # {}
    <3>1. PICK t : Live(c) = {t}
      BY <2>1, <2>3
    <3>2. Cardinality({t}) = 1
      BY FS_Singleton
    <3>3. QED BY <3>1, <3>2
  <2>4. QED BY <2>2, <2>3
<1>2. QED BY <1>1, ConversationsKeptRight, PTL

\* Nobody closes a conversation over a message they have not seen (the fence of
\* `command`).
THEOREM ClosedAfterSeen ==
  ASSUME ConversationAssumption
  PROVE  Spec => ClosedWasSeen
<1>1. ConvInv /\ [Next]_vars =>
        [\A a \in Agent, c \in {"resolve", "archive"} :
           Act(a, c) => screen[a].seen = conv[Showing(a)].noted]_vars
  BY DEF ConvInv, ScreensFresh, Act, Fenced, Showing
<1>2. QED BY <1>1, ConversationsKeptRight, PTL DEF Spec, ClosedWasSeen

\* Only an acceptance makes an offer accepted, and it takes the conversation from
\* the holder the offer was based on.
LEMMA AcceptedStep ==
  ASSUME ConversationAssumption, ConvInv, Next, NEW o \in Offer,
         offers[o].state = "pending", offers'[o].state = "accepted"
  PROVE  /\ conv[offers[o].conv].assignee = offers[o].basedOn
         /\ conv'[offers[o].conv].assignee = offers[o].to
<1> USE DEF ConvInv, TypeOK
<1>1. offers' # offers
  OBVIOUS
<1>2. ASSUME NEW a \in Agent, NEW p \in Offer, Accept(a, p)
      PROVE  /\ conv[offers[o].conv].assignee = offers[o].basedOn
             /\ conv'[offers[o].conv].assignee = offers[o].to
  <2>1. p = o
    BY <1>2 DEF Accept
  <2>2. offers[o].conv \in Conversation /\ a = offers[o].to
    BY <1>2, <2>1 DEF Accept, OffersNameRows
  <2>3. conv'[offers[o].conv] = Held(conv[offers[o].conv], a)
    BY <1>2, <2>1, <2>2 DEF Accept
  <2>4. QED BY <1>2, <2>1, <2>2, <2>3, HeldRow DEF Accept, NotSuperseded
<1>3. ASSUME NEW a \in Agent, NEW p \in Offer, Withdraw(a, p) PROVE FALSE
  BY <1>3 DEF Withdraw, Settled, NoOffer
<1>4. ASSUME NEW a \in Agent, NEW to \in Agent, NEW p \in Offer, Request(a, p, to) PROVE FALSE
  BY <1>4 DEF Request, Offered
<1>5. ASSUME NEW p \in Offer, OfferComesDue(p) PROVE FALSE
  BY <1>5 DEF OfferComesDue, OfferRow
<1>6. ASSUME NEW w \in Worker, WriteOffers(w) PROVE FALSE
  BY <1>6 DEF WriteOffers, Expire, Settled, NoOffer
<1>7. QED
  BY Zenon, <1>1, <1>2, <1>3, <1>4, <1>5, <1>6
  DEF Next, People, World, Work, Open, QuickStart, Act, Assign, Claim, Restore, Remove, Contact,
      Write, WakeComesDue, Start, ReadWakes, WriteWakes, ListOffers, ReadOffers, Throw,
      BeginDrain, Drain, EndTick

\* An accepted offer takes from its holder, and gives to whom it was made
\* (settleHandoff).
THEOREM AcceptanceTakesFromHolder ==
  ASSUME ConversationAssumption
  PROVE  Spec => AcceptedFromHolder
<1>1. ConvInv /\ [Next]_vars =>
        [\A o \in Offer :
           offers[o].state = "pending" /\ offers'[o].state = "accepted" =>
             /\ conv[offers[o].conv].assignee = offers[o].basedOn
             /\ conv'[offers[o].conv].assignee = offers[o].to]_vars
  BY Zenon, AcceptedStep
<1>2. QED BY <1>1, ConversationsKeptRight, PTL DEF Spec, AcceptedFromHolder

\* Of the steps that open a snoozed conversation one notes a message, and the
\* other is the sweep's; what the sweep read is due if it is still the job.
LEMMA WokenStep ==
  ASSUME ConversationAssumption, ConvInv, Next, NEW t \in Conversation,
         conv[t].status = "snoozed", conv'[t].status = "open", conv'[t].noted = conv[t].noted
  PROVE  wakes[t].due
<1> USE DEF ConvInv, TypeOK
<1>1. conv' # conv
  OBVIOUS
<1>2. ASSUME NEW w \in Worker, WriteWakes(w) PROVE wakes[t].due
  <2>1. [conv |-> t, version |-> conv[t].wake] \in tick[w].jobs
    BY <1>2 DEF WriteWakes, WokenBy
  <2>2. wakes[t].there /\ wakes[t].version = conv[t].wake
    BY GoodRows DEF RowGood, SnoozeHasJob, WakeJob
  <2>3. QED BY <2>1, <2>2 DEF JobsAreDue
<1>3. ASSUME NEW w \in Worker, Drain(w) PROVE FALSE
  <2>1. PICK c \in Customer : \E u \in Ensured(c) : Note(u)
    BY <1>3 DEF Drain, Waiting
  <2> PICK u \in Ensured(c) : Note(u)
    BY <2>1
  <2>2. u \in Conversation
    BY DEF Ensured, Live, Spare, Threads
  <2>3. u = t
    BY <2>2 DEF Note
  <2>4. conv'[t].noted = RowOf(t).noted + 1
    BY <2>3, EnsuredRow DEF Note, ConversationRow
  <2>5. conv[t].noted \in Nat /\ RowOf(t).noted = conv[t].noted
    BY EnsuredRow DEF ConversationRow
  <2>6. QED BY <2>4, <2>5
<1>4. ASSUME NEW a \in Agent, NEW c \in Command, Act(a, c) PROVE FALSE
  <2>1. Showing(a) = t
    BY <1>4 DEF Act, Move
  <2>2. conv'[t].status = To[c] /\ "snoozed" \in From[c]
    BY <1>4, <2>1 DEF Act, Move, ConversationRow
  <2>3. QED BY <2>2 DEF Command, To, From, Active
<1>5. ASSUME NEW a \in Agent, NEW to \in Agent \cup {Nobody}, Assign(a, to) \/ Claim(a) PROVE FALSE
  <2>1. Showing(a) \in Conversation
    BY <1>5 DEF Assign, Claim, Fenced, Showing, Screen
  <2>2. PICK x \in Agent \cup {Nobody} : conv' = [conv EXCEPT ![Showing(a)] = Held(@, x)]
    BY <1>5 DEF Assign, Claim
  <2>3. conv'[Showing(a)].status = conv[Showing(a)].status
    <3>1. conv[Showing(a)] \in ConversationRow
      BY <2>1
    <3>2. conv'[Showing(a)] = Held(conv[Showing(a)], x)
      BY <2>1, <2>2
    <3>3. QED BY <2>2, <3>1, <3>2, HeldRow
  <2>4. Showing(a) # t => conv'[t] = conv[t]
    BY <2>1, <2>2
  <2>5. QED BY <2>3, <2>4
<1>6. ASSUME NEW a \in Agent, NEW u \in Conversation, QuickStart(a, u) PROVE FALSE
  BY <1>6 DEF QuickStart, RowOf, Held, ConversationRow
<1>7. ASSUME NEW u \in Conversation, Restore(u) \/ Remove(u) \/ Contact(u) PROVE FALSE
  BY <1>7 DEF Restore, MayRestore, Remove, Contact, ConversationRow
<1>8. ASSUME NEW a \in Agent, NEW o \in Offer, Accept(a, o) PROVE FALSE
  BY <1>8 DEF Accept, Held, ConversationRow
<1>9. QED
  BY Zenon, <1>1, <1>2, <1>3, <1>4, <1>5, <1>6, <1>7, <1>8
  DEF Next, People, World, Work, rows, Open, Request, Withdraw, Write, WakeComesDue, OfferComesDue,
      Start, ReadWakes, ListOffers, ReadOffers, WriteOffers, Throw, BeginDrain, EndTick

\* Only a message or its own due job ends a snooze (wake_version, sweepWakes).
THEOREM WokenByItsOwnJob ==
  ASSUME ConversationAssumption
  PROVE  Spec => WokenWhenDue
<1>1. ConvInv /\ [Next]_vars =>
        [\A t \in Conversation :
           /\ conv[t].status = "snoozed" /\ conv'[t].status = "open"
           /\ conv'[t].noted = conv[t].noted
           => wakes[t].due]_vars
  BY WokenStep
<1>2. QED BY <1>1, ConversationsKeptRight, PTL DEF Spec, WokenWhenDue
=============================================================================
