------------------------- MODULE CampaignRun_proofs -------------------------
(***************************************************************************)
(* What a broadcast keeps for every number of recipients, commands,        *)
(* workers and planners' batches, through crashes, leases that run out     *)
(* under a live worker, pauses, cancellation and retries of failures.      *)
(*                                                                         *)
(* The dispatcher's own invariant comes first: the campaign's handlers are *)
(* orderly in the sense of Dispatch_proofs, so it survives them. The rest  *)
(* is an invariant about single recipients (Traced): what a recipient's    *)
(* state says of its one command that is not over, of the worker that has  *)
(* it in hand, and of the copies on the wire. A step touches the           *)
(* recipients of the commands it writes, and no others (Untouched), so     *)
(* each action is argued for those it touches.                             *)
(***************************************************************************)
EXTENDS CampaignRun, Dispatch_proofs, WellFoundedInduction

-----------------------------------------------------------------------------
(* The ids of new commands *)

\* A nonempty set of naturals has a least element.
LEMMA Least ==
  ASSUME NEW S, S \subseteq Nat, S # {}
  PROVE  \E m \in S : \A n \in S : m <= n
<1> DEFINE R == OpToRel(<, Nat)
<1>1. IsWellFoundedOn(R, Nat)
  BY NatLessThanWellFounded
<1>2. \A a, b \in Nat : a < b => <<a, b>> \in R
  BY DEF OpToRel
<1> HIDE DEF R
<1>3. \E m \in S : \A n \in S : ~(<<n, m>> \in R)
  BY <1>1, WFMin, Zenon
<1>4. PICK m \in S : \A n \in S : ~(<<n, m>> \in R)
  BY <1>3
<1>5. \A n \in S : n \in Nat /\ m \in Nat /\ ~(n < m)
  BY <1>2, <1>4
<1> QED
  BY <1>5

\* Commands to one recipient are commands to no other.
LEMMA Apart ==
  ASSUME NEW r \in Recipient, NEW s \in Recipient, r # s
  PROVE  CommandsTo(r) \cap CommandsTo(s) = {}
BY CampaignAssumption DEF CommandsTo

\* The id a recipient's next command gets is free, and of that recipient.
LEMMA CommandForFacts ==
  ASSUME NEW r \in Recipient, Unused(r) # {}
  PROVE  /\ CommandFor(r) \in CommandsTo(r)
         /\ CommandFor(r) \in Message \ Direct
         /\ message[CommandFor(r)].command = "absent"
<1>1. Unused(r) \subseteq Nat
  BY ParameterAssumption DEF Unused
<1>2. \E m \in Unused(r) : \A n \in Unused(r) : m <= n
  BY <1>1, Least
<1>3. CommandFor(r) \in Unused(r)
  BY <1>2 DEF CommandFor
<1> QED
  BY <1>3 DEF Unused, CommandsTo, Created

\* What Command writes, said without CHOOSE.
NewOf(chosen) == {CommandFor(r) : r \in chosen}
Made(chosen, rows, stop) ==
  LET new == NewOf(chosen)
  IN /\ new \subseteq Message \ Direct
     /\ \A m \in new : message[m].command = "absent"
     /\ message' = [m \in Message |-> IF m \in new
          THEN [message[m] EXCEPT !.command = "queued", !.stop = stop]
          ELSE message[m]]
     /\ Schedule(new)
     /\ recipient' = [r \in Recipient |-> IF r \in chosen
          THEN [rows[r] EXCEPT !.state = "queued", !.command = CommandFor(r)]
          ELSE rows[r]]
     /\ \A r \in chosen : CommandsTo(r) \cap new = {CommandFor(r)}
     /\ \A r \in Recipient \ chosen : CommandsTo(r) \cap new = {}

\* Command makes the command each chosen recipient names, and no other.
LEMMA CommandParts ==
  ASSUME NEW chosen \in SUBSET Recipient, NEW rows, NEW stop, Command(chosen, rows, stop)
  PROVE  Made(chosen, rows, stop)
<1> DEFINE new == NewOf(chosen)
<1>1. \A r \in chosen : Unused(r) # {}
  BY DEF Command
<1>2. \A r \in chosen : /\ CommandFor(r) \in CommandsTo(r)
                        /\ CommandFor(r) \in Message \ Direct
                        /\ message[CommandFor(r)].command = "absent"
  BY <1>1, CommandForFacts
<1>3. ASSUME NEW r \in Recipient, r \notin chosen PROVE CommandsTo(r) \cap new = {}
  BY <1>2, <1>3, Apart DEF NewOf
<1>4. \A r \in chosen : CommandsTo(r) \cap new = {CommandFor(r)}
  BY <1>2, Apart DEF NewOf
<1> QED
  BY <1>2, <1>3, <1>4 DEF Command, NewOf, Made

-----------------------------------------------------------------------------
(* The dispatcher's invariant survives the campaign's handlers *)

\* A step in which no worker moves and no attempt is written is orderly if its
\* effects are.
LEMMA OrderlyHandler ==
  ASSUME \A m \in Message : Effect(m), UNCHANGED <<worker, attempts>>
  PROVE  Orderly
<1>1. HandsOf(0)
  BY HandsKept DEF Held
<1>2. \A m \in Message : LedgerFrom(m)
  BY DEF LedgerFrom
<1> QED
  BY <1>1, <1>2 DEF Orderly

\* What OutboundPromise allows the dispatcher and the handlers alike.
Promised == [Promise!PromiseNext]_(Promise!promiseVars)

\* A handler that makes and accepts no command.
LEMMA QuietHandler ==
  ASSUME DispatchInv, \A m \in Message : Effect(m), UNCHANGED <<worker, attempts>>,
         Typed', Quiet
  PROVE  DispatchInv' /\ Promised /\ NoneAccepted
<1>1. Orderly
  BY OrderlyHandler
<1>2. DispatchInv'
  BY <1>1, OrderlyKeeps
<1>3. Promised
  BY <1>1, <1>2, QuietStep DEF Promised
<1>4. NoneAccepted
  BY AcceptedStep DEF NoneAccepted, Quiet
<1> QED
  BY <1>2, <1>3, <1>4

\* A step that leaves commands, workers and ledger alone keeps DispatchInv.
LEMMA RowsOnly ==
  ASSUME DispatchInv, UNCHANGED <<dbVars, wire, worker, environmentVars, crashes>>,
         recipient' \in [Recipient -> RecipientRow],
         execution' \in [state: {"absent"} \cup CampaignState, stop: Nat],
         campaign' \in CampaignState
  PROVE  DispatchInv' /\ Promised /\ NoneAccepted
<1>1. Typed'
  BY DEF DispatchInv, Typed, TypeOK, InHandOK, dbVars, environmentVars
<1>2. Quiet /\ \A m \in Message : Effect(m)
  BY EffectOfNothing DEF dbVars, Quiet
<1> QED
  BY <1>1, <1>2, QuietHandler DEF dbVars

\* The types of the execution and the campaign after a control action.
LEMMA TurnTypes ==
  ASSUME TypeOK, NEW to \in CampaignState, Turn(to)
  PROVE  /\ execution' \in [state: {"absent"} \cup CampaignState, stop: Nat]
         /\ execution'.stop \in Nat /\ execution'.state = to
         /\ campaign' \in CampaignState
<1>1. execution.stop \in Nat
  BY DEF TypeOK
<1> QED
  BY <1>1 DEF Turn

\* Making commands for recipients keeps DispatchInv.
LEMMA CommandKeeps ==
  ASSUME DispatchInv, NEW chosen \in SUBSET Recipient,
         NEW rows \in [Recipient -> RecipientRow], NEW stop \in Nat,
         Command(chosen, rows, stop),
         UNCHANGED <<attempts, wire, worker, environmentVars, crashes>>,
         execution' \in [state: {"absent"} \cup CampaignState, stop: Nat],
         campaign' \in CampaignState
  PROVE  DispatchInv' /\ Promised /\ NoneAccepted
<1> DEFINE new == NewOf(chosen)
<1>0. /\ new \subseteq Message \ Direct
      /\ \A m \in new : message[m].command = "absent"
      /\ message' = [m \in Message |-> IF m \in new
           THEN [message[m] EXCEPT !.command = "queued", !.stop = stop]
           ELSE message[m]]
      /\ Schedule(new)
      /\ recipient' = [r \in Recipient |-> IF r \in chosen
           THEN [rows[r] EXCEPT !.state = "queued", !.command = CommandFor(r)]
           ELSE rows[r]]
      /\ \A r \in chosen : CommandFor(r) \in new
  <2>1. Made(chosen, rows, stop)
    BY CommandParts
  <2> QED
    BY <2>1 DEF Made
<1> HIDE DEF new
<1>1. new \subseteq Message /\ \A r \in chosen : CommandFor(r) \in Nat
  BY <1>0, ParameterAssumption
<1>2. message' \in [Message -> MessageRow]
  BY <1>0, QueuedType DEF DispatchInv, Typed, TypeOK
<1>3. outbox' \subseteq Message /\ row' \in [Message -> OutboxRow]
  BY <1>0, <1>1 DEF Schedule, DispatchInv, Typed, TypeOK, OutboxRow, EmptyRow
<1>4. earlier' \in [Message -> SUBSET Message]
  BY <1>0, <1>1 DEF Schedule, Neighbours, DispatchInv, Typed, TypeOK
<1>5. recipient' \in [Recipient -> RecipientRow]
  BY ZenonT(30), <1>0, <1>1 DEF RecipientRow, RecipientState
<1>6. Typed'
  BY <1>2, <1>3, <1>4, <1>5 DEF DispatchInv, Typed, TypeOK, InHandOK, environmentVars
<1>7. ASSUME NEW m \in Message PROVE Effect(m)
  <2>1. message[m] \in MessageRow
    BY DEF DispatchInv, Typed, TypeOK
  <2>2. CASE m \in new
    <3>1. message'[m] = [message[m] EXCEPT !.command = "queued", !.stop = stop]
      BY <1>0, <2>2
    <3> QED
      BY <1>0, <2>1, <2>2, <3>1 DEF Schedule, Effect, Born, MessageRow
  <2>3. CASE m \notin new
    BY <1>0, <2>3 DEF Schedule, Effect, Kept
  <2> QED
    BY <2>2, <2>3
<1>8. Orderly /\ DispatchInv'
  BY <1>6, <1>7, OrderlyHandler, OrderlyKeeps
<1>9. \A m \in Message : message'[m].command =
                             IF m \in new THEN "queued" ELSE message[m].command
  BY <1>0 DEF DispatchInv, Typed, TypeOK, MessageRow
<1>10. Promised
  <2>1. CASE new = {}
    BY <1>8, <1>9, <2>1, QuietStep DEF Promised, Quiet
  <2>2. CASE new # {}
    <3>1. outbox' = outbox \cup new
      BY <1>0 DEF Schedule
    <3> QED
      BY <1>0, <1>1, <1>9, <2>2, <3>1, NewCommandsStep DEF Promised
  <2> QED
    BY <2>1, <2>2
<1>11. NoneAccepted
  BY <1>7, <1>9, AcceptedStep DEF NoneAccepted
<1> QED
  BY <1>8, <1>10, <1>11

-----------------------------------------------------------------------------
(* What a recipient's state says of its command *)

\* The attempts of a command that have no answer yet.
OpenAttempts(m) == {i \in DOMAIN attempts[m] : attempts[m][i].outcome = "open"}

\* Nobody has the command in hand, nobody waits for an answer, and nothing was
\* processed. Gone: nor will anything be.
Rests(m) == /\ \A w \in Worker : \A c \in Held(w) : c.msg # m
            /\ OpenAttempts(m) = {} /\ wire[m] = {}
Gone(m) == m \notin outbox /\ Rests(m)

\* One attempt without an answer, one copy processed, one worker.
Single(m) ==
  /\ \A i, j \in OpenAttempts(m) : i = j
  /\ \A i, j \in wire[m] : i = j
  /\ \A v, w \in Worker : \A c \in Held(v), d \in Held(w) :
       c.msg = m /\ d.msg = m => v = w /\ c = d

Stage(r) ==
  LET m == recipient[r].command
      state == recipient[r].state
  IN /\ state \in {"absent", "planned"} => m = 0
     /\ state = "queued" =>
          /\ m # 0 /\ m \in outbox /\ Rests(m)
          /\ message[m].command \in {"queued", "retry_scheduled"}
     /\ state = "outcome_unknown" => m # 0 /\ m \notin outbox /\ OpenAttempts(m) = {}
     /\ state = "failed" /\ recipient[r].budget = "released" =>
          m # 0 /\ Gone(m) /\ message[m].command # "provider_accepted"
     /\ m # 0 /\ OpenAttempts(m) # {} => state = "in_flight"

BudgetOf(rec) == rec.budget \in
  CASE rec.state = "absent" -> {"none"}
    [] Open(rec.state) -> {"reserved"}
    [] rec.state \in {"accepted", "delivered", "read"} -> {"committed"}
    [] rec.state = "outcome_unknown" -> {"held_unknown"}
    [] rec.state = "failed" -> {"released", "committed"}
    [] OTHER -> {"released"}

\* A claim still in the batch is of a command nothing was asked about.
InBatch(w, c, r) ==
  /\ recipient[r].state = "in_flight" /\ HoldsFence(c)
  /\ OpenAttempts(c.msg) = {} /\ wire[c.msg] = {} /\ worker[w].claim # c

\* A claim in hand: with its request out, the recipient is in flight or was
\* recovered meanwhile; with its answer recorded, the command is what the
\* result says, and the recipient is about to be.
OnTheWay(w, r) ==
  LET wk == worker[w]
      m == wk.claim.msg
  IN /\ wk.step \in {"send", "record"} =>
          /\ \/ /\ recipient[r].state = "in_flight" /\ HoldsFence(wk.claim)
                /\ OpenAttempts(m) \subseteq {wk.attempt}
             \/ recipient[r].state = "outcome_unknown"
          /\ wk.step = "send" \/ wk.answer \in {"definitely_rejected", "retryable"} =>
               wire[m] = {}
     /\ wk.step \in {"project", "finish"} =>
          /\ recipient[r].state = "in_flight" /\ OpenAttempts(m) = {}
          /\ wk.result # "none"
          /\ wk.result = "rejected" =>
               m \notin outbox /\ wire[m] = {} /\ message[m].command # "provider_accepted"
          /\ wk.result = "outcome_unknown" => m \notin outbox
          /\ wk.result = "retry" =>
               m \in outbox /\ wire[m] = {} /\ message[m].command = "retry_scheduled"

\* Of all the commands a recipient ever got, one at most is not over: the one
\* the recipient names.
Traced(r) ==
  /\ recipient[r].command \in CommandsTo(r) \cup {0}
  /\ \A m \in CommandsTo(r) : Single(m)
  /\ \A m \in CommandsTo(r) : m # recipient[r].command => Gone(m)
  /\ Stage(r) /\ BudgetOf(recipient[r])
  /\ \A w \in Worker : \A c \in Held(w) : c.msg \in CommandsTo(r) =>
       /\ c.recipient = r
       /\ c \in worker[w].todo => InBatch(w, c, r)
       /\ c = worker[w].claim => OnTheWay(w, r)

\* What workers hold of people's commands has no recipient; a worker about to
\* complete the broadcast has seen every other recipient closed.
Handled == \A w \in Worker :
  /\ worker[w].claim # NoClaim => worker[w].step \in {"send", "record", "project", "finish"}
  /\ \A c \in Held(w) : c.msg \in Direct => c.recipient = NoRecipient
  /\ worker[w].step = "finish" /\ worker[w].drained =>
       /\ worker[w].result # "retry"
       /\ \A r \in Recipient \ {worker[w].claim.recipient} : ~Open(recipient[r].state)

Owned == \A m \in Message \ Direct : Created(m) => \E r \in Recipient : m \in CommandsTo(r)

\* Two tables, one state, and recipients from the launch on.
Together ==
  /\ execution.state = "absent" =>
       campaign = "ready" /\ \A r \in Recipient : recipient[r].state = "absent"
  /\ execution.state # "absent" =>
       /\ execution.state # "ready" /\ campaign = execution.state
       /\ \A r \in Recipient : recipient[r].state # "absent"

Whole == Handled /\ Owned /\ Together /\ CompletedIsDrained
AllTraced == \A r \in Recipient : Traced(r)
RunInv == RunTypeOK /\ DispatchInv /\ Whole /\ AllTraced

-----------------------------------------------------------------------------
(* A step that leaves a recipient's commands alone *)

\* Claims of them are let go or stay in a batch, if the worker moves at all.
Untouched(r) ==
  /\ recipient'[r] = recipient[r]
  /\ \A m \in CommandsTo(r) :
       /\ message'[m].command = message[m].command
       /\ message'[m].version = message[m].version
       /\ m \in outbox' <=> m \in outbox
       /\ wire'[m] = wire[m]
       /\ OpenAttempts(m)' \subseteq OpenAttempts(m)
  /\ \A w \in Worker : \A c \in Held(w)' : c.msg \in CommandsTo(r) =>
       /\ c \in Held(w)
       /\ worker'[w] = worker[w] \/ (c \in worker[w].todo /\ worker'[w].claim # c)

\* Then the recipient is traced as before.
LEMMA UntouchedKeeps ==
  ASSUME NEW r \in Recipient, Traced(r), Untouched(r)
  PROVE  Traced(r)'
<1> DEFINE n == recipient[r].command
<1>1. /\ recipient'[r] = recipient[r]
      /\ n \in CommandsTo(r) \cup {0} /\ CommandsTo(r)' = CommandsTo(r)
  BY DEF Untouched, Traced, CommandsTo
<1>2. \A m \in CommandsTo(r) : Rests(m) => Rests(m)'
  BY DEF Untouched, Rests
<1>3. \A m \in CommandsTo(r) : Gone(m) => Gone(m)'
  BY <1>2 DEF Untouched, Gone
<1>4. \A m \in CommandsTo(r) : Single(m)'
  <2>1. \A m \in CommandsTo(r) : Single(m)
    BY DEF Traced
  <2> QED
    BY <2>1 DEF Untouched, Single
<1>5. \A m \in CommandsTo(r) : m # n => Gone(m)'
  BY <1>3 DEF Traced
<1>6. Stage(r)'
  BY <1>1, <1>2, <1>3 DEF Untouched, Traced, Stage
<1>7. BudgetOf(recipient'[r])
  BY <1>1 DEF Traced
<1>8. ASSUME NEW w \in Worker, NEW c \in Held(w)', c.msg \in CommandsTo(r)
      PROVE  /\ c.recipient = r
             /\ c \in worker'[w].todo => InBatch(w, c, r)'
             /\ c = worker'[w].claim => OnTheWay(w, r)'
  <2>1. /\ c \in Held(w) /\ c.recipient = r
        /\ c \in worker[w].todo => InBatch(w, c, r)
        /\ c = worker[w].claim => OnTheWay(w, r)
    BY <1>8 DEF Untouched, Traced
  <2>2. /\ message'[c.msg].command = message[c.msg].command
        /\ message'[c.msg].version = message[c.msg].version
        /\ c.msg \in outbox' <=> c.msg \in outbox
        /\ wire'[c.msg] = wire[c.msg]
        /\ OpenAttempts(c.msg)' \subseteq OpenAttempts(c.msg)
        /\ recipient'[r] = recipient[r]
    BY <1>8 DEF Untouched
  <2>3. CASE worker'[w] = worker[w]
    <3>1. InBatch(w, c, r) => InBatch(w, c, r)'
      BY <2>2, <2>3 DEF InBatch, HoldsFence
    <3>2. c = worker[w].claim /\ OnTheWay(w, r) => OnTheWay(w, r)'
      BY <2>2, <2>3 DEF OnTheWay, HoldsFence
    <3> QED
      BY <2>1, <2>3, <3>1, <3>2
  <2>4. CASE c \in worker[w].todo /\ worker'[w].claim # c
    BY <2>1, <2>2, <2>4 DEF InBatch, HoldsFence
  <2> QED
    BY <1>8, <2>1, <2>3, <2>4 DEF Untouched
<1> QED
  BY <1>1, <1>4, <1>5, <1>6, <1>7, <1>8 DEF Traced

\* Whose a held claim is.
LEMMA HolderFacts ==
  ASSUME DispatchInv, Handled, Owned, AllTraced, NEW w \in Worker, NEW c \in Held(w)
  PROVE  /\ c \in Claimed /\ c.msg \in Message
         /\ c.msg \in Direct => c.recipient = NoRecipient
         /\ c.msg \notin Direct => c.recipient \in Recipient
         /\ \A r \in Recipient : c.recipient = r <=> c.msg \in CommandsTo(r)
         /\ \A r \in Recipient : c.recipient = r => recipient[r].command = c.msg
<1>1. c \in Claimed /\ c.msg \in Message /\ Created(c.msg)
  BY DEF DispatchInv, Typed, TypeOK, OnlyCreated, WorkerRow, Held, Claimed
<1>2. \A r \in Recipient : c.msg \in CommandsTo(r) => c.recipient = r
  BY DEF AllTraced, Traced
<1>3. \A r \in Recipient : c.msg \in CommandsTo(r) => recipient[r].command = c.msg
  BY DEF AllTraced, Traced, Gone, Rests
<1>4. c.msg \in Direct => c.recipient = NoRecipient /\ \A r \in Recipient : c.msg \notin CommandsTo(r)
  BY DEF Handled, CommandsTo
<1>5. c.msg \notin Direct => \E r \in Recipient : c.msg \in CommandsTo(r)
  BY <1>1 DEF Owned
<1> QED
  BY <1>1, <1>2, <1>3, <1>4, <1>5, ParameterAssumption

-----------------------------------------------------------------------------
(* The parts of Whole that most steps leave alone *)

\* Workers take no new claim of a person's command for a recipient's, keep a
\* claim in hand only where a step is due, and complete nothing new; no
\* recipient opens.
LEMMA HandledKept ==
  ASSUME Handled,
         \A r \in Recipient : Open(recipient'[r].state) => Open(recipient[r].state),
         \A w \in Worker :
           /\ worker'[w].claim # NoClaim =>
                worker'[w].step \in {"send", "record", "project", "finish"}
           /\ \A c \in Held(w)' :
                c \in Held(w) \/ (c.msg \in Direct => c.recipient = NoRecipient)
           /\ worker'[w].step = "finish" => worker'[w] = worker[w]
  PROVE  Handled'
BY DEF Handled

\* New commands of broadcasts are commands to recipients.
LEMMA OwnedKept ==
  ASSUME Owned, \A m \in Message \ Direct :
                  Created(m)' => Created(m) \/ \E r \in Recipient : m \in CommandsTo(r)
  PROVE  Owned'
BY DEF Owned, CommandsTo

\* No recipient opens, appears or disappears.
Settling == \A r \in Recipient :
  /\ Open(recipient'[r].state) => Open(recipient[r].state)
  /\ recipient'[r].state = "absent" <=> recipient[r].state = "absent"

\* finishCampaignIfDrained keeps the two tables together, and completes a
\* drained broadcast only.
LEMMA CompletingKeeps ==
  ASSUME RunTypeOK, Together, CompletedIsDrained, Settling, NEW d, FinishIf(d),
         d => \A r \in Recipient : ~Open(recipient'[r].state)
  PROVE  Together' /\ CompletedIsDrained'
<1>1. execution \in [state: {"absent"} \cup CampaignState, stop: Nat]
  BY DEF RunTypeOK, TypeOK
<1>2. CASE d /\ execution.state = "running"
  <2>1. execution'.state = "dispatch_completed" /\ campaign' = "dispatch_completed"
    BY <1>1, <1>2 DEF FinishIf, Together
  <2> QED
    BY <1>2, <2>1 DEF Together, Settling, CompletedIsDrained
<1>3. CASE ~(d /\ execution.state = "running")
  <2>1. execution' = execution /\ campaign' = campaign
    BY <1>1, <1>3 DEF FinishIf, Together
  <2> QED
    BY <2>1 DEF Together, Settling, CompletedIsDrained
<1> QED
  BY <1>2, <1>3

\* Nor does a step that leaves the campaign's own rows alone.
LEMMA PhaseKept ==
  ASSUME RunTypeOK, Together, CompletedIsDrained, Settling, UNCHANGED <<execution, campaign>>
  PROVE  Together' /\ CompletedIsDrained'
<1>1. FinishIf(FALSE)
  BY DEF FinishIf
<1> QED
  BY <1>1, CompletingKeeps

\* A control action moves both tables to a state that promises no end.
LEMMA TurnKeeps ==
  ASSUME RunTypeOK, Together, campaign # "ready",
         NEW to \in {"paused", "running", "cancelled"}, Turn(to),
         \A r \in Recipient : recipient[r].state # "absent" => recipient'[r].state # "absent"
  PROVE  Together' /\ CompletedIsDrained'
<1>1. execution'.state = to /\ campaign' = to
  BY DEF Turn
<1> QED
  BY <1>1 DEF Together, CompletedIsDrained

-----------------------------------------------------------------------------
(* Steps that touch no recipient's command *)

Aside ==
  /\ UNCHANGED <<recipient, wire>>
  /\ \A m \in Message \ Direct :
       /\ message'[m].command = message[m].command
       /\ message'[m].version = message[m].version
       /\ m \in outbox' <=> m \in outbox
       /\ OpenAttempts(m)' \subseteq OpenAttempts(m)
  /\ \A w \in Worker : worker'[w] = worker[w] \/
       (worker'[w].todo = {} /\ worker'[w].claim = NoClaim /\ worker'[w].step # "finish")

\* Every recipient is traced as before, and workers hold no more than they did.
LEMMA AsideKeeps ==
  ASSUME RunInv, Aside
  PROVE  AllTraced' /\ Handled' /\ Owned' /\ Settling
<1>1. \A w \in Worker : worker'[w] = worker[w] \/ Held(w)' = {}
  BY DEF Aside, Held
<1>2. ASSUME NEW r \in Recipient PROVE Untouched(r)
  <2>1. \A w \in Worker : \A c \in Held(w)' : c \in Held(w) /\ worker'[w] = worker[w]
    BY <1>1 DEF Held
  <2> QED
    BY <2>1 DEF Untouched, Aside, CommandsTo
<1>3. AllTraced'
  BY <1>2, UntouchedKeeps DEF RunInv, AllTraced
<1>4. Settling
  BY DEF Aside, Settling
<1>5. Handled'
  <2>1. \A w \in Worker : \A c \in Held(w)' : c \in Held(w)
    BY <1>1 DEF Held
  <2>2. \A w \in Worker : worker'[w].claim # NoClaim =>
          worker'[w].step \in {"send", "record", "project", "finish"}
    BY DEF Aside, RunInv, Whole, Handled
  <2>3. \A w \in Worker : worker'[w].step = "finish" => worker'[w] = worker[w]
    BY DEF Aside
  <2>4. \A r \in Recipient : Open(recipient'[r].state) => Open(recipient[r].state)
    BY DEF Aside
  <2> QED
    BY <2>1, <2>2, <2>3, <2>4, HandledKept DEF RunInv, Whole
<1>6. Owned'
  BY OwnedKept DEF Aside, RunInv, Whole, Created
<1> QED
  BY <1>3, <1>4, <1>5, <1>6

\* With the campaign's rows alone too, everything stays whole.
LEMMA AsideWhole ==
  ASSUME RunInv, Aside, UNCHANGED <<execution, campaign>>
  PROVE  Whole' /\ AllTraced'
<1>1. AllTraced' /\ Handled' /\ Owned' /\ Settling
  BY AsideKeeps
<1> QED
  BY <1>1, PhaseKept DEF RunInv, Whole

\* An exception touches no command: the worker forgets what it held.
LEMMA AsideOfThrows ==
  ASSUME RunInv, NEW w \in Worker, Throws(w)
  PROVE  Aside /\ UNCHANGED <<execution, campaign>>
<1>1. worker \in [Worker -> WorkerRow]
  BY DEF RunInv, RunTypeOK, TypeOK
<1>2. \A m \in Message : OpenAttempts(m)' = OpenAttempts(m)
  BY DEF Throws, dbVars, OpenAttempts
<1> QED
  BY <1>1, <1>2 DEF Aside, Throws, dbVars, campaignVars, Idle

\* The clock leaves open attempts open and the others alone.
LEMMA OpenAfterTick ==
  ASSUME TypeOK, Tick, NEW m \in Message
  PROVE  OpenAttempts(m)' = OpenAttempts(m)
<1>1. attempts'[m] = [i \in DOMAIN attempts[m] |->
        IF attempts[m][i].outcome = "open" /\ attempts[m][i].age <= OrphanTicks
        THEN [attempts[m][i] EXCEPT !.age = attempts[m][i].age + 1] ELSE attempts[m][i]]
  BY DEF Tick
<1>2. \A i \in DOMAIN attempts[m] : attempts[m][i] \in Attempt
  BY DEF TypeOK
<1>3. \A i \in DOMAIN attempts[m] : attempts'[m][i].outcome = attempts[m][i].outcome
  BY <1>1, <1>2 DEF Attempt
<1> QED
  BY <1>1, <1>3 DEF OpenAttempts

\* The dispatcher's steps that touch no recipient's command.
LEMMA AsideSteps ==
  ASSUME RunInv, Environment \/ Tick \/ \E w \in Worker : StartRound(w)
  PROVE  Whole' /\ AllTraced'
<1>1. worker \in [Worker -> WorkerRow] /\ message \in [Message -> MessageRow]
  BY DEF RunInv, RunTypeOK, TypeOK
<1>2. UNCHANGED attempts => \A m \in Message : OpenAttempts(m)' = OpenAttempts(m)
  BY DEF OpenAttempts
<1>3. ASSUME NEW m \in Message, Enqueue(m) PROVE Aside /\ UNCHANGED <<execution, campaign>>
  BY <1>1, <1>2, <1>3 DEF Enqueue, Schedule, Aside, campaignVars
<1>4. CASE \/ \E p \in Peer : ChangePermit(p)
           \/ \E t \in Tenant : Disconnect(t)
  BY <1>2, <1>4, AsideWhole DEF ChangePermit, Disconnect, Aside, campaignVars, dbVars
<1>5. ASSUME NEW w \in Worker, Crash(w) \/ StartRound(w)
      PROVE  Aside /\ UNCHANGED <<execution, campaign>>
  <2>1. /\ worker'[w].todo = {} /\ worker'[w].claim = NoClaim /\ worker'[w].step # "finish"
        /\ \A v \in Worker : v # w => worker'[v] = worker[v]
    <3> DEFINE started == [Idle EXCEPT !.step = "recover", !.plan = Offering(DutyOf[w])]
    <3>1. worker' = [worker EXCEPT ![w] = Idle] \/ worker' = [worker EXCEPT ![w] = started]
      BY <1>5 DEF Crash, StartRound
    <3>2. /\ Idle.todo = {} /\ Idle.claim = NoClaim /\ Idle.step = "idle"
          /\ started.todo = {} /\ started.claim = NoClaim /\ started.step = "recover"
      BY DEF Idle
    <3> HIDE DEF started
    <3> QED
      BY <1>1, <3>1, <3>2
  <2> QED
    BY <1>2, <1>5, <2>1 DEF Crash, StartRound, Aside, campaignVars, dbVars
<1>6. CASE Tick
  BY <1>6, OpenAfterTick, AsideWhole DEF Tick, Aside, campaignVars, RunInv, RunTypeOK
<1> QED
  BY <1>3, <1>4, <1>5, <1>6, AsideWhole DEF Environment

\* Pausing touches no command, and resuming only gives waiting ones the new
\* stop_version.
LEMMA PauseAndResume ==
  ASSUME RunInv, Pause \/ Resume
  PROVE  Whole' /\ AllTraced'
<1>1. message \in [Message -> MessageRow]
  BY DEF RunInv, RunTypeOK, TypeOK
<1>2. UNCHANGED attempts => \A m \in Message : OpenAttempts(m)' = OpenAttempts(m)
  BY DEF OpenAttempts
<1>3. PICK to \in {"paused", "running"} : Turn(to) /\ campaign # "ready"
  BY DEF Pause, Resume
<1>4. Aside
  <2>1. CASE Pause
    BY <1>2, <2>1 DEF Pause, Turn, Aside, dbVars
  <2>2. CASE Resume
    BY <1>1, <1>2, <2>2 DEF Resume, Turn, Aside, MessageRow
  <2> QED
    BY <2>1, <2>2
<1>5. AllTraced' /\ Handled' /\ Owned' /\ Settling
  BY <1>4, AsideKeeps
<1>6. Together' /\ CompletedIsDrained'
  BY <1>3, <1>5, TurnKeeps DEF RunInv, Whole, Settling
<1> QED
  BY <1>5, <1>6 DEF Whole

-----------------------------------------------------------------------------
(* A worker deals with a claim it holds *)

\* Worker w acts on c, its batch stays or goes, and other commands stay.
ActsOn(w, c) ==
  /\ c \in Held(w) /\ Held(w)' \subseteq Held(w)
  /\ \A d \in Held(w)' : d # c => d \in worker[w].todo /\ worker'[w].claim # d
  /\ \A v \in Worker : v # w => worker'[v] = worker[v]
  /\ \A m \in Message : m # c.msg =>
       /\ message'[m].command = message[m].command
       /\ message'[m].version = message[m].version
       /\ m \in outbox' <=> m \in outbox
       /\ wire'[m] = wire[m]
       /\ OpenAttempts(m)' \subseteq OpenAttempts(m)

\* Who may be touched: the recipient of c, if c is a broadcast's.
LEMMA ActsKeeps ==
  ASSUME RunInv, NEW w \in Worker, NEW c, ActsOn(w, c),
         \A r \in Recipient : r # c.recipient => recipient'[r] = recipient[r],
         c.recipient \in Recipient => Traced(c.recipient)'
  PROVE  AllTraced'
<1> SUFFICES ASSUME NEW r \in Recipient, r # c.recipient PROVE Untouched(r)
  BY UntouchedKeeps DEF AllTraced, RunInv
<1>1. c.msg \notin CommandsTo(r)
  BY HolderFacts DEF ActsOn, RunInv, Whole
<1>2. \A m \in CommandsTo(r) : m \in Message /\ m # c.msg
  BY <1>1 DEF CommandsTo
<1>3. \A v \in Worker : \A d \in Held(v)' : d.msg \in CommandsTo(r) =>
        /\ d \in Held(v)
        /\ worker'[v] = worker[v] \/ (d \in worker[v].todo /\ worker'[v].claim # d)
  BY <1>1 DEF ActsOn, Held
<1> QED
  BY <1>2, <1>3 DEF ActsOn, Untouched

\* The recipient of c is traced if its command is where its state says, c is
\* let go or in hand, and no second attempt or copy appeared.
LEMMA ActedTraced ==
  ASSUME RunInv, NEW w \in Worker, NEW c, ActsOn(w, c),
         NEW r \in Recipient, c.recipient = r,
         recipient'[r].command = recipient[r].command,
         Stage(r)', BudgetOf(recipient'[r]),
         \A i, j \in OpenAttempts(c.msg)' : i = j,
         \A i, j \in wire'[c.msg] : i = j,
         c \in Held(w)' =>
           worker'[w].claim = c /\ c \notin worker'[w].todo /\ OnTheWay(w, r)'
  PROVE  Traced(r)'
<1>1. /\ Traced(r) /\ recipient[r].command = c.msg
      /\ c.msg \in CommandsTo(r) /\ c \in Held(w)
      /\ CommandsTo(r)' = CommandsTo(r)
  BY HolderFacts DEF ActsOn, RunInv, Whole, AllTraced, CommandsTo
<1>2. \A v \in Worker : \A d \in Held(v)' : d \in Held(v)
  BY DEF ActsOn, Held
<1>3. \A v \in Worker : \A d \in Held(v) : d.msg \in CommandsTo(r) => v = w /\ d = c
  <2>1. \A v \in Worker : \A d \in Held(v) : d.msg \in CommandsTo(r) => d.msg = c.msg
    BY <1>1 DEF Traced, Gone, Rests
  <2>2. Single(c.msg)
    BY <1>1 DEF Traced
  <2> QED
    BY <1>1, <2>1, <2>2 DEF Single
<1>4. ASSUME NEW m \in CommandsTo(r), m # c.msg PROVE Gone(m)' /\ Single(m)'
  <2>1. Gone(m) /\ m \in Message
    BY <1>1, <1>4 DEF Traced, CommandsTo
  <2>2. Gone(m)'
    BY <1>2, <1>4, <2>1 DEF Gone, Rests, ActsOn
  <2> QED
    BY <2>2 DEF Gone, Rests, Single
<1>5. Single(c.msg)'
  <2>1. \A u, v \in Worker : \A d \in Held(u)', e \in Held(v)' :
          d.msg = c.msg /\ e.msg = c.msg => u = v /\ d = e
    BY <1>1, <1>2, <1>3
  <2> QED
    BY <2>1 DEF Single
<1>6. \A v \in Worker : \A d \in Held(v)' : d.msg \in CommandsTo(r) =>
        /\ d.recipient = r
        /\ d \in worker'[v].todo => InBatch(v, d, r)'
        /\ d = worker'[v].claim => OnTheWay(v, r)'
  BY <1>2, <1>3
<1> QED
  BY <1>1, <1>4, <1>5, <1>6 DEF Traced

\* The parts of Whole that a worker's action leaves alone.
LEMMA ActsHandled ==
  ASSUME RunInv, NEW w \in Worker, NEW c, ActsOn(w, c), Settling,
         worker'[w].claim # NoClaim => worker'[w].step \in {"send", "record", "project"},
         worker'[w].step # "finish"
  PROVE  Handled' /\ Owned'
<1>1. Handled'
  <2>1. \A v \in Worker : /\ worker'[v].claim # NoClaim =>
                               worker'[v].step \in {"send", "record", "project", "finish"}
                          /\ \A d \in Held(v)' : d \in Held(v)
                          /\ worker'[v].step = "finish" => worker'[v] = worker[v]
    BY DEF ActsOn, Held, RunInv, Whole, Handled
  <2> QED
    BY <2>1, HandledKept DEF Settling, RunInv, Whole
<1>2. Owned'
  <2>1. Created(c.msg)
    BY DEF ActsOn, RunInv, DispatchInv, OnlyCreated
  <2>2. \A m \in Message \ Direct : Created(m)' => Created(m)
    BY <2>1 DEF ActsOn, Created
  <2> QED
    BY <2>2, OwnedKept DEF RunInv, Whole
<1> QED
  BY <1>1, <1>2

\* A claim in the batch, and a claim in hand, of a broadcast's command.
LEMMA HeldFacts ==
  ASSUME RunInv, NEW w \in Worker, NEW c \in Held(w), NEW r \in Recipient, c.recipient = r
  PROVE  /\ recipient[r].command = c.msg /\ c.msg # 0 /\ c.msg \in Message
         /\ Traced(r) /\ Stage(r) /\ BudgetOf(recipient[r]) /\ Single(c.msg)
         /\ c \in worker[w].todo => InBatch(w, c, r)
         /\ c = worker[w].claim => OnTheWay(w, r)
<1>1. /\ recipient[r].command = c.msg /\ c.msg \in CommandsTo(r) /\ c.msg \in Message
  BY HolderFacts DEF RunInv, Whole
<1> QED
  BY <1>1, ConstantFacts DEF RunInv, AllTraced, Traced

\* A refusal skips the recipient, whose command nobody holds any more.
LEMMA SkipKeeps ==
  ASSUME RunInv, NEW w \in Worker, NEW c \in worker[w].todo, Skip(w, c), ~Throws(w)
  PROVE  Whole' /\ AllTraced'
<1> DEFINE settled == Settled(c.msg, "skipped", 0)
           rest == [worker[w] EXCEPT !.todo = worker[w].todo \ {c}]
           rows == IF c.recipient = NoRecipient THEN recipient
                   ELSE [recipient EXCEPT ![c.recipient] =
                           Reserve(recipient[c.recipient], "skipped", "released")]
<1>0. /\ worker \in [Worker -> WorkerRow] /\ message \in [Message -> MessageRow]
      /\ recipient \in [Recipient -> RecipientRow]
  BY DEF RunInv, RunTypeOK, TypeOK
<1>1. /\ message' = [message EXCEPT ![c.msg] = settled] /\ DeleteRows({c.msg})
      /\ recipient' = rows
      /\ FinishIf(c.recipient # NoRecipient /\ Drained(rows))
      /\ worker' = [worker EXCEPT ![w] = Proceed(rest)]
      /\ UNCHANGED <<attempts, wire>>
  BY DEF Skip
<1>2. rest \in WorkerRow /\ rest.todo = worker[w].todo \ {c}
  BY <1>0 DEF WorkerRow
<1> HIDE DEF rest, settled
<1>3. /\ worker'[w].claim = NoClaim /\ worker'[w].step \in {"idle", "recover", "prepare"}
      /\ Held(w)' \subseteq worker[w].todo \ {c}
      /\ \A v \in Worker : v # w => worker'[v] = worker[v]
  BY <1>0, <1>1, <1>2, ProceedType DEF Held
<1>4. c \in Held(w) /\ c \in Claimed
  BY <1>0 DEF Held, WorkerRow
<1>5. ActsOn(w, c)
  <2>1. \A d \in Held(w)' : d # NoClaim
    BY <1>0, <1>3, ConstantFacts DEF WorkerRow
  <2> QED
    BY <1>0, <1>1, <1>3, <1>4, <2>1 DEF ActsOn, Held, DeleteRows, OpenAttempts
<1>6. \A r \in Recipient : r # c.recipient => recipient'[r] = recipient[r]
  BY <1>0, <1>1
<1>7. ASSUME NEW r \in Recipient, r = c.recipient
      PROVE  /\ recipient[r].state = "in_flight" /\ recipient[r].budget = "reserved"
             /\ recipient'[r].state = "skipped" /\ recipient'[r].budget = "released"
             /\ recipient'[r].command = c.msg /\ recipient[r].command = c.msg
             /\ OpenAttempts(c.msg) = {} /\ wire[c.msg] = {}
  <2>1. /\ InBatch(w, c, r) /\ recipient[r].command = c.msg /\ BudgetOf(recipient[r])
    BY <1>4, <1>7, HeldFacts
  <2>2. recipient[r].state = "in_flight" /\ recipient[r].budget = "reserved"
    BY <2>1 DEF InBatch, BudgetOf, Open
  <2>3. recipient'[r] = Reserve(recipient[r], "skipped", "released")
    BY <1>0, <1>1, <1>7, ParameterAssumption
  <2>4. recipient[r] \in RecipientRow
    BY <1>0
  <2> QED
    BY <2>1, <2>2, <2>3, <2>4 DEF Reserve, RecipientRow, InBatch
<1>8. c.recipient \in Recipient => Traced(c.recipient)'
  <2> SUFFICES ASSUME NEW r \in Recipient, r = c.recipient PROVE Traced(r)'
    OBVIOUS
  <2>1. OpenAttempts(c.msg)' = {} /\ wire'[c.msg] = {}
    BY <1>1, <1>7 DEF OpenAttempts
  <2>2. Stage(r)' /\ BudgetOf(recipient'[r])
    BY <1>7, <2>1 DEF Stage, BudgetOf, Open
  <2> QED
    BY <1>3, <1>5, <1>7, <2>1, <2>2, ActedTraced
<1>9. Settling
  BY <1>6, <1>7 DEF Settling, Open
<1>10. Handled' /\ Owned'
  BY <1>3, <1>5, <1>9, ActsHandled
<1>11. Together' /\ CompletedIsDrained'
  <2>1. Drained(rows) => \A r \in Recipient : ~Open(recipient'[r].state)
    BY <1>1 DEF Drained
  <2> HIDE DEF rows
  <2> QED
    BY <1>1, <1>9, <2>1, CompletingKeeps DEF RunInv, Whole
<1> QED
  BY <1>5, <1>6, <1>8, <1>10, <1>11, ActsKeeps DEF Whole

\* Opening an attempt changes one command's ledger.
LEMMA OpenAfterBegin ==
  ASSUME TypeOK, NEW n \in Message,
         attempts' = [attempts EXCEPT ![n] = Append(@, [age |-> 0, outcome |-> "open"])]
  PROVE  /\ OpenAttempts(n)' = OpenAttempts(n) \cup {Len(attempts[n]) + 1}
         /\ \A m \in Message : m # n => OpenAttempts(m)' = OpenAttempts(m)
<1>1. attempts[n] \in Seq(Attempt) /\ [age |-> 0, outcome |-> "open"] \in Attempt
  BY DEF TypeOK, Attempt, Outcome
<1> DEFINE i == Len(attempts[n]) + 1
<1>2. attempts'[n] = Append(attempts[n], [age |-> 0, outcome |-> "open"])
  BY DEF TypeOK
<1>3. /\ DOMAIN attempts'[n] = DOMAIN attempts[n] \cup {i} /\ i \notin DOMAIN attempts[n]
      /\ attempts'[n][i] = [age |-> 0, outcome |-> "open"]
      /\ \A j \in DOMAIN attempts[n] : attempts'[n][j] = attempts[n][j]
  BY <1>1, <1>2
<1>4. \A m \in Message : m # n => attempts'[m] = attempts[m]
  BY DEF TypeOK
<1> HIDE DEF i
<1>5. OpenAttempts(n)' = OpenAttempts(n) \cup {i}
  BY <1>3 DEF OpenAttempts
<1> QED
  BY <1>4, <1>5 DEF OpenAttempts, i

\* The attempt is the command's only open one, and its worker's.
LEMMA BeginKeeps ==
  ASSUME RunInv, NEW w \in Worker, worker[w].step = "prepare",
         NEW c \in worker[w].todo, Begin(w, c)
  PROVE  Whole' /\ AllTraced'
<1> DEFINE i == Len(attempts[c.msg]) + 1
<1>0. /\ worker \in [Worker -> WorkerRow] /\ recipient \in [Recipient -> RecipientRow]
      /\ worker[w].claim = NoClaim
  BY DEF RunInv, RunTypeOK, TypeOK, Whole, Handled
<1>1. c \in Held(w) /\ c \in Claimed /\ c.msg \in Message /\ c # NoClaim
  BY <1>0, ConstantFacts DEF Held, WorkerRow, Claimed
<1>2. /\ worker'[w].claim = c /\ worker'[w].step \in {"send", "record"}
      /\ worker'[w].todo = worker[w].todo \ {c}
      /\ worker'[w].attempt = i /\ worker'[w].answer = "retryable"
      /\ \A v \in Worker : v # w => worker'[v] = worker[v]
  BY <1>0 DEF Begin, WorkerRow
<1>3. /\ OpenAttempts(c.msg)' = OpenAttempts(c.msg) \cup {i}
      /\ \A m \in Message : m # c.msg => OpenAttempts(m)' = OpenAttempts(m)
  BY <1>1, OpenAfterBegin DEF Begin, RunInv, RunTypeOK
<1>4. UNCHANGED <<message, outbox, wire, recipient, execution, campaign>>
  BY DEF Begin, campaignVars
<1> HIDE DEF i
<1>5. ActsOn(w, c)
  BY <1>0, <1>1, <1>2, <1>3, <1>4 DEF ActsOn, Held
<1>6. c.recipient \in Recipient => Traced(c.recipient)'
  <2> SUFFICES ASSUME NEW r \in Recipient, r = c.recipient PROVE Traced(r)'
    OBVIOUS
  <2>1. InBatch(w, c, r) /\ recipient[r].command = c.msg /\ BudgetOf(recipient[r]) /\ Stage(r)
    BY <1>1, HeldFacts
  <2>2. OpenAttempts(c.msg)' = {i} /\ wire'[c.msg] = {}
    BY <1>3, <1>4, <2>1 DEF InBatch
  <2>3. Stage(r)' /\ BudgetOf(recipient'[r])
    BY <1>4, <2>1, <2>2 DEF InBatch, Stage
  <2>4. OnTheWay(w, r)'
    BY <1>2, <1>4, <2>1, <2>2 DEF InBatch, OnTheWay, HoldsFence
  <2> QED
    BY <1>2, <1>4, <1>5, <2>2, <2>3, <2>4, ActedTraced
<1>7. Settling
  BY <1>4 DEF Settling
<1>8. Handled' /\ Owned'
  BY <1>2, <1>5, <1>7, ActsHandled
<1> QED
  BY <1>4, <1>5, <1>6, <1>7, <1>8, ActsKeeps, PhaseKept DEF Whole, RunInv

\* The request: one copy at most, and none where the answer is a refusal.
LEMMA SendKeeps ==
  ASSUME RunInv, NEW w \in Worker, Send(w)
  PROVE  Whole' /\ AllTraced'
<1> PICK c, i : c = worker[w].claim /\ i = worker[w].attempt
  OBVIOUS
<1>0. /\ worker \in [Worker -> WorkerRow] /\ wire \in [Message -> SUBSET Nat]
      /\ worker[w].step = "send" /\ c \in Claimed
  BY DEF Send, RunInv, RunTypeOK, TypeOK, DispatchInv, Typed, InHandOK
<1>1. c \in Held(w) /\ c.msg \in Message /\ c # NoClaim
  BY <1>0, ConstantFacts DEF Held, Claimed
<1>2. PICK answer \in Answer, processed \in BOOLEAN :
        /\ answer \in {"definitely_rejected", "retryable"} => ~processed
        /\ worker' = [worker EXCEPT ![w] =
                        [worker[w] EXCEPT !.step = "record", !.answer = answer]]
        /\ wire' = IF processed THEN [wire EXCEPT ![c.msg] = @ \cup {i}] ELSE wire
        /\ UNCHANGED <<dbVars, campaignVars>>
  BY DEF Send
<1>3. /\ worker'[w].claim = c /\ worker'[w].step = "record" /\ worker'[w].attempt = i
      /\ worker'[w].todo = worker[w].todo /\ worker'[w].answer = answer
      /\ \A v \in Worker : v # w => worker'[v] = worker[v]
  BY <1>0, <1>2 DEF WorkerRow
<1>4. /\ UNCHANGED <<message, outbox, attempts, recipient, execution, campaign>>
      /\ \A m \in Message : OpenAttempts(m)' = OpenAttempts(m)
  BY <1>2 DEF dbVars, campaignVars, OpenAttempts
<1>5. /\ \A m \in Message : m # c.msg => wire'[m] = wire[m]
      /\ wire[c.msg] = {} => wire'[c.msg] \subseteq {i}
      /\ answer \in {"definitely_rejected", "retryable"} => wire'[c.msg] = wire[c.msg]
  BY <1>0, <1>1, <1>2
<1>6. \A r \in Recipient : c.recipient = r =>
        /\ Traced(r) /\ Stage(r) /\ BudgetOf(recipient[r]) /\ OnTheWay(w, r)
        /\ recipient[r].command = c.msg /\ Single(c.msg) /\ c \notin worker[w].todo
  <2> SUFFICES ASSUME NEW r \in Recipient, c.recipient = r
               PROVE  /\ Traced(r) /\ Stage(r) /\ BudgetOf(recipient[r]) /\ OnTheWay(w, r)
                      /\ recipient[r].command = c.msg /\ Single(c.msg)
                      /\ c \notin worker[w].todo
    OBVIOUS
  <2> QED
    BY <1>1, HeldFacts DEF InBatch
<1>7. \A d \in Held(w)' : d # c => d \in worker[w].todo
  BY <1>3 DEF Held
<1>8. ActsOn(w, c)
  BY <1>1, <1>3, <1>4, <1>5, <1>7 DEF ActsOn, Held
<1>9. c.recipient \in Recipient => Traced(c.recipient)'
  <2> SUFFICES ASSUME NEW r \in Recipient, c.recipient = r PROVE Traced(r)'
    OBVIOUS
  <2>1. /\ wire[c.msg] = {}
        /\ \/ /\ recipient[r].state = "in_flight" /\ HoldsFence(c)
              /\ OpenAttempts(c.msg) \subseteq {i}
           \/ recipient[r].state = "outcome_unknown"
    BY <1>0, <1>6 DEF OnTheWay
  <2>2. OnTheWay(w, r)'
    <3>1. HoldsFence(c)' <=> HoldsFence(c)
      BY <1>4 DEF HoldsFence
    <3> QED
      BY <1>1, <1>3, <1>4, <1>5, <2>1, <3>1 DEF OnTheWay
  <2>3. Stage(r)' /\ BudgetOf(recipient'[r])
    <3>1. recipient[r].state \in {"in_flight", "outcome_unknown"}
      BY <1>0, <1>6 DEF OnTheWay
    <3> QED
      BY <1>4, <1>6, <3>1, HeldFacts, <1>1 DEF Stage
  <2>4. \A j, k \in OpenAttempts(c.msg)' : j = k
    BY <1>1, <1>4, <1>6 DEF Single
  <2> QED
    BY <1>3, <1>4, <1>5, <1>6, <1>8, <2>1, <2>2, <2>3, <2>4, ActedTraced
<1>10. Settling
  BY <1>4 DEF Settling
<1>11. Handled' /\ Owned'
  BY <1>3, <1>8, <1>10, ActsHandled
<1> QED
  BY <1>4, <1>8, <1>9, <1>10, <1>11, ActsKeeps, PhaseKept DEF Whole, RunInv

\* Projecting decides, and says nothing yet.
LEMMA ProjectKeeps ==
  ASSUME RunInv, NEW w \in Worker, Project(w)
  PROVE  Whole' /\ AllTraced'
<1> PICK c, s : c = worker[w].claim /\ s = c.recipient
  OBVIOUS
<1>0. /\ worker \in [Worker -> WorkerRow] /\ worker[w].step = "project"
      /\ c \in Claimed /\ s \in Recipient /\ recipient \in [Recipient -> RecipientRow]
  BY DEF Project, RunInv, RunTypeOK, TypeOK, DispatchInv, Typed, InHandOK
<1>1. c \in Held(w) /\ c.msg \in Message /\ c # NoClaim
  BY <1>0, ConstantFacts DEF Held, Claimed
<1>2. /\ worker'[w].claim = c /\ worker'[w].step = "finish"
      /\ worker'[w].result = worker[w].result /\ worker'[w].todo = worker[w].todo
      /\ worker'[w].drained = /\ worker[w].result # "retry"
                              /\ Drained([recipient EXCEPT ![s] =
                                            Projected(@, worker[w].result)])
      /\ \A v \in Worker : v # w => worker'[v] = worker[v]
  BY <1>0 DEF Project, WorkerRow
<1>3. /\ UNCHANGED <<message, outbox, attempts, wire, recipient, execution, campaign>>
      /\ \A m \in Message : OpenAttempts(m)' = OpenAttempts(m)
  BY DEF Project, dbVars, campaignVars, OpenAttempts
<1>4. /\ Stage(s) /\ BudgetOf(recipient[s]) /\ Single(c.msg) /\ OnTheWay(w, s)
      /\ recipient[s].command = c.msg /\ c \notin worker[w].todo
  BY <1>0, <1>1, HeldFacts DEF InBatch
<1>5. ActsOn(w, c)
  BY <1>1, <1>2, <1>3 DEF ActsOn, Held
<1>6. Traced(s)'
  <2>1. OnTheWay(w, s)'
    BY <1>0, <1>1, <1>2, <1>3, <1>4 DEF OnTheWay, HoldsFence
  <2>2. Stage(s)' /\ BudgetOf(recipient'[s])
    BY <1>0, <1>1, <1>3, <1>4 DEF Stage, OnTheWay
  <2>3. /\ \A i, j \in OpenAttempts(c.msg)' : i = j
        /\ \A i, j \in wire'[c.msg] : i = j
    BY <1>1, <1>3, <1>4 DEF Single
  <2> QED
    BY <1>0, <1>2, <1>3, <1>4, <1>5, <2>1, <2>2, <2>3, ActedTraced
<1>7. Settling
  BY <1>3 DEF Settling
<1>8. Handled'
  <2>1. worker'[w].drained => /\ worker'[w].result # "retry"
                              /\ \A r \in Recipient \ {s} : ~Open(recipient'[r].state)
    <3>1. \A r \in Recipient \ {s} :
            [recipient EXCEPT ![s] = Projected(@, worker[w].result)][r] = recipient[r]
      BY <1>0
    <3> QED
      BY <1>2, <1>3, <3>1 DEF Drained
  <2>2. \A v \in Worker : \A d \in Held(v)' : d \in Held(v)
    BY <1>5 DEF ActsOn, Held
  <2> QED
    BY ZenonT(30), <1>2, <1>3, <2>1, <2>2 DEF RunInv, Whole, Handled
<1>9. Owned'
  BY <1>3, OwnedKept DEF RunInv, Whole, Created
<1> QED
  BY <1>3, <1>5, <1>6, <1>7, <1>8, <1>9, ActsKeeps, PhaseKept DEF Whole, RunInv

\* An answer closes the attempt it answers, and no other.
LEMMA OpenAfterRecord ==
  ASSUME TypeOK, NEW n \in Message, NEW i \in DOMAIN attempts[n], NEW answer \in Answer,
         attempts' = [attempts EXCEPT ![n][i] = [age |-> 0, outcome |-> Evidence(answer)]]
  PROVE  /\ OpenAttempts(n)' = OpenAttempts(n) \ {i}
         /\ \A m \in Message : m # n => OpenAttempts(m)' = OpenAttempts(m)
<1>1. Evidence(answer) # "open"
  BY DEF Evidence, Answer
<1>2. attempts[n] \in Seq(Attempt) /\ DOMAIN attempts = Message
  BY DEF TypeOK
<1>3. /\ DOMAIN attempts'[n] = DOMAIN attempts[n]
      /\ attempts'[n][i] = [age |-> 0, outcome |-> Evidence(answer)]
      /\ \A j \in DOMAIN attempts[n] : j # i => attempts'[n][j] = attempts[n][j]
      /\ \A m \in Message : m # n => attempts'[m] = attempts[m]
  BY <1>2
<1> QED
  BY <1>1, <1>3 DEF OpenAttempts

\* What a recorded answer makes of the command: nothing without the fence, and
\* with it what the result says.
Recorded(c, answer) ==
  /\ \A m \in Message : m # c.msg => message'[m] = message[m] /\ (m \in outbox' <=> m \in outbox)
  /\ ~HoldsFence(c) => UNCHANGED <<message, outbox>>
  /\ HoldsFence(c) /\ Retries(c, answer) =>
       c.msg \in outbox' /\ message'[c.msg].command = "retry_scheduled"
  /\ HoldsFence(c) /\ ~Retries(c, answer) =>
       c.msg \notin outbox' /\ message'[c.msg].command = Verdict(c, answer)

LEMMA RecordParts ==
  ASSUME DispatchInv, NEW w \in Worker, Record(w)
  PROVE  Recorded(worker[w].claim, worker[w].answer)
<1> PICK c, answer, i : c = worker[w].claim /\ answer = worker[w].answer
                        /\ i = worker[w].attempt
  OBVIOUS
<1>0. message \in [Message -> MessageRow] /\ worker[w] \in WorkerRow
  BY DEF DispatchInv, Typed, TypeOK
<1>1. /\ c \in Claimed /\ c.msg \in Message /\ answer \in Answer /\ i \in Nat
  BY <1>0 DEF Record, DispatchInv, Typed, InHandOK, Claimed, WorkerRow
<1>2. CASE ~HoldsFence(c)
  BY <1>2 DEF Record, Recorded
<1>3. CASE HoldsFence(c) /\ Retries(c, answer)
  <2>1. message' = [message EXCEPT ![c.msg] = Settled(c.msg, "retry_scheduled", 0)]
        /\ UNCHANGED outbox
    BY <1>3 DEF Record, Reschedule
  <2>2. Settled(c.msg, "retry_scheduled", 0).command = "retry_scheduled"
    BY <1>1, SettledParts DEF DispatchInv, Typed, CommandState, Pending
  <2>3. c.msg \in outbox
    BY <1>1, <1>3, HolderDispatches DEF DispatchInv, OutboxHoldsPending, Pending
  <2> QED
    BY <1>0, <1>1, <1>3, <2>1, <2>2, <2>3 DEF Recorded
<1>4. CASE HoldsFence(c) /\ ~Retries(c, answer)
  <2> DEFINE provider == IF answer = "accepted" THEN i ELSE 0
  <2>1. /\ message' = [message EXCEPT ![c.msg] = Settled(c.msg, Verdict(c, answer), provider)]
        /\ outbox' = outbox \ {c.msg}
    BY <1>4 DEF Record, Conclude, DeleteRows
  <2>2. Verdict(c, answer) \in CommandState /\ provider \in Nat
    BY <1>1 DEF Verdict, CommandState, Decided
  <2>3. Settled(c.msg, Verdict(c, answer), provider).command = Verdict(c, answer)
    BY <1>1, <2>2, SettledParts DEF DispatchInv, Typed
  <2> HIDE DEF provider
  <2> QED
    BY <1>0, <1>1, <1>4, <2>1, <2>3 DEF Recorded
<1> QED
  BY <1>2, <1>3, <1>4

\* An answer under the fence is the recipient's to become; without it the
\* recipient had been recovered, and the worker goes on.
LEMMA RecordKeeps ==
  ASSUME RunInv, NEW w \in Worker, Record(w)
  PROVE  Whole' /\ AllTraced'
<1> PICK c, i, answer : c = worker[w].claim /\ i = worker[w].attempt /\ answer = worker[w].answer
  OBVIOUS
<1> DEFINE told == [worker[w] EXCEPT !.step = "project", !.result = ResultOf(c, answer)]
           projects == HoldsFence(c) /\ c.recipient # NoRecipient
<1>0. /\ worker \in [Worker -> WorkerRow] /\ worker[w].step = "record"
      /\ c \in Claimed /\ i \in DOMAIN attempts[c.msg] /\ answer \in Answer
  BY DEF Record, RunInv, RunTypeOK, TypeOK, DispatchInv, Typed, InHandOK, WorkerRow
<1>1. c \in Held(w) /\ c.msg \in Message /\ c # NoClaim
  BY <1>0, ConstantFacts DEF Held, Claimed
<1>2. Recorded(c, answer)
  BY RecordParts DEF RunInv
<1>3. /\ OpenAttempts(c.msg)' = OpenAttempts(c.msg) \ {i}
      /\ \A m \in Message : m # c.msg => OpenAttempts(m)' = OpenAttempts(m)
  BY <1>0, <1>1, OpenAfterRecord DEF Record, RunInv, RunTypeOK
<1>4. UNCHANGED <<wire, recipient, execution, campaign>>
  BY DEF Record, campaignVars
<1>5. /\ \A v \in Worker : v # w => worker'[v] = worker[v]
      /\ projects => /\ worker'[w].claim = c /\ worker'[w].step = "project"
                     /\ worker'[w].todo = worker[w].todo
                     /\ worker'[w].result = ResultOf(c, answer)
      /\ ~projects => /\ worker'[w].claim = NoClaim
                      /\ worker'[w].step \in {"idle", "recover", "prepare"}
                      /\ worker'[w].todo \subseteq worker[w].todo
  <2>1. /\ projects => worker' = [worker EXCEPT ![w] = told]
        /\ ~projects => worker' = [worker EXCEPT ![w] = Proceed(worker[w])]
    BY DEF Record, AfterRecord
  <2>2. /\ told.step = "project" /\ told.claim = c /\ told.todo = worker[w].todo
        /\ told.result = ResultOf(c, answer)
    BY <1>0 DEF WorkerRow
  <2> HIDE DEF told, projects
  <2> QED
    BY <1>0, <2>1, <2>2, ProceedType
<1>6. Held(w)' \subseteq Held(w) /\ (c \in Held(w)' /\ c \notin worker[w].todo => projects)
  BY <1>1, <1>5 DEF Held
<1> HIDE DEF told, projects
<1>7. ActsOn(w, c)
  <2>1. \A d \in Held(w)' : d # c => d \in worker[w].todo /\ worker'[w].claim # d
    <3>1. \A d \in worker[w].todo : d # NoClaim
      BY <1>0, ConstantFacts DEF WorkerRow
    <3> QED
      BY <1>5, <3>1 DEF Held
  <2> QED
    BY <1>1, <1>2, <1>3, <1>4, <1>5, <1>6, <2>1 DEF ActsOn, Recorded
<1>8. c.recipient \in Recipient => Traced(c.recipient)'
  <2> SUFFICES ASSUME NEW r \in Recipient, c.recipient = r PROVE Traced(r)'
    OBVIOUS
  <2>1. /\ Stage(r) /\ BudgetOf(recipient[r]) /\ Single(c.msg)
        /\ recipient[r].command = c.msg /\ c \notin worker[w].todo /\ c.msg # 0
        /\ \/ /\ recipient[r].state = "in_flight" /\ HoldsFence(c)
              /\ OpenAttempts(c.msg) \subseteq {i}
           \/ recipient[r].state = "outcome_unknown"
        /\ answer \in {"definitely_rejected", "retryable"} => wire[c.msg] = {}
    <3>1. /\ Stage(r) /\ BudgetOf(recipient[r]) /\ Single(c.msg) /\ OnTheWay(w, r)
          /\ recipient[r].command = c.msg /\ c \notin worker[w].todo /\ c.msg # 0
      BY <1>1, HeldFacts DEF InBatch
    <3> QED
      BY <1>0, <3>1 DEF OnTheWay
  <2>2. projects <=> HoldsFence(c)
    BY ParameterAssumption DEF projects
  <2>3. /\ \A j, k \in OpenAttempts(c.msg)' : j = k
        /\ \A j, k \in wire'[c.msg] : j = k
    BY <1>3, <1>4, <2>1 DEF Single
  <2>4. CASE ~HoldsFence(c)
    <3>1. Stage(r)'
      BY <1>2, <1>3, <1>4, <2>1, <2>4 DEF Stage, Recorded
    <3> QED
      BY <1>4, <1>5, <1>6, <1>7, <2>1, <2>2, <2>3, <2>4, <3>1, ActedTraced
  <2>5. CASE HoldsFence(c)
    <3>1. c.msg \in outbox
      BY <1>1, <2>5, HolderDispatches DEF RunInv, DispatchInv, OutboxHoldsPending, Pending
    <3>2. recipient[r].state = "in_flight" /\ OpenAttempts(c.msg)' = {}
      BY <1>3, <2>1, <3>1 DEF Stage
    <3>3. Stage(r)'
      BY <1>4, <2>1, <3>2 DEF Stage
    <3>4. OnTheWay(w, r)'
      <4>1. CASE Retries(c, answer)
        <5>1. /\ wire[c.msg] = {} /\ c.msg \in outbox'
              /\ message'[c.msg].command = "retry_scheduled"
              /\ ResultOf(c, answer) = "retry"
          BY <1>2, <2>1, <2>5, <4>1 DEF Recorded, Retries, ResultOf
        <5> QED
          BY <1>4, <1>5, <2>2, <2>5, <3>2, <5>1 DEF OnTheWay
      <4>2. CASE ~Retries(c, answer)
        <5>1. /\ c.msg \notin outbox'
              /\ ResultOf(c, answer) \in {"accepted", "outcome_unknown", "rejected"}
              /\ ResultOf(c, answer) = "rejected" =>
                   wire[c.msg] = {} /\ message'[c.msg].command # "provider_accepted"
          BY <1>0, <1>2, <2>1, <2>5, <4>2 DEF Recorded, ResultOf, Verdict, Answer
        <5> QED
          BY <1>4, <1>5, <2>2, <2>5, <3>2, <5>1 DEF OnTheWay
      <4> QED
        BY <4>1, <4>2
    <3> QED
      BY <1>4, <1>5, <1>7, <2>1, <2>2, <2>3, <2>5, <3>3, <3>4, ActedTraced
  <2> QED
    BY <2>4, <2>5
<1>9. Settling
  BY <1>4 DEF Settling
<1>10. Handled' /\ Owned'
  BY <1>5, <1>7, <1>9, ActsHandled
<1> QED
  BY <1>4, <1>7, <1>8, <1>9, <1>10, ActsKeeps, PhaseKept DEF Whole, RunInv

\* The projection settles the recipient as the result says, and completes the
\* broadcast only if it was the last one open.
LEMMA FinishKeeps ==
  ASSUME RunInv, NEW w \in Worker, Finish(w)
  PROVE  Whole' /\ AllTraced'
<1> PICK c, s, result : c = worker[w].claim /\ s = c.recipient /\ result = worker[w].result
  OBVIOUS
<1>0. /\ worker \in [Worker -> WorkerRow] /\ worker[w].step = "finish"
      /\ c \in Claimed /\ s \in Recipient /\ recipient \in [Recipient -> RecipientRow]
      /\ result \in Result
  BY DEF Finish, RunInv, RunTypeOK, TypeOK, DispatchInv, Typed, InHandOK, WorkerRow
<1>1. c \in Held(w) /\ c.msg \in Message /\ c # NoClaim
  BY <1>0, ConstantFacts DEF Held, Claimed
<1>2. /\ worker'[w].claim = NoClaim /\ worker'[w].step \in {"idle", "recover", "prepare"}
      /\ worker'[w].todo \subseteq worker[w].todo
      /\ \A v \in Worker : v # w => worker'[v] = worker[v]
  BY <1>0, ProceedType DEF Finish
<1>3. /\ UNCHANGED <<message, outbox, attempts, wire>>
      /\ \A m \in Message : OpenAttempts(m)' = OpenAttempts(m)
  BY DEF Finish, dbVars, OpenAttempts
<1>4. /\ recipient'[s] = Projected(recipient[s], result)
      /\ \A r \in Recipient : r # s => recipient'[r] = recipient[r]
      /\ FinishIf(worker[w].drained)
  BY SMTT(30), <1>0 DEF Finish
<1>5. /\ recipient[s].state = "in_flight" /\ recipient[s].budget = "reserved"
      /\ recipient[s].command = c.msg /\ c.msg # 0 /\ c \notin worker[w].todo
      /\ Single(c.msg) /\ OpenAttempts(c.msg) = {} /\ result # "none"
      /\ result = "rejected" => /\ c.msg \notin outbox /\ wire[c.msg] = {}
                                /\ message[c.msg].command # "provider_accepted"
      /\ result = "outcome_unknown" => c.msg \notin outbox
      /\ result = "retry" => /\ c.msg \in outbox /\ wire[c.msg] = {}
                             /\ message[c.msg].command = "retry_scheduled"
  <2>1. /\ OnTheWay(w, s) /\ BudgetOf(recipient[s]) /\ Single(c.msg)
        /\ recipient[s].command = c.msg /\ c.msg # 0 /\ c \notin worker[w].todo
    BY <1>0, <1>1, HeldFacts DEF InBatch
  <2> QED
    BY <1>0, <2>1 DEF OnTheWay, BudgetOf, Open
<1>6. /\ recipient'[s].command = c.msg
      /\ <<recipient'[s].state, recipient'[s].budget>> =
           CASE result = "accepted" -> <<"accepted", "committed">>
             [] result = "rejected" -> <<"failed", "released">>
             [] result = "outcome_unknown" -> <<"outcome_unknown", "held_unknown">>
             [] result = "retry" -> <<"queued", "reserved">>
  <2>1. recipient[s] \in RecipientRow
    BY <1>0
  <2> QED
    BY <1>0, <1>4, <1>5, <2>1 DEF Projected, Reserve, RecipientRow, Result
<1>7. ActsOn(w, c) /\ c \notin Held(w)'
  <2>1. \A d \in worker[w].todo : d # NoClaim
    BY <1>0, ConstantFacts DEF WorkerRow
  <2> QED
    BY <1>1, <1>2, <1>3, <1>5, <2>1 DEF ActsOn, Held
<1>8. Traced(s)'
  <2>1. \A v \in Worker : \A d \in Held(v)' : d.msg # c.msg
    BY <1>1, <1>5, <1>7 DEF ActsOn, Held, Single
  <2>2. OpenAttempts(c.msg)' = {} /\ wire'[c.msg] = wire[c.msg]
    BY <1>1, <1>3, <1>5
  <2>3. wire[c.msg] = {} => Rests(c.msg)'
    BY <2>1, <2>2 DEF Rests
  <2>4. Stage(s)' /\ BudgetOf(recipient'[s])
    <3>1. CASE result = "accepted"
      BY SMTT(30), <1>6, <2>2, <3>1 DEF Stage, BudgetOf, Open
    <3>2. CASE result = "rejected"
      BY SMTT(30), <1>3, <1>5, <1>6, <2>2, <2>3, <3>2 DEF Stage, BudgetOf, Open, Gone
    <3>3. CASE result = "outcome_unknown"
      BY SMTT(30), <1>3, <1>5, <1>6, <2>2, <3>3 DEF Stage, BudgetOf, Open
    <3>4. CASE result = "retry"
      BY <1>3, <1>5, <1>6, <2>2, <2>3, <3>4 DEF Stage, BudgetOf, Open
    <3> QED
      BY SMTT(30), <1>0, <1>5, <3>1, <3>2, <3>3, <3>4 DEF Result
  <2>5. \A i, j \in wire'[c.msg] : i = j
    BY <1>5, <2>2 DEF Single
  <2> QED
    BY <1>0, <1>5, <1>6, <1>7, <2>2, <2>4, <2>5, ActedTraced
<1>9. Settling
  BY <1>0, <1>4, <1>5, <1>6 DEF Settling, Open, Result
<1>10. Handled' /\ Owned'
  BY <1>2, <1>7, <1>9, ActsHandled
<1>11. Together' /\ CompletedIsDrained'
  <2>1. worker[w].drained => \A r \in Recipient : ~Open(recipient'[r].state)
    <3>1. worker[w].drained => /\ result # "retry"
                               /\ \A r \in Recipient \ {s} : ~Open(recipient[r].state)
      BY <1>0 DEF RunInv, Whole, Handled
    <3> QED
      BY <1>0, <1>4, <1>5, <1>6, <3>1 DEF Open, Result
  <2> QED
    BY <1>4, <1>9, <2>1, CompletingKeeps DEF RunInv, Whole
<1> QED
  BY <1>4, <1>7, <1>8, <1>10, <1>11, ActsKeeps DEF Whole

-----------------------------------------------------------------------------
(* Recovery, which names no version, and the claim of a batch *)

\* A recovery leaves no orphan open.
LEMMA OpenAfterRecover ==
  ASSUME NEW t, NEW m \in Message,
         attempts' = [n \in Message |-> [i \in DOMAIN attempts[n] |->
           IF i \in Orphans(t, n) THEN [age |-> 0, outcome |-> "outcome_unknown"]
           ELSE attempts[n][i]]]
  PROVE  /\ OpenAttempts(m)' = OpenAttempts(m) \ Orphans(t, m)
         /\ Orphans(t, m) \subseteq OpenAttempts(m)
BY DEF OpenAttempts, Orphans

\* A command with an orphan is its recipient's, which was in flight: the worker
\* that asked has not recorded its answer, and will find the fence gone.
LEMMA RecoverKeeps ==
  ASSUME RunInv, NEW w \in Worker, Recover(w), ~Throws(w)
  PROVE  Whole' /\ AllTraced'
<1> PICK t : t = FirstOf(worker[w].plan)
  OBVIOUS
<1> PICK lost : lost = {m \in Message : Orphans(t, m) # {}}
  OBVIOUS
<1>0. /\ worker \in [Worker -> WorkerRow] /\ recipient \in [Recipient -> RecipientRow]
      /\ message \in [Message -> MessageRow] /\ lost \subseteq Message
  BY DEF RunInv, RunTypeOK, TypeOK
<1>1. /\ message' = [m \in Message |-> IF m \in lost THEN Unknown(t, m) ELSE message[m]]
      /\ attempts' = [m \in Message |-> [i \in DOMAIN attempts[m] |->
           IF i \in Orphans(t, m) THEN [age |-> 0, outcome |-> "outcome_unknown"]
           ELSE attempts[m][i]]]
      /\ outbox' = outbox \ lost
      /\ recipient' = [r \in Recipient |-> IF recipient[r].command \in lost
           THEN Projected(recipient[r], "outcome_unknown") ELSE recipient[r]]
      /\ worker' = [worker EXCEPT ![w].step = "claim"]
      /\ UNCHANGED wire
  <2> DEFINE found == {m \in Message : Orphans(FirstOf(worker[w].plan), m) # {}}
  <2>1. /\ message' = [m \in Message |-> IF m \in found
             THEN Unknown(FirstOf(worker[w].plan), m) ELSE message[m]]
        /\ attempts' = [m \in Message |-> [i \in DOMAIN attempts[m] |->
             IF i \in Orphans(FirstOf(worker[w].plan), m)
             THEN [age |-> 0, outcome |-> "outcome_unknown"]
             ELSE attempts[m][i]]]
        /\ outbox' = outbox \ found
        /\ recipient' = [r \in Recipient |-> IF recipient[r].command \in found
             THEN Projected(recipient[r], "outcome_unknown") ELSE recipient[r]]
        /\ worker' = [worker EXCEPT ![w].step = "claim"]
        /\ UNCHANGED wire
    BY DEF Recover, DeleteRows
  <2>2. found = lost
    OBVIOUS
  <2> HIDE DEF found
  <2> QED
    BY <2>1, <2>2
<1>2. PICK d : FinishIf(d) /\ (d => \A r \in Recipient : ~Open(recipient'[r].state))
  BY DEF Recover, Drained
<1>3. /\ worker[w].claim = NoClaim /\ worker'[w].claim = NoClaim /\ worker'[w].step = "claim"
      /\ \A v \in Worker : v # w => worker'[v] = worker[v]
      /\ \A v \in Worker : /\ worker'[v].todo = worker[v].todo
                           /\ worker'[v].claim = worker[v].claim /\ Held(v)' = Held(v)
  BY <1>0, <1>1 DEF Recover, RunInv, Whole, Handled, WorkerRow, Held
<1>4. \A m \in Message : /\ OpenAttempts(m)' = OpenAttempts(m) \ Orphans(t, m)
                         /\ m \in lost => OpenAttempts(m) # {} /\ Orphans(t, m) # {}
                         /\ Orphans(t, m) \subseteq OpenAttempts(m)
  BY <1>1, OpenAfterRecover
<1>5. \A m \in Message : m \notin lost => message'[m] = message[m] /\ (m \in outbox' <=> m \in outbox)
  BY <1>1
<1>6. ASSUME NEW r \in Recipient
      PROVE  \A m \in CommandsTo(r) : m \in lost => m = recipient[r].command
  <2>1. Traced(r) /\ \A m \in CommandsTo(r) : m \in Message
    BY DEF RunInv, AllTraced, CommandsTo
  <2> QED
    BY <1>4, <2>1 DEF Traced, Gone, Rests
<1>7. ASSUME NEW r \in Recipient, recipient[r].command \notin lost
      PROVE  Untouched(r) /\ recipient'[r] = recipient[r]
  <2>1. \A m \in CommandsTo(r) : m \in Message /\ m \notin lost
    BY <1>6, <1>7 DEF CommandsTo
  <2>2. recipient'[r] = recipient[r]
    BY <1>1, <1>7
  <2>3. \A v \in Worker : \A c \in Held(v)' :
          /\ c \in Held(v)
          /\ worker'[v] = worker[v] \/ (c \in worker[v].todo /\ worker'[v].claim # c)
    BY <1>0, <1>3, ConstantFacts DEF Held, WorkerRow
  <2> QED
    BY <1>1, <1>4, <1>5, <2>1, <2>2, <2>3 DEF Untouched
<1>8. ASSUME NEW r \in Recipient, NEW n, n = recipient[r].command, n \in lost
      PROVE  /\ recipient[r].state = "in_flight"
             /\ recipient'[r].state = "outcome_unknown" /\ recipient'[r].command = n
             /\ recipient'[r].budget = "held_unknown"
             /\ n \in CommandsTo(r) /\ n # 0 /\ OpenAttempts(n)' = {}
  <2>1. n \in Message /\ n # 0 /\ OpenAttempts(n) # {} /\ Orphans(t, n) # {}
    BY <1>0, <1>4, <1>8, ConstantFacts
  <2>2. /\ Traced(r) /\ recipient[r] \in RecipientRow
    BY <1>0 DEF RunInv, AllTraced
  <2>3. recipient[r].state = "in_flight" /\ n \in CommandsTo(r) /\ Single(n)
    BY <1>8, <2>1, <2>2 DEF Traced, Stage
  <2>4. recipient[r].budget = "reserved"
    BY <2>2, <2>3 DEF Traced, BudgetOf, Open
  <2>5. recipient'[r] = Reserve(recipient[r], "outcome_unknown", "held_unknown")
    BY <1>1, <1>8 DEF Projected
  <2>6. OpenAttempts(n)' = {}
    BY <1>4, <2>1, <2>3 DEF Single
  <2> QED
    BY <1>8, <2>1, <2>2, <2>3, <2>4, <2>5, <2>6 DEF Reserve, RecipientRow
<1>9. ASSUME NEW r \in Recipient, recipient[r].command \in lost PROVE Traced(r)'
  <2> PICK n : n = recipient[r].command
    OBVIOUS
  <2>1. /\ recipient[r].state = "in_flight"
        /\ recipient'[r].state = "outcome_unknown" /\ recipient'[r].command = n
        /\ recipient'[r].budget = "held_unknown"
        /\ n \in CommandsTo(r) /\ n # 0 /\ OpenAttempts(n)' = {}
    BY <1>8, <1>9
  <2>2. Traced(r) /\ CommandsTo(r)' = CommandsTo(r) /\ CommandsTo(r) \subseteq Message
    BY DEF RunInv, AllTraced, CommandsTo
  <2>3. \A m \in CommandsTo(r) : Single(m)'
    <3>1. \A m \in CommandsTo(r) : Single(m) /\ OpenAttempts(m)' \subseteq OpenAttempts(m)
      BY <1>4, <2>2 DEF Traced
    <3> QED
      BY <1>1, <1>3, <3>1 DEF Single
  <2>4. \A m \in CommandsTo(r) : m # n => Gone(m)'
    <3>1. \A m \in CommandsTo(r) : m # n => /\ Gone(m) /\ m \notin outbox'
                                            /\ OpenAttempts(m)' \subseteq OpenAttempts(m)
      BY SMTT(30), <1>1, <1>4, <2>2 DEF Traced, Gone
    <3> QED
      BY <1>1, <1>3, <3>1 DEF Gone, Rests
  <2>5. Stage(r)' /\ BudgetOf(recipient'[r])
    BY <1>1, <1>9, <2>1 DEF Stage, BudgetOf, Open
  <2>6. ASSUME NEW v \in Worker, NEW c \in Held(v)', c.msg \in CommandsTo(r)
        PROVE  /\ c.recipient = r
               /\ c \in worker'[v].todo => InBatch(v, c, r)'
               /\ c = worker'[v].claim => OnTheWay(v, r)'
    <3>1. c \in Held(v) /\ c.recipient = r
      BY <1>3, <2>2, <2>6 DEF Traced
    <3>2. c.msg = n /\ OpenAttempts(n) # {}
      BY <1>0, <1>4, <1>9, <3>1, HeldFacts
    <3>3. c \notin worker[v].todo /\ (c = worker[v].claim => OnTheWay(v, r))
      BY <3>1, <3>2, HeldFacts DEF InBatch
    <3>4. c = worker[v].claim /\ c # NoClaim
      BY <3>1, <3>3 DEF Held
    <3>5. worker'[v] = worker[v]
      BY <1>3, <3>4
    <3>6. worker[v].step \in {"send", "record"}
      BY SMTT(30), <3>2, <3>3, <3>4 DEF OnTheWay, RunInv, Whole, Handled
    <3>7. OnTheWay(v, r)'
      BY <1>1, <2>1, <3>3, <3>4, <3>5, <3>6 DEF OnTheWay
    <3> QED
      BY <1>3, <3>1, <3>3, <3>7
  <2> QED
    BY <2>1, <2>2, <2>3, <2>4, <2>5, <2>6 DEF Traced
<1>10. AllTraced'
  BY <1>7, <1>9, UntouchedKeeps DEF AllTraced, RunInv
<1>11. Settling
  BY <1>7, <1>8 DEF Settling, Open
<1>12. Handled'
  <2>1. \A v \in Worker :
          /\ worker'[v].claim # NoClaim =>
               worker'[v].step \in {"send", "record", "project", "finish"}
          /\ \A c \in Held(v)' : c \in Held(v)
          /\ worker'[v].step = "finish" => worker'[v] = worker[v]
    BY <1>3 DEF RunInv, Whole, Handled
  <2> QED
    BY <1>11, <2>1, HandledKept DEF Settling, RunInv, Whole
<1>13. Owned'
  <2>1. \A m \in lost : Created(m)
    BY <1>0, <1>4 DEF OpenAttempts, RunInv, DispatchInv, OnlyCreated
  <2> QED
    BY <1>5, <2>1, OwnedKept DEF RunInv, Whole, Created
<1> QED
  BY <1>2, <1>10, <1>11, <1>12, <1>13, CompletingKeeps DEF RunInv, Whole

\* A command taken is the command of the one recipient that waits for it, or a
\* person's, and nobody had it.
LEMMA TakenFacts ==
  ASSUME RunInv, NEW m \in outbox, Dispatchable(m)
  PROVE  /\ m \in Message /\ m # 0
         /\ m \in Direct => ClaimOf(m).recipient = NoRecipient
         /\ \A r \in Recipient : m \in CommandsTo(r) => recipient[r].command = m
         /\ \A r \in Recipient : recipient[r].command = m =>
              /\ m \in CommandsTo(r) /\ ClaimOf(m).recipient = r
              /\ recipient[r].state = "queued" /\ Traced(r) /\ Rests(m)
<1>1. m \in Message /\ m # 0
  BY ConstantFacts DEF RunInv, RunTypeOK, TypeOK
<1>2. \A r \in Recipient : Traced(r)
  BY DEF RunInv, AllTraced
<1>3. \A r \in Recipient : m \in CommandsTo(r) => recipient[r].command = m
  BY <1>2 DEF Traced, Gone
<1>4. \A r \in Recipient : recipient[r].command = m => m \in CommandsTo(r)
  BY <1>1, <1>2 DEF Traced
<1>5. m \in Direct => ClaimOf(m).recipient = NoRecipient
  <2>1. m \in Direct => RecipientsOf(m) = {}
    BY <1>4 DEF RecipientsOf, CommandsTo
  <2> QED
    BY <2>1 DEF ClaimOf
<1>6. ASSUME NEW r \in Recipient, recipient[r].command = m
      PROVE  /\ m \in CommandsTo(r) /\ ClaimOf(m).recipient = r
             /\ recipient[r].state = "queued" /\ Traced(r) /\ Rests(m)
  <2>1. RecipientsOf(m) = {r}
    BY <1>4, <1>6, Apart DEF RecipientsOf
  <2>2. ClaimOf(m).recipient = r
    BY <2>1 DEF ClaimOf
  <2>3. recipient[r].state = "queued"
    BY <2>1 DEF Dispatchable
  <2>4. Rests(m)
    BY <1>2, <1>6, <2>3 DEF Traced, Stage
  <2> QED
    BY <1>2, <1>4, <1>6, <2>2, <2>3, <2>4
<1> QED
  BY <1>1, <1>3, <1>5, <1>6

\* A committed claim puts its recipients in flight, in one worker's batch.
LEMMA TakeKeeps ==
  ASSUME RunInv, NEW w \in Worker, NEW taken \in SUBSET outbox,
         \A m \in taken : Dispatchable(m), Take(w, taken)
  PROVE  Whole' /\ AllTraced'
<1> DEFINE full == [worker[w] EXCEPT !.todo = {ClaimOf(m) : m \in taken}]
<1>0. /\ worker \in [Worker -> WorkerRow] /\ recipient \in [Recipient -> RecipientRow]
      /\ message \in [Message -> MessageRow] /\ taken \subseteq Message
  BY DEF RunInv, RunTypeOK, TypeOK
<1>1. /\ UNCHANGED <<outbox, attempts, wire, execution, campaign>>
      /\ \A m \in Message : OpenAttempts(m)' = OpenAttempts(m)
  BY DEF Take, OpenAttempts
<1>2. \A m \in Message : IF m \in taken
        THEN /\ message'[m].command = "dispatching"
             /\ message'[m].version = ClaimOf(m).version
        ELSE message'[m] = message[m]
  BY <1>0 DEF Take, MessageRow, ClaimOf
<1>3. /\ worker'[w].claim = NoClaim /\ worker'[w].step \in {"idle", "recover", "prepare"}
      /\ worker'[w].todo \subseteq {ClaimOf(m) : m \in taken}
      /\ \A v \in Worker : v # w => worker'[v] = worker[v]
  <2>1. {ClaimOf(m) : m \in taken} \in SUBSET Claimed
    BY <1>0, ClaimType DEF RunInv, DispatchInv
  <2>2. full \in WorkerRow /\ full.todo = {ClaimOf(m) : m \in taken}
    BY <1>0, <2>1 DEF WorkerRow
  <2>3. worker' = [worker EXCEPT ![w] = Proceed(full)]
    BY DEF Take
  <2> HIDE DEF full
  <2> QED
    BY <1>0, <2>2, <2>3, ProceedType
<1>4. \A d \in Held(w)' : /\ d.msg \in taken /\ d = ClaimOf(d.msg) /\ d \in worker'[w].todo
                          /\ worker'[w].claim # d
  <2>1. \A m \in taken : ClaimOf(m).msg = m /\ ClaimOf(m) # NoClaim
    BY <1>0, ClaimType, ConstantFacts DEF ClaimOf, RunInv, DispatchInv
  <2> QED
    BY <1>3, <2>1 DEF Held
<1>5. \A v \in Worker : v # w => Held(v)' = Held(v)
  BY <1>3 DEF Held
<1>6. ASSUME NEW r \in Recipient, recipient[r].command \notin taken
      PROVE  Untouched(r) /\ recipient'[r] = recipient[r]
  <2>1. \A m \in CommandsTo(r) : m \in Message /\ m \notin taken
    BY <1>6, TakenFacts DEF CommandsTo
  <2>2. recipient'[r] = recipient[r]
    BY <1>6 DEF Take
  <2>3. \A v \in Worker : \A c \in Held(v)' : c.msg \in CommandsTo(r) =>
          c \in Held(v) /\ worker'[v] = worker[v]
    BY <1>3, <1>4, <1>5, <2>1
  <2> QED
    BY <1>1, <1>2, <2>1, <2>2, <2>3 DEF Untouched
<1>7. ASSUME NEW r \in Recipient, NEW n \in taken, recipient[r].command = n
      PROVE  /\ recipient'[r].state = "in_flight" /\ recipient'[r].command = n
             /\ recipient[r].state = "queued" /\ Traced(r)'
  <2>1. /\ n \in CommandsTo(r) /\ n # 0 /\ ClaimOf(n).recipient = r
        /\ recipient[r].state = "queued" /\ Traced(r) /\ Rests(n)
        /\ CommandsTo(r)' = CommandsTo(r) /\ CommandsTo(r) \subseteq Message
    BY <1>7, TakenFacts DEF CommandsTo
  <2>2. /\ recipient'[r].state = "in_flight" /\ recipient'[r].command = n
        /\ recipient'[r].budget = "reserved"
    <3>1. recipient'[r] = [recipient[r] EXCEPT !.state = "in_flight"]
      BY <1>7, <2>1 DEF Take
    <3>2. recipient[r].budget = "reserved"
      BY <2>1 DEF Traced, BudgetOf, Open
    <3> QED
      BY <1>0, <1>7, <3>1, <3>2 DEF RecipientRow
  <2>3. \A m \in CommandsTo(r) : m # n => Gone(m) /\ m \notin taken
    BY <1>7, <2>1 DEF Traced, Gone
  <2>4. \A v \in Worker : \A d \in Held(v)' : d.msg \in CommandsTo(r) =>
          v = w /\ d = ClaimOf(n)
    <3>1. \A v \in Worker : \A d \in Held(v) : d.msg \notin CommandsTo(r)
      BY <2>1, <2>3 DEF Gone, Rests
    <3> QED
      BY <1>4, <1>5, <2>3, <3>1
  <2>5. \A m \in CommandsTo(r) : m # n => Gone(m)'
    <3>1. \A m \in CommandsTo(r) : m # n =>
            \A v \in Worker : \A d \in Held(v)' : d.msg # m
      BY <1>4, <2>3, <2>4
    <3> QED
      BY <1>1, <2>1, <2>3, <3>1 DEF Gone, Rests
  <2>6. \A m \in CommandsTo(r) : Single(m)'
    BY <1>1, <2>1, <2>3, <2>4 DEF Single, Gone, Rests
  <2>7. Stage(r)' /\ BudgetOf(recipient'[r])
    BY <2>1, <2>2 DEF Stage, BudgetOf, Open
  <2>8. ASSUME NEW v \in Worker, NEW d \in Held(v)', d.msg \in CommandsTo(r)
        PROVE  /\ d.recipient = r
               /\ d \in worker'[v].todo => InBatch(v, d, r)'
               /\ d = worker'[v].claim => OnTheWay(v, r)'
    <3>1. v = w /\ d = ClaimOf(n) /\ d.msg = n /\ worker'[w].claim # d
      BY <1>4, <2>4, <2>8 DEF ClaimOf
    <3>2. HoldsFence(d)'
      BY <1>0, <1>2, <3>1 DEF HoldsFence
    <3>3. OpenAttempts(d.msg)' = {} /\ wire'[d.msg] = {}
      BY <1>1, <2>1, <3>1 DEF Rests
    <3> QED
      BY <2>1, <2>2, <3>1, <3>2, <3>3 DEF InBatch
  <2> QED
    BY <2>1, <2>2, <2>5, <2>6, <2>7, <2>8 DEF Traced
<1>8. AllTraced'
  BY <1>6, <1>7, UntouchedKeeps DEF AllTraced, RunInv
<1>9. Settling
  BY <1>6, <1>7 DEF Settling, Open
<1>10. Handled'
  <2>1. \A d \in Held(w)' : d.msg \in Direct => d.recipient = NoRecipient
    BY <1>4, TakenFacts
  <2>2. \A v \in Worker :
          /\ worker'[v].claim # NoClaim =>
               worker'[v].step \in {"send", "record", "project", "finish"}
          /\ \A c \in Held(v)' : c \in Held(v) \/ (c.msg \in Direct => c.recipient = NoRecipient)
          /\ worker'[v].step = "finish" => worker'[v] = worker[v]
    BY <1>3, <1>5, <2>1 DEF RunInv, Whole, Handled
  <2> QED
    BY <1>9, <2>2, HandledKept DEF Settling, RunInv, Whole
<1>11. Owned'
  <2>1. \A m \in taken : Created(m)
    BY <1>0 DEF RunInv, DispatchInv, OutboxHoldsPending, Pending, Created
  <2> QED
    BY <1>2, <2>1, OwnedKept DEF RunInv, Whole, Created
<1> QED
  BY <1>1, <1>8, <1>9, <1>10, <1>11, PhaseKept DEF RunInv, Whole

\* The dispatcher keeps every recipient traced.
LEMMA ServeKeeps ==
  ASSUME RunInv, Serve
  PROVE  Whole' /\ AllTraced'
<1>1. ASSUME NEW w \in Worker, Throws(w) PROVE Whole' /\ AllTraced'
  BY <1>1, AsideOfThrows, AsideWhole
<1>2. ASSUME NEW w \in Worker, Claim(w) PROVE Whole' /\ AllTraced'
  <2>1. PICK taken \in SUBSET Candidates(FirstOf(worker[w].plan), DutyOf[w]) :
          Take(w, taken) \/ Throws(w)
    BY <1>2 DEF Claim
  <2>2. taken \subseteq outbox /\ \A m \in taken : Dispatchable(m)
    BY DEF Candidates, Eligible
  <2> QED
    BY <1>1, <2>1, <2>2, TakeKeeps
<1>3. ASSUME NEW w \in Worker, Prepare(w) PROVE Whole' /\ AllTraced'
  <2>1. PICK c \in worker[w].todo : Skip(w, c) \/ Begin(w, c)
    BY <1>3 DEF Prepare
  <2> QED
    BY <1>1, <1>3, <2>1, SkipKeeps, BeginKeeps DEF Prepare
<1>4. ASSUME NEW w \in Worker, Recover(w) PROVE Whole' /\ AllTraced'
  BY <1>1, <1>4, RecoverKeeps
<1> QED
  BY <1>2, <1>3, <1>4, AsideSteps, SendKeeps, RecordKeeps, ProjectKeeps, FinishKeeps
  DEF Serve, WorkerStep

-----------------------------------------------------------------------------
(* The campaign's handlers *)

\* A recipient all of whose commands rest is traced if its new state is true of
\* the command it names now.
LEMMA FreshTraced ==
  ASSUME NEW r \in Recipient, Traced(r), UNCHANGED <<worker, attempts, wire>>,
         recipient'[r].command \in CommandsTo(r) \cup {0},
         \A m \in CommandsTo(r) :
           Rests(m) /\ (m # recipient'[r].command => m \notin outbox'),
         Stage(r)', BudgetOf(recipient'[r])
  PROVE  Traced(r)'
<1>1. \A w \in Worker : Held(w)' = Held(w)
  BY DEF Held
<1>2. \A m \in CommandsTo(r) : Rests(m)'
  BY <1>1 DEF Rests, OpenAttempts
<1>3. \A m \in CommandsTo(r) : Single(m)'
  BY <1>2 DEF Rests, Single
<1>4. \A w \in Worker : \A c \in Held(w)' : c.msg \notin CommandsTo(r)
  BY <1>2 DEF Rests
<1>5. CommandsTo(r)' = CommandsTo(r)
  BY DEF CommandsTo
<1> QED
  BY <1>2, <1>3, <1>4, <1>5 DEF Traced, Gone

\* A recipient that names no command, or failed for certain, has none under way.
LEMMA AllGone ==
  ASSUME NEW r \in Recipient, Traced(r),
         \/ recipient[r].state \in {"absent", "planned"}
         \/ recipient[r].state = "failed" /\ recipient[r].budget = "released"
  PROVE  /\ \A m \in CommandsTo(r) : Gone(m)
         /\ recipient[r].state \in {"absent", "planned"} => recipient[r].command = 0
<1>1. \A m \in CommandsTo(r) : m \in Message
  BY DEF CommandsTo
<1>2. \A m \in CommandsTo(r) : m # 0
  BY <1>1, ConstantFacts
<1> QED
  BY <1>2 DEF Traced, Stage

\* A step that leaves all but a recipient's own row alone leaves others untouched.
LEMMA RowUntouched ==
  ASSUME NEW r \in Recipient, UNCHANGED <<worker, attempts, wire>>,
         recipient'[r] = recipient[r],
         \A m \in CommandsTo(r) : /\ message'[m].command = message[m].command
                                  /\ message'[m].version = message[m].version
                                  /\ m \in outbox' <=> m \in outbox
  PROVE  Untouched(r)
BY DEF Untouched, OpenAttempts, Held

\* A worker completes a broadcast only with a recipient in flight.
LEMMA NobodyFinishes ==
  ASSUME RunInv, \A r \in Recipient : recipient[r].state # "in_flight", NEW w \in Worker
  PROVE  worker[w].step # "finish"
<1> SUFFICES ASSUME worker[w].step = "finish" PROVE FALSE
  OBVIOUS
<1> PICK c, s : c = worker[w].claim /\ s = c.recipient
  OBVIOUS
<1>1. c \in Claimed /\ s \in Recipient
  BY DEF RunInv, DispatchInv, Typed, InHandOK
<1>2. c \in Held(w)
  BY <1>1, ConstantFacts DEF Held
<1>3. OnTheWay(w, s)
  BY <1>1, <1>2, HeldFacts
<1> QED
  BY <1>1, <1>3 DEF OnTheWay

\* A launch plans recipients that had nothing yet.
LEMMA LaunchKeeps ==
  ASSUME RunInv, NEW to \in {"running", "scheduled"}, Launch(to)
  PROVE  Whole' /\ AllTraced'
<1>1. /\ UNCHANGED <<message, outbox, attempts, wire, worker>>
      /\ \A r \in Recipient : recipient'[r] = [state |-> "planned", command |-> 0,
                                               budget |-> "reserved"]
      /\ execution'.state = to /\ campaign' = to
  BY DEF Launch, dbVars
<1>2. \A r \in Recipient : recipient[r].state = "absent"
  BY DEF Launch, RunInv, Whole, Together
<1>3. ASSUME NEW r \in Recipient PROVE Traced(r)'
  <2>1. Traced(r) /\ \A m \in CommandsTo(r) : Gone(m)
    BY <1>2, AllGone DEF RunInv, AllTraced
  <2>2. Stage(r)' /\ BudgetOf(recipient'[r])
    BY <1>1 DEF Stage, BudgetOf, Open
  <2> QED
    BY <1>1, <2>1, <2>2, FreshTraced DEF Gone
<1>4. Handled'
  <2>1. \A w \in Worker : worker[w].step # "finish"
    BY <1>2, NobodyFinishes
  <2> QED
    BY <1>1, <2>1 DEF RunInv, Whole, Handled, Held
<1>5. Owned'
  BY <1>1, OwnedKept DEF RunInv, Whole, Created
<1>6. Together' /\ CompletedIsDrained'
  BY <1>1 DEF Together, CompletedIsDrained
<1> QED
  BY <1>3, <1>4, <1>5, <1>6 DEF AllTraced, Whole

\* A new command of a recipient with nothing under way is scheduled.
LEMMA MadeTraced ==
  ASSUME RunInv, NEW chosen \in SUBSET Recipient, NEW rows, NEW stop,
         Made(chosen, rows, stop), UNCHANGED <<worker, attempts, wire>>,
         NEW r \in chosen, rows[r] \in RecipientRow, rows[r].budget = "reserved",
         \A m \in CommandsTo(r) : Gone(m)
  PROVE  recipient'[r].state = "queued" /\ Traced(r)'
<1> PICK n : n = CommandFor(r)
  OBVIOUS
<1>1. /\ recipient'[r] = [rows[r] EXCEPT !.state = "queued", !.command = n]
      /\ n \in CommandsTo(r) /\ n \in NewOf(chosen)
      /\ \A m \in CommandsTo(r) : m \in NewOf(chosen) => m = n
      /\ outbox' = outbox \cup NewOf(chosen)
      /\ message' = [m \in Message |-> IF m \in NewOf(chosen)
           THEN [message[m] EXCEPT !.command = "queued", !.stop = stop] ELSE message[m]]
  BY DEF Made, Schedule
<1>2. /\ recipient'[r].state = "queued" /\ recipient'[r].command = n
      /\ recipient'[r].budget = "reserved"
  BY <1>1 DEF RecipientRow
<1>3. n \in Message /\ n # 0 /\ message[n] \in MessageRow
  BY <1>1, ConstantFacts DEF CommandsTo, RunInv, RunTypeOK, TypeOK
<1>4. message'[n].command = "queued" /\ n \in outbox'
  BY <1>1, <1>3 DEF MessageRow
<1>5. Rests(n)' /\ OpenAttempts(n)' = {}
  <2>1. Rests(n) /\ OpenAttempts(n) = {}
    BY <1>1 DEF Gone, Rests
  <2>2. /\ OpenAttempts(n)' = OpenAttempts(n) /\ wire'[n] = wire[n]
        /\ \A w \in Worker : Held(w)' = Held(w)
    BY DEF OpenAttempts, Held
  <2> QED
    BY <2>1, <2>2 DEF Rests
<1>6. Stage(r)' /\ BudgetOf(recipient'[r])
  BY <1>2, <1>3, <1>4, <1>5 DEF Stage, BudgetOf, Open
<1>7. \A m \in CommandsTo(r) : Rests(m) /\ (m # n => m \notin outbox')
  BY <1>1 DEF Gone
<1> QED
  BY <1>1, <1>2, <1>6, <1>7, FreshTraced DEF RunInv, AllTraced

\* The recipients a handler passes over get the row it meant for them and keep
\* their commands.
Elsewhere(chosen, rows) == \A r \in Recipient \ chosen :
  /\ recipient'[r] = rows[r]
  /\ \A m \in CommandsTo(r) : message'[m] = message[m] /\ (m \in outbox' <=> m \in outbox)

LEMMA MadeElsewhere ==
  ASSUME NEW chosen \in SUBSET Recipient, NEW rows, NEW stop, Made(chosen, rows, stop)
  PROVE  Elsewhere(chosen, rows)
BY DEF Made, Schedule, CommandsTo, Elsewhere

\* What is made is made for a recipient.
LEMMA MadeOwned ==
  ASSUME RunInv, NEW chosen \in SUBSET Recipient, NEW rows, NEW stop, Made(chosen, rows, stop)
  PROVE  Owned'
<1>1. \A m \in NewOf(chosen) : \E r \in Recipient : m \in CommandsTo(r)
  BY DEF Made, NewOf
<1>2. \A m \in Message : m \notin NewOf(chosen) => message'[m] = message[m]
  BY DEF Made
<1> QED
  BY <1>1, <1>2, OwnedKept DEF RunInv, Whole, Created

\* A plan queues planned recipients, or skips them.
LEMMA PlanKeeps ==
  ASSUME RunInv, Plan
  PROVE  Whole' /\ AllTraced'
<1>0. /\ worker \in [Worker -> WorkerRow] /\ recipient \in [Recipient -> RecipientRow]
      /\ execution \in [state: {"absent"} \cup CampaignState, stop: Nat]
  BY DEF RunInv, RunTypeOK, TypeOK
<1>1. PICK batch \in SUBSET Planned :
        Command(batch \ Unsendable,
                [r \in Recipient |-> IF r \in batch \cap Unsendable
                   THEN Reserve(recipient[r], "skipped", "released") ELSE recipient[r]],
                execution.stop)
  BY DEF Plan
<1> PICK chosen, rows, stop :
      /\ chosen = batch \ Unsendable /\ stop = execution.stop
      /\ rows = [r \in Recipient |-> IF r \in batch \cap Unsendable
                   THEN Reserve(recipient[r], "skipped", "released") ELSE recipient[r]]
  OBVIOUS
<1>2. chosen \in SUBSET Recipient /\ \A r \in batch : r \in Recipient /\ recipient[r].state = "planned"
  BY DEF Planned
<1>3. Made(chosen, rows, stop) /\ Elsewhere(chosen, rows)
  BY <1>1, <1>2, CommandParts, MadeElsewhere
<1>4. UNCHANGED <<worker, attempts, wire>>
  BY DEF Plan
<1>5. \A r \in Recipient : Traced(r)
  BY DEF RunInv, AllTraced
<1>6. ASSUME NEW r \in batch
      PROVE  /\ recipient[r].budget = "reserved" /\ recipient[r].command = 0
             /\ \A m \in CommandsTo(r) : Gone(m)
  <2>1. recipient[r].budget = "reserved"
    BY <1>2, <1>5 DEF Traced, BudgetOf, Open
  <2> QED
    BY <1>2, <1>5, <2>1, AllGone
<1>7. ASSUME NEW r \in chosen PROVE recipient'[r].state = "queued" /\ Traced(r)'
  <2>1. rows[r] = recipient[r] /\ r \in batch /\ recipient[r] \in RecipientRow
    BY <1>0, <1>2
  <2> QED
    BY <1>2, <1>3, <1>4, <1>6, <2>1, MadeTraced
<1>8. ASSUME NEW r \in batch, r \notin chosen PROVE recipient'[r].state = "skipped" /\ Traced(r)'
  <2>0. /\ r \in Recipient /\ r \in batch \cap Unsendable
        /\ rows[r] = Reserve(recipient[r], "skipped", "released")
    BY <1>2, <1>8
  <2>1. /\ recipient'[r] = Reserve(recipient[r], "skipped", "released")
        /\ recipient[r] \in RecipientRow
    <3>1. recipient'[r] = rows[r]
      BY <1>3, <1>8, <2>0 DEF Elsewhere
    <3>2. recipient[r] \in RecipientRow
      BY <1>0, <2>0
    <3> QED
      BY <2>0, <3>1, <3>2
  <2>2. recipient'[r].state = "skipped" /\ recipient'[r].command = 0
        /\ recipient'[r].budget = "released"
    BY <1>6, <2>1 DEF Reserve, RecipientRow
  <2>3. Stage(r)' /\ BudgetOf(recipient'[r])
    BY <2>2 DEF Stage, BudgetOf, Open
  <2>4. \A m \in CommandsTo(r) : Rests(m) /\ m \notin outbox'
    <3>1. \A m \in CommandsTo(r) : m \in outbox' <=> m \in outbox
      BY <1>3, <1>8, <2>0 DEF Elsewhere
    <3>2. \A m \in CommandsTo(r) : Gone(m)
      BY <1>6
    <3> QED
      BY <3>1, <3>2 DEF Gone
  <2> QED
    BY <1>2, <1>4, <1>5, <2>2, <2>3, <2>4, FreshTraced
<1>9. ASSUME NEW r \in Recipient, r \notin batch PROVE recipient'[r] = recipient[r] /\ Untouched(r)
  <2>1. r \notin chosen /\ rows[r] = recipient[r]
    BY <1>9
  <2>2. recipient'[r] = rows[r]
    BY <1>3, <1>9, <2>1 DEF Elsewhere
  <2>3. \A m \in CommandsTo(r) : message'[m] = message[m] /\ (m \in outbox' <=> m \in outbox)
    BY <1>3, <1>9, <2>1 DEF Elsewhere
  <2> QED
    BY <1>4, <1>9, <2>1, <2>2, <2>3, RowUntouched
<1>10. AllTraced'
  BY <1>5, <1>7, <1>8, <1>9, UntouchedKeeps DEF AllTraced
<1>11. Settling
  BY <1>2, <1>7, <1>8, <1>9 DEF Settling, Open
<1>12. Handled'
  BY <1>4, <1>11, HandledKept DEF RunInv, Whole, Settling, Handled, Held
<1>13. Owned'
  BY <1>2, <1>3, MadeOwned
<1>14. Together' /\ CompletedIsDrained'
  <2>1. execution.state \in {"scheduled", "running"} /\ campaign = execution.state
    BY DEF Plan, Runnable, RunInv, Whole, Together
  <2>2. execution'.state = "running" /\ campaign' = "running"
    BY <1>0, <2>1 DEF Plan
  <2> QED
    BY <1>11, <2>1, <2>2 DEF Together, CompletedIsDrained, Settling, RunInv, Whole
<1> QED
  BY <1>10, <1>12, <1>13, <1>14 DEF Whole

\* Retried recipients failed for certain: nothing of them is under way.
LEMMA RetryKeeps ==
  ASSUME RunInv, RetryFailures
  PROVE  Whole' /\ AllTraced'
<1>0. /\ recipient \in [Recipient -> RecipientRow]
      /\ execution \in [state: {"absent"} \cup CampaignState, stop: Nat]
  BY DEF RunInv, RunTypeOK, TypeOK
<1> PICK failed, rows, stop :
      /\ failed = {r \in Recipient : recipient[r].state = "failed"}
      /\ rows = [r \in Recipient |-> IF r \in failed
                   THEN [recipient[r] EXCEPT !.budget = "reserved"] ELSE recipient[r]]
      /\ stop = execution'.stop
  OBVIOUS
<1>1. /\ Command(failed, rows, stop) /\ failed \in SUBSET Recipient
      /\ \A r \in failed : recipient[r].budget = "released"
      /\ Turn("running") /\ campaign = "dispatch_completed"
      /\ execution.state = "dispatch_completed"
  <2> DEFINE them == {r \in Recipient : recipient[r].state = "failed"}
  <2>1. /\ Command(them, [r \in Recipient |-> IF r \in them
                     THEN [recipient[r] EXCEPT !.budget = "reserved"] ELSE recipient[r]],
                   execution'.stop)
        /\ \A r \in them : recipient[r].budget = "released"
        /\ Turn("running") /\ campaign = "dispatch_completed"
        /\ execution.state = "dispatch_completed"
    BY DEF RetryFailures
  <2>2. failed = them
    OBVIOUS
  <2> HIDE DEF them
  <2> QED
    BY <2>1, <2>2
<1>2. Made(failed, rows, stop) /\ Elsewhere(failed, rows)
  BY <1>1, CommandParts, MadeElsewhere
<1>3. UNCHANGED <<worker, attempts, wire>>
  BY <1>1 DEF RetryFailures, Turn
<1>4. ASSUME NEW r \in failed PROVE recipient'[r].state = "queued" /\ Traced(r)'
  <2>1. rows[r] \in RecipientRow /\ rows[r].budget = "reserved"
    BY <1>0 DEF RecipientRow, BudgetState
  <2>2. \A m \in CommandsTo(r) : Gone(m)
    BY <1>1, AllGone DEF RunInv, AllTraced
  <2> QED
    BY <1>1, <1>2, <1>3, <2>1, <2>2, MadeTraced
<1>5. ASSUME NEW r \in Recipient, r \notin failed
      PROVE  recipient'[r] = recipient[r] /\ Untouched(r)
  <2>1. rows[r] = recipient[r] /\ failed \in SUBSET Recipient
    BY <1>1, <1>5
  <2>2. recipient'[r] = recipient[r]
    BY <1>2, <1>5, <2>1 DEF Elsewhere
  <2>3. \A m \in CommandsTo(r) : message'[m] = message[m] /\ (m \in outbox' <=> m \in outbox)
    BY <1>2, <1>5, <2>1 DEF Elsewhere
  <2> QED
    BY <1>3, <1>5, <2>2, <2>3, RowUntouched
<1>6. AllTraced'
  BY <1>4, <1>5, UntouchedKeeps DEF AllTraced, RunInv
<1>7. Handled'
  <2>1. \A w \in Worker : worker[w].step # "finish"
    BY <1>1, NobodyFinishes DEF RunInv, Whole, CompletedIsDrained, Open
  <2> QED
    BY <1>3, <2>1 DEF RunInv, Whole, Handled, Held
<1>8. Owned'
  BY <1>1, <1>2, MadeOwned
<1>9. Together' /\ CompletedIsDrained'
  BY <1>1, <1>4, <1>5, TurnKeeps DEF RunInv, Whole
<1> QED
  BY <1>6, <1>7, <1>8, <1>9 DEF Whole

\* What a cancellation writes to the commands of waiting recipients.
CancelledOf == {recipient[r].command :
                  r \in {s \in Recipient : recipient[s].state \in {"planned", "queued"}}} \ {0}

LEMMA CancelFacts ==
  ASSUME RunInv, Cancel
  PROVE  /\ \A m \in CancelledOf : /\ m \in Message /\ m \in outbox
                                   /\ message[m].command \in {"queued", "retry_scheduled"}
         /\ message' = [m \in Message |-> IF m \in CancelledOf
              THEN Settled(m, "cancelled", 0) ELSE message[m]]
         /\ DeleteRows(CancelledOf)
         /\ \A r \in Recipient : recipient[r].state \notin {"planned", "queued"} =>
              CommandsTo(r) \cap CancelledOf = {}
<1>1. \A r \in Recipient : Traced(r)
  BY DEF RunInv, AllTraced
<1>2. \A r \in Recipient : recipient[r].state \in {"planned", "queued"} =>
        \/ recipient[r].command = 0
        \/ /\ recipient[r].command \in CommandsTo(r) /\ recipient[r].command \in outbox
           /\ message[recipient[r].command].command \in {"queued", "retry_scheduled"}
  BY <1>1 DEF Traced, Stage
<1>3. \A m \in CancelledOf : /\ m \in Message /\ m \in outbox /\ Waiting(m)
                             /\ message[m].command \in {"queued", "retry_scheduled"}
  BY <1>2 DEF CancelledOf, CommandsTo, Waiting
<1>4. ASSUME NEW r \in Recipient, recipient[r].state \notin {"planned", "queued"}
      PROVE  CommandsTo(r) \cap CancelledOf = {}
  BY <1>2, <1>4, Apart DEF CancelledOf
<1>5. /\ message' = [m \in Message |-> IF m \in CancelledOf /\ Waiting(m)
           THEN Settled(m, "cancelled", 0) ELSE message[m]]
      /\ DeleteRows(CancelledOf)
  BY DEF Cancel, CancelledOf
<1> QED
  BY <1>3, <1>4, <1>5

\* A cancellation ends the commands that wait, and gives the money back.
LEMMA CancelKeeps ==
  ASSUME RunInv, Cancel
  PROVE  Whole' /\ AllTraced'
<1>0. recipient \in [Recipient -> RecipientRow] /\ message \in [Message -> MessageRow]
  BY DEF RunInv, RunTypeOK, TypeOK
<1>1. /\ \A r \in Recipient : recipient'[r] =
           IF recipient[r].state \in {"planned", "queued"}
           THEN Reserve(recipient[r], "cancelled", "released") ELSE recipient[r]
      /\ Turn("cancelled") /\ campaign # "ready"
  BY DEF Cancel
<1>2. UNCHANGED <<worker, attempts, wire>>
  BY <1>1 DEF Cancel, Turn
<1>3. /\ \A m \in CancelledOf : Created(m)
      /\ \A m \in Message : m \notin CancelledOf =>
           message'[m] = message[m] /\ (m \in outbox' <=> m \in outbox)
      /\ \A m \in outbox' : m \in outbox /\ m \notin CancelledOf
  BY CancelFacts DEF DeleteRows, Created
<1>4. ASSUME NEW r \in Recipient, recipient[r].state \in {"planned", "queued"}
      PROVE  recipient'[r].state = "cancelled" /\ Traced(r)'
  <2>1. Traced(r) /\ recipient[r] \in RecipientRow /\ recipient[r].budget = "reserved"
    BY <1>0, <1>4 DEF RunInv, AllTraced, Traced, BudgetOf, Open
  <2>2. /\ recipient'[r].state = "cancelled" /\ recipient'[r].budget = "released"
        /\ recipient'[r].command = recipient[r].command
    BY <1>1, <1>4, <2>1 DEF Reserve, RecipientRow
  <2>3. \A m \in CommandsTo(r) : Rests(m) /\ (m # recipient[r].command => m \notin outbox')
    BY <1>3, <1>4, <2>1, AllGone DEF Traced, Stage, Gone
  <2>4. recipient[r].command \in CommandsTo(r) \cup {0}
    BY <2>1 DEF Traced
  <2>5. Stage(r)' /\ BudgetOf(recipient'[r])
    <3>1. recipient[r].command # 0 => OpenAttempts(recipient[r].command)' = {}
      <4> SUFFICES ASSUME recipient[r].command # 0
                   PROVE  OpenAttempts(recipient[r].command)' = {}
        OBVIOUS
      <4> PICK n : n = recipient[r].command
        OBVIOUS
      <4>1. OpenAttempts(n) = {} /\ UNCHANGED <<OpenAttempts(n)>>
        BY <1>2, <2>3, <2>4 DEF Rests, OpenAttempts
      <4> QED
        BY <2>2, <4>1
    <3> QED
      BY <2>2, <3>1 DEF Stage, BudgetOf, Open
  <2> QED
    BY <1>2, <2>1, <2>2, <2>3, <2>4, <2>5, FreshTraced
<1>5. ASSUME NEW r \in Recipient, recipient[r].state \notin {"planned", "queued"}
      PROVE  recipient'[r] = recipient[r] /\ Untouched(r)
  <2>1. \A m \in CommandsTo(r) : m \in Message /\ m \notin CancelledOf
    BY <1>5, CancelFacts DEF CommandsTo
  <2> QED
    BY <1>1, <1>2, <1>3, <1>5, <2>1, RowUntouched
<1>6. AllTraced'
  BY <1>4, <1>5, UntouchedKeeps DEF AllTraced, RunInv
<1>7. Settling
  BY <1>4, <1>5 DEF Settling, Open
<1>8. Handled'
  BY <1>2, <1>7, HandledKept DEF RunInv, Whole, Settling, Handled, Held
<1>9. Owned'
  BY <1>3, OwnedKept DEF RunInv, Whole, Created
<1>10. Together' /\ CompletedIsDrained'
  BY <1>1, <1>7, TurnKeeps DEF RunInv, Whole, Settling
<1> QED
  BY <1>6, <1>8, <1>9, <1>10 DEF Whole

\* A receipt moves recipients whose command is over.
LEMMA ReceiveKeeps ==
  ASSUME RunInv, NEW n \in Message, NEW says \in {"failed", "delivered", "read"}, Receive(n, says)
  PROVE  Whole' /\ AllTraced'
<1>0. recipient \in [Recipient -> RecipientRow]
  BY DEF RunInv, RunTypeOK, TypeOK
<1>1. /\ UNCHANGED <<message, outbox, attempts, wire, worker, execution, campaign>>
      /\ \A r \in Recipient : recipient'[r] = IF recipient[r].command = n
           THEN [recipient[r] EXCEPT !.state = settleRecipient(recipient[r].state, says)]
           ELSE recipient[r]
      /\ message[n].command = "provider_accepted"
  BY DEF Receive, dbVars, RecipientsOf
<1>2. ASSUME NEW r \in Recipient
      PROVE  /\ Traced(r)'
             /\ recipient'[r].state # recipient[r].state =>
                  /\ ~Open(recipient'[r].state) /\ recipient'[r].state # "absent"
                  /\ recipient[r].state # "absent"
  <2>1. Traced(r) /\ recipient[r] \in RecipientRow
    BY <1>0 DEF RunInv, AllTraced
  <2>2. CASE recipient'[r] = recipient[r]
    BY <1>1, <2>1, <2>2, RowUntouched, UntouchedKeeps
  <2>3. CASE recipient'[r] # recipient[r]
    <3>1. /\ recipient[r].command = n
          /\ recipient'[r] = [recipient[r] EXCEPT
                                !.state = settleRecipient(recipient[r].state, says)]
          /\ recipient[r].state \in {"accepted", "failed", "delivered"}
      BY <1>1, <2>1, <2>3 DEF settleRecipient, RecipientRow
    <3>2. recipient[r].budget = "committed"
      BY <1>1, <2>1, <3>1 DEF Traced, Stage, BudgetOf, Open
    <3>3. /\ recipient'[r].command = n /\ recipient'[r].budget = "committed"
          /\ recipient'[r].state \in {"failed", "delivered", "read"}
      BY <2>1, <3>1, <3>2 DEF settleRecipient, RecipientRow
    <3>4. n # 0 /\ OpenAttempts(n) = {}
      BY <2>1, <3>1, ConstantFacts DEF Traced, Stage
    <3>5. UNCHANGED <<OpenAttempts(n)>>
      BY <1>1 DEF OpenAttempts
    <3>6. Stage(r)' /\ BudgetOf(recipient'[r])
      BY <3>3, <3>4, <3>5 DEF Stage, BudgetOf, Open
    <3>7. \A w \in Worker : \A c \in Held(w) : c.msg \notin CommandsTo(r)
      <4> SUFFICES ASSUME NEW w \in Worker, NEW c \in Held(w), c.msg \in CommandsTo(r)
                   PROVE  FALSE
        OBVIOUS
      <4>1. /\ c \in worker[w].todo => InBatch(w, c, r)
            /\ c = worker[w].claim => OnTheWay(w, r)
        BY <2>1 DEF Traced
      <4>2. c = worker[w].claim /\ c # NoClaim
        BY <3>1, <4>1 DEF InBatch, Held
      <4>3. worker[w].step \in {"send", "record", "project", "finish"}
        BY <4>2 DEF RunInv, Whole, Handled
      <4> QED
        BY <3>1, <4>1, <4>2, <4>3 DEF OnTheWay
    <3>8. /\ \A w \in Worker : Held(w)' = Held(w)
          /\ CommandsTo(r)' = CommandsTo(r) /\ CommandsTo(r) \subseteq Message
          /\ \A m \in CommandsTo(r) : OpenAttempts(m)' = OpenAttempts(m)
      BY <1>1 DEF Held, CommandsTo, OpenAttempts
    <3>9. \A m \in CommandsTo(r) : Single(m)' /\ (m # n => Gone(m)')
      BY <1>1, <2>1, <3>1, <3>8 DEF Traced, Single, Gone, Rests
    <3>10. Traced(r)'
      BY <2>1, <3>1, <3>3, <3>6, <3>7, <3>8, <3>9 DEF Traced
    <3> QED
      BY <3>1, <3>3, <3>10 DEF Open
  <2> QED
    BY <2>2, <2>3
<1>3. Settling
  BY <1>2 DEF Settling
<1>4. Handled'
  BY <1>1, <1>3, HandledKept DEF RunInv, Whole, Settling, Handled, Held
<1>5. Owned'
  BY <1>1, OwnedKept DEF RunInv, Whole, Created
<1> QED
  BY <1>1, <1>2, <1>3, <1>4, <1>5, PhaseKept DEF AllTraced, RunInv, Whole

-----------------------------------------------------------------------------
(* The invariant is inductive *)

\* A resumption gives waiting commands the new version, and nothing else.
LEMMA ResumeHandler ==
  ASSUME RunInv, Resume
  PROVE  DispatchInv' /\ Promised /\ NoneAccepted
<1>1. /\ execution' \in [state: {"absent"} \cup CampaignState, stop: Nat]
      /\ execution'.stop \in Nat /\ campaign' \in CampaignState
      /\ UNCHANGED <<wire, worker, environmentVars, crashes>>
      /\ UNCHANGED <<outbox, row, earlier, attempts, recipient>>
  BY TurnTypes DEF Resume, Turn, RunInv, RunTypeOK, CampaignState
<1>2. message \in [Message -> MessageRow]
  BY DEF RunInv, RunTypeOK, TypeOK
<1>3. message' \in [Message -> MessageRow]
  BY <1>1, <1>2 DEF Resume, MessageRow
<1>4. \A m \in Message : /\ message'[m].command = message[m].command
                         /\ message'[m].version = message[m].version
                         /\ message'[m].provider = message[m].provider
  BY <1>2 DEF Resume, MessageRow
<1>5. Typed'
  BY <1>1, <1>3 DEF RunInv, RunTypeOK, DispatchInv, Typed, TypeOK, InHandOK, environmentVars
<1>6. \A m \in Message : Effect(m)
  BY <1>1, <1>4 DEF Effect, Kept
<1> QED
  BY <1>1, <1>4, <1>5, <1>6, QuietHandler DEF RunInv, Quiet

\* A cancellation closes the commands that wait, and they have no provider id.
LEMMA CancelHandler ==
  ASSUME RunInv, Cancel
  PROVE  DispatchInv' /\ Promised /\ NoneAccepted
<1>0. TypeOK /\ message \in [Message -> MessageRow] /\ Turn("cancelled")
  BY DEF RunInv, RunTypeOK, TypeOK, Cancel
<1>1. /\ execution' \in [state: {"absent"} \cup CampaignState, stop: Nat]
      /\ campaign' \in CampaignState
      /\ UNCHANGED <<wire, worker, environmentVars, crashes, attempts>>
  BY <1>0, TurnTypes DEF Cancel, Turn, CampaignState
<1>2. recipient' \in [Recipient -> RecipientRow]
  <2>1. \A r \in Recipient : Reserve(recipient[r], "cancelled", "released") \in RecipientRow
    BY <1>0, ReserveType DEF TypeOK, RecipientState, BudgetState
  <2> QED
    BY <1>0, <2>1 DEF Cancel, TypeOK
<1>3. /\ \A m \in CancelledOf : /\ m \in Message /\ m \in outbox
                                /\ message[m].command \in {"queued", "retry_scheduled"}
      /\ message' = [m \in Message |-> IF m \in CancelledOf
           THEN Settled(m, "cancelled", 0) ELSE message[m]]
      /\ DeleteRows(CancelledOf)
  BY CancelFacts
<1>4. \A m \in Message :
        /\ Settled(m, "cancelled", 0) \in MessageRow
        /\ Settled(m, "cancelled", 0).command = "cancelled"
        /\ Settled(m, "cancelled", 0).version > message[m].version
        /\ Settled(m, "cancelled", 0).provider = message[m].provider
  BY <1>0, SettledParts DEF CommandState, Decided
<1>5. Typed'
  <2>1. message' \in [Message -> MessageRow]
    BY <1>0, <1>3, <1>4
  <2>2. /\ outbox' \subseteq Message /\ row' \in [Message -> OutboxRow]
        /\ earlier' \in [Message -> SUBSET Message]
    BY <1>0, <1>3, DeleteType
  <2> QED
    BY <1>1, <1>2, <2>1, <2>2
    DEF RunInv, RunTypeOK, DispatchInv, Typed, TypeOK, InHandOK, environmentVars
<1>6. ASSUME NEW m \in Message PROVE Effect(m)
  <2>1. CASE m \in CancelledOf
    <3>1. message'[m] = Settled(m, "cancelled", 0) /\ m \notin outbox'
      BY <1>3, <2>1 DEF DeleteRows
    <3>2. AcceptedCheck(message[m])
      BY DEF RunInv, DispatchInv, Consistent
    <3>3. AcceptedCheck(message'[m])
      BY <1>3, <1>4, <2>1, <3>1, <3>2 DEF AcceptedCheck
    <3> QED
      BY <1>3, <1>4, <2>1, <3>1, <3>3 DEF Effect, Closed, Decided
  <2>2. CASE m \notin CancelledOf
    BY <1>3, <2>2 DEF Effect, Kept, DeleteRows
  <2> QED
    BY <2>1, <2>2
<1>7. Quiet
  BY <1>3, <1>4 DEF Quiet
<1> QED
  BY <1>1, <1>5, <1>6, <1>7, QuietHandler DEF RunInv

\* The planner and the retry make commands; the other handlers make none.
LEMMA PlannerHandler ==
  ASSUME RunInv, Plan \/ RetryFailures
  PROVE  DispatchInv' /\ Promised /\ NoneAccepted
<1>0. /\ TypeOK /\ recipient \in [Recipient -> RecipientRow]
      /\ execution \in [state: {"absent"} \cup CampaignState, stop: Nat]
      /\ campaign \in CampaignState
  BY DEF RunInv, RunTypeOK, TypeOK
<1>1. CASE Plan
  <2>1. PICK batch \in SUBSET Planned :
          Command(batch \ Unsendable,
                  [r \in Recipient |-> IF r \in batch \cap Unsendable
                     THEN Reserve(recipient[r], "skipped", "released") ELSE recipient[r]],
                  execution.stop)
    BY <1>1 DEF Plan
  <2>2. \A r \in Recipient : Reserve(recipient[r], "skipped", "released") \in RecipientRow
    BY <1>0, ReserveType DEF RecipientState, BudgetState
  <2>3. [r \in Recipient |-> IF r \in batch \cap Unsendable
           THEN Reserve(recipient[r], "skipped", "released") ELSE recipient[r]]
          \in [Recipient -> RecipientRow]
    BY <1>0, <2>2
  <2>4. /\ execution' \in [state: {"absent"} \cup CampaignState, stop: Nat]
        /\ campaign' \in CampaignState
    BY <1>0, <1>1 DEF Plan, CampaignState
  <2>5. /\ UNCHANGED <<attempts, wire, worker, environmentVars, crashes>>
        /\ batch \ Unsendable \in SUBSET Recipient /\ execution.stop \in Nat
    BY <1>0, <1>1 DEF Plan, Planned
  <2> QED
    BY <2>1, <2>3, <2>4, <2>5, CommandKeeps DEF RunInv
<1>2. CASE RetryFailures
  <2> DEFINE failed == {r \in Recipient : recipient[r].state = "failed"}
             rows == [r \in Recipient |-> IF r \in failed
                        THEN [recipient[r] EXCEPT !.budget = "reserved"] ELSE recipient[r]]
  <2>1. Command(failed, rows, execution'.stop) /\ Turn("running") /\ UNCHANGED attempts
    BY <1>2 DEF RetryFailures
  <2>2. rows \in [Recipient -> RecipientRow] /\ failed \in SUBSET Recipient
    BY <1>0 DEF RecipientRow, BudgetState
  <2> HIDE DEF failed, rows
  <2>3. /\ execution' \in [state: {"absent"} \cup CampaignState, stop: Nat]
        /\ execution'.stop \in Nat /\ campaign' \in CampaignState
    BY <1>0, <2>1, TurnTypes DEF CampaignState
  <2>4. UNCHANGED <<attempts, wire, worker, environmentVars, crashes>>
    BY <2>1 DEF Turn
  <2> QED
    BY <2>1, <2>2, <2>3, <2>4, CommandKeeps DEF RunInv
<1> QED
  BY <1>1, <1>2

\* Launch, pause and receipts touch no command at all.
LEMMA RowsHandler ==
  ASSUME RunInv,
         \/ \E to \in {"running", "scheduled"} : Launch(to)
         \/ Pause \/ BecomesDue \/ Withdraw
         \/ \E m \in Message, says \in {"failed", "delivered", "read"} : Receive(m, says)
  PROVE  DispatchInv' /\ Promised /\ NoneAccepted
<1>0. /\ TypeOK /\ recipient \in [Recipient -> RecipientRow]
      /\ execution \in [state: {"absent"} \cup CampaignState, stop: Nat]
      /\ campaign \in CampaignState
  BY DEF RunInv, RunTypeOK, TypeOK
<1>1. UNCHANGED <<dbVars, wire, worker, environmentVars, crashes>>
  BY DEF Launch, Pause, Turn, BecomesDue, Withdraw, Receive, vars
<1>2. recipient' \in [Recipient -> RecipientRow]
  <2>1. CASE \E to \in {"running", "scheduled"} : Launch(to)
    BY <2>1 DEF Launch, RecipientRow, RecipientState, BudgetState
  <2>2. ASSUME NEW m \in Message, NEW says \in {"failed", "delivered", "read"}, Receive(m, says)
        PROVE  recipient' \in [Recipient -> RecipientRow]
    <3>1. \A r \in Recipient : settleRecipient(recipient[r].state, says) \in RecipientState
      BY <1>0 DEF settleRecipient, RecipientRow, RecipientState
    <3>2. \A r \in Recipient :
            [recipient[r] EXCEPT !.state = settleRecipient(recipient[r].state, says)]
              \in RecipientRow
      BY <1>0, <3>1 DEF RecipientRow
    <3> QED
      BY <1>0, <2>2, <3>2 DEF Receive
  <2> QED
    BY <1>0, <2>1, <2>2 DEF Pause, BecomesDue, Withdraw, vars, campaignVars
<1>3. /\ execution' \in [state: {"absent"} \cup CampaignState, stop: Nat]
      /\ campaign' \in CampaignState
  <2>1. CASE Pause
    BY <1>0, <2>1, TurnTypes DEF Pause, CampaignState
  <2> QED
    BY <1>0, <2>1 DEF Launch, BecomesDue, Withdraw, Receive, vars, campaignVars, CampaignState
<1> QED
  BY <1>1, <1>2, <1>3, RowsOnly DEF RunInv

\* Every step of a run keeps the dispatcher's promise, makes no command accepted
\* but by an answer, and keeps the dispatcher's invariant.
LEMMA RunDispatch ==
  ASSUME RunInv, RunNext
  PROVE  /\ DispatchInv' /\ Promised
         /\ [Next]_vars \/ (NoneAccepted /\ UNCHANGED <<worker, attempts, wire>>)
<1>1. CASE Serve
  <2>1. [Next]_vars
    BY <1>1 DEF Next
  <2> QED
    BY <2>1, InvNext, PromiseStep DEF RunInv, Promised
<1>2. CASE ~Serve
  <2>1. DispatchInv' /\ Promised /\ NoneAccepted
    BY <1>2, ResumeHandler, CancelHandler, PlannerHandler, RowsHandler DEF RunNext, Operator
  <2>2. UNCHANGED <<worker, attempts, wire>>
    BY <1>2 DEF RunNext, Operator, Launch, Pause, Resume, Cancel, RetryFailures, Turn,
       BecomesDue, Withdraw, Plan, Receive, vars, dbVars
  <2> QED
    BY <2>1, <2>2
<1> QED
  BY <1>1, <1>2

\* The queue row keeps its type.
LEMMA QueueType ==
  ASSUME RunInv, RunNext
  PROVE  queue' \in [there: BOOLEAN, due: BOOLEAN, stop: Nat]
<1>1. queue \in [there: BOOLEAN, due: BOOLEAN, stop: Nat]
  BY DEF RunInv, RunTypeOK
<1>2. CASE Resume
  <2>1. execution'.stop \in Nat
    BY <1>2, TurnTypes DEF Resume, RunInv, RunTypeOK, CampaignState
  <2> QED
    BY <1>2, <2>1 DEF Resume
<1>3. NoQueue \in [there: BOOLEAN, due: BOOLEAN, stop: Nat]
  BY DEF NoQueue
<1>4. CASE BecomesDue
  BY <1>1, <1>4 DEF BecomesDue
<1>5. CASE \E to \in {"running", "scheduled"} : Launch(to)
  BY <1>5 DEF Launch
<1> QED
  BY <1>1, <1>2, <1>3, <1>4, <1>5
  DEF RunNext, Operator, Pause, Cancel, RetryFailures, Withdraw, Plan, Receive

\* A step of the queue alone leaves recipients and commands as they are.
LEMMA QueueKeeps ==
  ASSUME RunInv, UNCHANGED vars
  PROVE  Whole' /\ AllTraced'
<1>1. \A m \in Message : OpenAttempts(m)' = OpenAttempts(m)
  BY DEF OpenAttempts, vars, dbVars
<1>2. Aside /\ UNCHANGED <<execution, campaign>>
  BY <1>1 DEF Aside, vars, dbVars, campaignVars, RunInv, Whole, Handled, Created
<1> QED
  BY <1>2, AsideWhole

\* RunInv is inductive.
LEMMA RunInvNext == RunInv /\ [RunNext]_runVars => RunInv'
<1> SUFFICES ASSUME RunInv, [RunNext]_runVars PROVE RunInv'
  OBVIOUS
<1>1. CASE UNCHANGED runVars
  <2>1. UNCHANGED <<vars, queue>> /\ RunTypeOK
    BY <1>1 DEF runVars, RunInv
  <2>2. DispatchInv' /\ Whole' /\ AllTraced'
    BY <2>1, InvNext, QueueKeeps DEF RunInv
  <2>3. RunTypeOK'
    BY <2>1, <2>2 DEF DispatchInv, Typed, RunTypeOK
  <2> QED
    BY <2>2, <2>3 DEF RunInv
<1>2. CASE RunNext
  <2>1. DispatchInv' /\ RunTypeOK'
    BY <1>2, RunDispatch, QueueType DEF RunTypeOK, DispatchInv, Typed
  <2>2. Whole' /\ AllTraced'
    BY <1>2, ServeKeeps, LaunchKeeps, PauseAndResume, CancelKeeps, RetryKeeps, PlanKeeps,
       ReceiveKeeps, QueueKeeps DEF RunNext, Operator, BecomesDue, Withdraw
  <2> QED
    BY <2>1, <2>2 DEF RunInv
<1> QED
  BY <1>1, <1>2

\* RunInv holds at the start.
LEMMA RunInvInit == RunInit => RunInv
<1> SUFFICES ASSUME RunInit PROVE RunInv
  OBVIOUS
<1>1. DispatchInv /\ RunTypeOK
  BY InvInit DEF RunInit, DispatchInv, Typed, RunTypeOK, NoQueue
<1>2. \A w \in Worker : worker[w] = Idle /\ Held(w) = {}
  BY DEF RunInit, Init, Idle, Held
<1>3. Whole
  BY <1>2 DEF RunInit, Init, Whole, Handled, Owned, Together, CompletedIsDrained, Created, Idle
<1>4. ASSUME NEW m \in Message PROVE Gone(m) /\ Single(m)
  BY <1>2 DEF RunInit, Init, Gone, Rests, Single, OpenAttempts
<1>5. ASSUME NEW r \in Recipient PROVE Traced(r)
  <2>1. recipient[r] = [state |-> "absent", command |-> 0, budget |-> "none"]
    BY DEF RunInit, Init
  <2>2. Stage(r) /\ BudgetOf(recipient[r])
    BY <2>1 DEF Stage, BudgetOf, Open
  <2> QED
    BY <1>2, <1>4, <2>1, <2>2 DEF Traced, CommandsTo
<1> QED
  BY <1>1, <1>3, <1>5 DEF RunInv, AllTraced

\* RunInv is an invariant.
LEMMA AlwaysRunInv == RunSpec => []RunInv
BY RunInvInit, RunInvNext, PTL DEF RunSpec

-----------------------------------------------------------------------------
(* What a broadcast keeps *)

\* The types of a run, for any number of recipients, commands and workers.
THEOREM RunKeptRight == RunSpec => []RunTypeOK
<1>1. RunInv => RunTypeOK
  BY DEF RunInv
<1> QED
  BY <1>1, AlwaysRunInv, PTL

\* A set without two different members has one at most.
LEMMA AtMostOne ==
  ASSUME NEW S, \A x, y \in S : x = y
  PROVE  Cardinality(S) <= 1
<1>1. CASE S = {}
  BY <1>1, FS_EmptySet
<1>2. CASE S # {}
  <2>1. PICK x \in S : TRUE
    BY <1>2
  <2>2. S = {x}
    BY <2>1
  <2> QED
    BY <2>2, FS_Singleton
<1> QED
  BY <1>1, <1>2

\* Whatever of a recipient's commands was processed is the command it names,
\* and that one once.
LEMMA OneCopy ==
  ASSUME RunInv
  PROVE  ReachesOnce
<1> SUFFICES ASSUME NEW r \in Recipient
             PROVE  Cardinality(UNION {{m} \X wire[m] : m \in CommandsTo(r)}) <= 1
  BY DEF ReachesOnce
<1> DEFINE copies == UNION {{m} \X wire[m] : m \in CommandsTo(r)}
<1>1. Traced(r)
  BY DEF RunInv, AllTraced
<1>2. ASSUME NEW x \in copies
      PROVE  \E i \in wire[recipient[r].command] :
               x = <<recipient[r].command, i>> /\ recipient[r].command \in CommandsTo(r)
  <2>1. PICK m \in CommandsTo(r) : \E i \in wire[m] : x = <<m, i>>
    OBVIOUS
  <2>2. m = recipient[r].command
    BY <1>1, <2>1 DEF Traced, Gone, Rests
  <2> QED
    BY <2>1, <2>2
<1>3. \A m \in CommandsTo(r) : \A i, j \in wire[m] : i = j
  BY <1>1 DEF Traced, Single
<1>4. \A x, y \in copies : x = y
  <2> HIDE DEF copies
  <2> QED
    BY <1>2, <1>3
<1> QED
  BY <1>4, AtMostOne

\* A broadcast reaches a recipient at most once, through any number of crashes,
\* expired leases, pauses, retries of failures and failure receipts.
THEOREM EachIsReachedOnce == RunSpec => []ReachesOnce
<1>1. RunInv => ReachesOnce
  BY OneCopy
<1> QED
  BY <1>1, AlwaysRunInv, PTL

\* Campaign and execution move together, and money follows the recipient.
THEOREM BudgetsFollow == RunSpec => []BudgetFollows
<1>1. RunInv => BudgetFollows
  <2> SUFFICES ASSUME RunInv, execution.state # "absent"
               PROVE  BudgetFollows
    BY DEF BudgetFollows
  <2>1. campaign = execution.state /\ \A r \in Recipient : recipient[r].state # "absent"
    BY DEF RunInv, Whole, Together
  <2>2. \A r \in Recipient : BudgetOf(recipient[r])
    BY DEF RunInv, AllTraced, Traced
  <2> QED
    BY <2>1, <2>2 DEF BudgetFollows, BudgetOf
<1> QED
  BY <1>1, AlwaysRunInv, PTL

\* A queued recipient's command is in the outbox, waits, and is nobody else's.
THEOREM QueuedAreScheduled == RunSpec => []QueuedIsScheduled
<1>1. RunInv => QueuedIsScheduled
  <2> SUFFICES ASSUME RunInv, NEW r \in Recipient, recipient[r].state = "queued"
               PROVE  /\ recipient[r].command \in outbox
                      /\ message[recipient[r].command].command \in {"queued", "retry_scheduled"}
                      /\ RecipientsOf(recipient[r].command) = {r}
    BY DEF QueuedIsScheduled
  <2>1. \A s \in Recipient : Traced(s)
    BY DEF RunInv, AllTraced
  <2>2. recipient[r].command # 0 /\ recipient[r].command \in CommandsTo(r)
    BY <2>1 DEF Traced, Stage
  <2>3. \A s \in Recipient : recipient[s].command = recipient[r].command => s = r
    BY <2>1, <2>2, Apart DEF Traced
  <2> QED
    BY <2>1, <2>3 DEF Traced, Stage, RecipientsOf
<1> QED
  BY <1>1, AlwaysRunInv, PTL

\* finishCampaignIfDrained says dispatch_completed of a drained broadcast only,
\* although it counts the open recipients in one step and writes in a later one.
THEOREM CompletedAreDrained == RunSpec => []CompletedIsDrained
<1>1. RunInv => CompletedIsDrained
  BY DEF RunInv, Whole
<1> QED
  BY <1>1, AlwaysRunInv, PTL

\* With a broadcast's handlers and planner beside it, the dispatcher still does
\* nothing that OutboundPromise does not allow.
THEOREM RunKeepsPromise == RunSpec => KeepsPromise
<1>1. RunInit => Promise!PromiseInit
  <2> SUFFICES ASSUME RunInit PROVE Promise!PromiseInit
    OBVIOUS
  <2>1. \A m \in Message : StatusOf(message[m].command) = "absent"
    BY DEF RunInit, Init, StatusOf, Pending
  <2>2. outbox = {}
    BY DEF RunInit, Init
  <2> QED
    BY <2>1, <2>2 DEF Promise!PromiseInit
<1>2. RunInv /\ [RunNext]_runVars => [Promise!PromiseNext]_(Promise!promiseVars)
  <2> SUFFICES ASSUME RunInv, [RunNext]_runVars
               PROVE  [Promise!PromiseNext]_(Promise!promiseVars)
    OBVIOUS
  <2>1. CASE RunNext
    BY <2>1, RunDispatch DEF Promised
  <2>2. CASE UNCHANGED runVars
    BY <2>2 DEF runVars, vars, dbVars, Promise!promiseVars
  <2> QED
    BY <2>1, <2>2
<1> QED
  BY <1>1, <1>2, AlwaysRunInv, PTL DEF RunSpec, KeepsPromise, Promise!PromiseSpec

\* The ledger knows a broadcast's requests before the provider does.
THEOREM RunKnewFirst == RunSpec => []EvidenceFirst
<1>1. RunInit => EvidenceInv
  BY EvidenceInit DEF RunInit
<1>2. RunInv /\ EvidenceInv /\ [RunNext]_runVars => EvidenceInv'
  <2> SUFFICES ASSUME RunInv, EvidenceInv, [RunNext]_runVars PROVE EvidenceInv'
    OBVIOUS
  <2>1. [Next]_vars \/ (NoneAccepted /\ UNCHANGED <<worker, attempts, wire>>)
    BY RunDispatch DEF runVars
  <2>2. CASE [Next]_vars
    BY <2>2, EvidenceStep DEF RunInv
  <2>3. CASE NoneAccepted /\ UNCHANGED <<worker, attempts, wire>>
    <3>1. LedgerStays /\ NobodyAsks
      BY <2>3 DEF LedgerStays, NobodyAsks
    <3> QED
      BY <2>3, <3>1, EvidenceKept DEF RunInv
  <2> QED
    BY <2>1, <2>2, <2>3
<1>3. EvidenceInv => EvidenceFirst
  BY DEF EvidenceInv
<1> QED
  BY <1>1, <1>2, <1>3, AlwaysRunInv, PTL DEF RunSpec

\* The fence and the outbox hold with a broadcast's handlers beside the workers.
THEOREM RunKeepsTheFence == RunSpec => [](OutboxHoldsPending /\ SingleOwner)
<1>1. RunInv => OutboxHoldsPending /\ SingleOwner
  BY DEF RunInv, DispatchInv
<1> QED
  BY <1>1, AlwaysRunInv, PTL

=============================================================================
