--------------------------- MODULE Dispatch_proofs ---------------------------
(***************************************************************************)
(* What the dispatcher keeps for every number of workers, commands,        *)
(* conversations and companies, with any number of crashes and of leases   *)
(* that run out under a live worker.                                       *)
(*                                                                         *)
(* The invariant is about single commands, so the argument is too: every   *)
(* step of the dispatcher does one of five things to each command (Effect: *)
(* it keeps it, makes it, takes it, puts it back or closes it), and each   *)
(* part of the invariant, and the refinement of OutboundPromise, follows   *)
(* from the effect and from who may have it. The types come first, because *)
(* the provers need them everywhere.                                       *)
(***************************************************************************)
EXTENDS Dispatch, FiniteSetTheorems, TLAPS

\* What a worker has in hand is really there: past the permit it holds a claim,
\* whose attempt is in the ledger until its answer is recorded, and only a
\* broadcast's result is projected.
InHandOK == \A w \in Worker :
  /\ worker[w].step \in {"send", "record", "project", "finish"} =>
       worker[w].claim \in Claimed
  /\ worker[w].step \in {"send", "record"} =>
       worker[w].attempt \in DOMAIN attempts[worker[w].claim.msg]
  /\ worker[w].step \in {"project", "finish"} =>
       worker[w].claim.recipient \in Recipient

-----------------------------------------------------------------------------
(* Operators of the model keep their types *)

\* What the assumptions say of the constants, in the form the steps use.
LEMMA ConstantFacts ==
  /\ NoClaim \notin Claimed
  /\ \A m \in Message : m \in Nat /\ m # 0
  /\ \A m \in Message : PeerOf[m] \in Peer /\ CompanyOf(m) \in Tenant
BY ParameterAssumption DEF NoClaim, Claimed, CompanyOf

\* A command that is made, or put back, is queued.
LEMMA QueuedType ==
  ASSUME NEW r \in MessageRow, NEW stop \in Nat
  PROVE  /\ [r EXCEPT !.command = "queued"] \in MessageRow
         /\ [r EXCEPT !.command = "queued", !.stop = stop] \in MessageRow
<1>1. "queued" \in CommandState
  BY DEF CommandState, Pending
<1> QED
  BY <1>1 DEF MessageRow

\* A worker with nothing in hand is a worker row.
LEMMA IdleType == Idle \in WorkerRow
BY DEF Idle, WorkerRow, Step, Answer, Result

\* Whatever comes after the message in hand, nothing new is in hand.
LEMMA ProceedType ==
  ASSUME NEW wk \in WorkerRow
  PROVE  /\ Proceed(wk) \in WorkerRow
         /\ Proceed(wk).step \in {"idle", "recover", "prepare"}
         /\ Proceed(wk).claim = NoClaim
         /\ Proceed(wk).todo \subseteq wk.todo
BY ZenonT(30) DEF Proceed, NextCompany, Idle, WorkerRow, Step, Answer, Result

\* Moving a reservation keeps a recipient row a recipient row.
LEMMA ReserveType ==
  ASSUME NEW r \in RecipientRow, NEW state \in RecipientState, NEW budget \in BudgetState
  PROVE  Reserve(r, state, budget) \in RecipientRow
BY DEF Reserve, RecipientRow

\* campaignOutcomeProjection keeps a recipient row a recipient row.
LEMMA ProjectedType ==
  ASSUME NEW r \in RecipientRow, NEW result \in Result
  PROVE  Projected(r, result) \in RecipientRow
BY ReserveType DEF Projected, Result, RecipientRow, RecipientState, BudgetState

\* settle() keeps a command row a command row.
LEMMA SettledType ==
  ASSUME TypeOK, NEW m \in Message, NEW command \in CommandState, NEW provider \in Nat
  PROVE  Settled(m, command, provider) \in MessageRow
<1>1. message[m] \in MessageRow
  BY DEF TypeOK
<1> DEFINE kept == IF provider = 0 THEN message[m].provider ELSE provider
<1>2. kept \in Nat
  BY <1>1 DEF MessageRow
<1>3. message[m].version + 1 \in Nat
  BY <1>1 DEF MessageRow
<1>4. Settled(m, command, provider) =
        [message[m] EXCEPT !.command = command, !.version = message[m].version + 1,
                           !.provider = kept]
  BY DEF Settled
<1> HIDE DEF kept
<1> QED
  BY <1>1, <1>2, <1>3, <1>4 DEF MessageRow

\* finishCampaignIfDrained keeps the types of the execution and the campaign.
LEMMA FinishType ==
  ASSUME TypeOK, NEW d, FinishIf(d)
  PROVE  /\ execution' \in [state: {"absent"} \cup CampaignState, stop: Nat]
         /\ campaign' \in CampaignState
BY DEF FinishIf, TypeOK, CampaignState

\* Deleting outbox rows keeps the types of the outbox and its rows.
LEMMA DeleteType ==
  ASSUME TypeOK, NEW gone, DeleteRows(gone)
  PROVE  /\ outbox' \subseteq Message /\ row' \in [Message -> OutboxRow]
         /\ earlier' \in [Message -> SUBSET Message]
BY DEF DeleteRows, TypeOK, OutboxRow, EmptyRow

\* Attempts are rewritten in place: the ledger keeps its length.
LEMMA RewrittenLedger ==
  ASSUME NEW S, NEW old \in Seq(S), NEW new,
         new = [i \in DOMAIN old |-> new[i]],
         \A i \in DOMAIN old : new[i] \in S
  PROVE  new \in Seq(S)
OBVIOUS

\* There are finitely many orphans of a command, so a recovery bumps its version
\* by a natural number, at least one where there is an orphan.
LEMMA OrphanCount ==
  ASSUME TypeOK, NEW t, NEW m \in Message
  PROVE  /\ Cardinality(Orphans(t, m)) \in Nat
         /\ Orphans(t, m) # {} => Cardinality(Orphans(t, m)) > 0
<1>1. attempts[m] \in Seq(Attempt) /\ Len(attempts[m]) \in Nat
  BY DEF TypeOK
<1>2. IsFiniteSet(1 .. Len(attempts[m]))
  BY <1>1, FS_Interval
<1>3. Orphans(t, m) \subseteq 1 .. Len(attempts[m])
  BY <1>1 DEF Orphans
<1>4. IsFiniteSet(Orphans(t, m))
  BY <1>2, <1>3, FS_Subset
<1> QED
  BY <1>4, FS_CardinalityType, FS_EmptySet

-----------------------------------------------------------------------------
(* Type correctness, action by action *)

Typed == TypeOK /\ InHandOK

\* Typed holds at the start.
LEMMA TypedInit == Init => Typed
<1> SUFFICES ASSUME Init PROVE Typed
  OBVIOUS
<1>1. TypeOK
  BY IdleType DEF Init, TypeOK, MessageRow, CommandState, OutboxRow, EmptyRow,
     RecipientRow, RecipientState, BudgetState, CampaignState
<1>2. InHandOK
  BY DEF Init, InHandOK, Idle
<1> QED
  BY <1>1, <1>2 DEF Typed

\* Planning a round keeps Typed.
LEMMA TypedStartRound ==
  ASSUME Typed, NEW w \in Worker, StartRound(w)
  PROVE  Typed'
<1>1. worker'[w] = [Idle EXCEPT !.step = "recover", !.plan = Offering(DutyOf[w])]
  BY DEF StartRound, Typed, TypeOK
<1>2. worker'[w] \in WorkerRow /\ worker'[w].step = "recover"
  <2>1. Offering(DutyOf[w]) \in SUBSET Tenant /\ "recover" \in Step
    BY DEF Offering, Step
  <2> QED
    BY <1>1, <2>1, IdleType DEF WorkerRow
<1> QED
  BY <1>2 DEF Typed, TypeOK, InHandOK, StartRound, dbVars, environmentVars, campaignVars

\* queueAuthorized keeps Typed.
LEMMA TypedEnqueue ==
  ASSUME Typed, NEW m \in Message, Enqueue(m)
  PROVE  Typed'
<1>1. message' \in [Message -> MessageRow]
  BY QueuedType DEF Enqueue, Typed, TypeOK
<1>2. outbox' \subseteq Message /\ row' \in [Message -> OutboxRow]
  BY DEF Enqueue, Schedule, Typed, TypeOK, OutboxRow, EmptyRow
<1>3. earlier' \in [Message -> SUBSET Message]
  BY DEF Enqueue, Schedule, Neighbours, Typed, TypeOK
<1> QED
  BY <1>1, <1>2, <1>3 DEF Typed, TypeOK, InHandOK, Enqueue, environmentVars, campaignVars

\* A broadcast makes the commands its recipients name, and schedules them.
LEMMA BroadcastParts ==
  ASSUME NEW link \in [Recipient -> Message \ Direct], Broadcast(link)
  PROVE  LET new == {link[r] : r \in Recipient}
         IN /\ new \subseteq Message /\ new # {}
            /\ \A m \in new : message[m].command = "absent"
            /\ message' = [m \in Message |-> IF m \in new
                  THEN [message[m] EXCEPT !.command = "queued"] ELSE message[m]]
            /\ Schedule(new)
            /\ UNCHANGED <<attempts, wire, worker>>
BY DEF Broadcast, Created

\* The planning of a broadcast keeps Typed.
LEMMA TypedBroadcast ==
  ASSUME Typed, NEW link \in [Recipient -> Message \ Direct], Broadcast(link)
  PROVE  Typed'
<1> DEFINE new == {link[r] : r \in Recipient}
<1>1. /\ new \subseteq Message /\ Schedule(new)
      /\ message' = [m \in Message |-> IF m \in new
            THEN [message[m] EXCEPT !.command = "queued"] ELSE message[m]]
  BY BroadcastParts
<1> HIDE DEF new
<1>2. message' \in [Message -> MessageRow]
  BY <1>1, QueuedType DEF Typed, TypeOK
<1>3. outbox' \subseteq Message /\ row' \in [Message -> OutboxRow]
  BY <1>1 DEF Schedule, Typed, TypeOK, OutboxRow, EmptyRow
<1>4. earlier' \in [Message -> SUBSET Message]
  BY <1>1 DEF Schedule, Neighbours, Typed, TypeOK
<1>5. recipient' \in [Recipient -> RecipientRow]
  <2>1. \A r \in Recipient : link[r] \in Nat
    BY ParameterAssumption
  <2> QED
    BY <2>1 DEF Broadcast, RecipientRow, RecipientState, BudgetState
<1>6. /\ execution' \in [state: {"absent"} \cup CampaignState, stop: Nat]
      /\ campaign' \in CampaignState
  BY DEF Broadcast, CampaignState
<1> QED
  BY <1>2, <1>3, <1>4, <1>5, <1>6 DEF Typed, TypeOK, InHandOK, Broadcast, environmentVars

\* A changed permit and a disconnection keep Typed.
LEMMA TypedEnvironment ==
  ASSUME Typed,
         \/ \E p \in Peer : ChangePermit(p)
         \/ \E t \in Tenant : Disconnect(t)
         \/ UNCHANGED vars
  PROVE  Typed'
BY DEF Typed, TypeOK, InHandOK, ChangePermit, Disconnect, vars, dbVars,
   environmentVars, campaignVars

\* The death of a process keeps Typed: its memory goes, the tables stay.
LEMMA TypedCrash ==
  ASSUME Typed, NEW w \in Worker, Crash(w)
  PROVE  Typed'
<1>1. worker' \in [Worker -> WorkerRow]
  BY IdleType DEF Crash, Typed, TypeOK
<1>2. InHandOK'
  BY DEF Crash, Typed, TypeOK, InHandOK, Idle, dbVars
<1> QED
  BY <1>1, <1>2, DurationAssumption
  DEF Typed, TypeOK, Crash, dbVars, environmentVars, campaignVars

\* The clock keeps Typed.
LEMMA TypedTick ==
  ASSUME Typed, Tick
  PROVE  Typed'
<1>1. row' \in [Message -> OutboxRow]
  <2>1. \A n \in Nat : Lower(n) \in Nat
    BY DEF Lower
  <2>2. \A m \in Message : row[m] \in OutboxRow
    BY DEF Typed, TypeOK
  <2>3. row' = [m \in Message |-> [row[m] EXCEPT !.delay = Lower(row[m].delay),
                                                !.left = Lower(row[m].left)]]
    BY DEF Tick
  <2> QED
    BY <2>1, <2>2, <2>3 DEF OutboxRow
<1>2. \A m \in Message : /\ DOMAIN attempts'[m] = DOMAIN attempts[m]
                         /\ attempts'[m] \in Seq(Attempt)
  <2> SUFFICES ASSUME NEW m \in Message
               PROVE  /\ DOMAIN attempts'[m] = DOMAIN attempts[m]
                      /\ attempts'[m] \in Seq(Attempt)
    OBVIOUS
  <2>1. attempts[m] \in Seq(Attempt) /\ DOMAIN attempts[m] = 1 .. Len(attempts[m])
        /\ Len(attempts[m]) \in Nat
    BY DEF Typed, TypeOK
  <2>2. \A i \in DOMAIN attempts[m] : attempts[m][i] \in Attempt
    BY <2>1
  <2>3. attempts'[m] = [i \in DOMAIN attempts[m] |->
          IF attempts[m][i].outcome = "open" /\ attempts[m][i].age <= OrphanTicks
          THEN [attempts[m][i] EXCEPT !.age = @ + 1] ELSE attempts[m][i]]
    BY DEF Tick, Typed, TypeOK
  <2>4. \A i \in DOMAIN attempts[m] : attempts'[m][i] \in Attempt
    BY <2>2, <2>3 DEF Attempt
  <2> QED
    BY <2>1, <2>3, <2>4
<1>3. attempts' \in [Message -> Seq(Attempt)]
  BY <1>2 DEF Tick
<1>4. InHandOK'
  BY <1>2 DEF Tick, Typed, InHandOK, TypeOK, WorkerRow, Claimed
<1> QED
  BY <1>1, <1>3, <1>4 DEF Typed, TypeOK, Tick, environmentVars, campaignVars

\* recoverOrphanedAttempts keeps Typed, committed or thrown.
LEMMA TypedRecover ==
  ASSUME Typed, NEW w \in Worker, Recover(w)
  PROVE  Typed'
<1> DEFINE t == FirstOf(worker[w].plan)
           lost == {m \in Message : Orphans(t, m) # {}}
           rows == [r \in Recipient |->
                      IF recipient[r].command \in lost
                      THEN Projected(recipient[r], "outcome_unknown")
                      ELSE recipient[r]]
<1>1. CASE Throws(w)
  <2>1. worker'[w] = Idle /\ worker' = [worker EXCEPT ![w] = Idle]
    BY <1>1 DEF Throws, Typed, TypeOK
  <2> QED
    BY <1>1, <2>1, IdleType DEF Typed, TypeOK, InHandOK, Throws, Recover, Idle,
       dbVars, environmentVars, campaignVars
<1>2. CASE /\ message' = [m \in Message |->
                             IF m \in lost THEN Unknown(t, m) ELSE message[m]]
           /\ attempts' = [m \in Message |-> [i \in DOMAIN attempts[m] |->
                IF i \in Orphans(t, m)
                THEN [age |-> 0, outcome |-> "outcome_unknown"]
                ELSE attempts[m][i]]]
           /\ DeleteRows(lost)
           /\ recipient' = rows
           /\ FinishIf(/\ \E r \in Recipient : recipient[r].command \in lost
                       /\ Drained(rows))
           /\ worker' = [worker EXCEPT ![w].step = "claim"]
           /\ UNCHANGED wire
  <2>1. message' \in [Message -> MessageRow]
    <3> SUFFICES ASSUME NEW m \in Message PROVE Unknown(t, m) \in MessageRow
      BY <1>2 DEF Typed, TypeOK
    <3>1. message[m] \in MessageRow
      BY DEF Typed, TypeOK
    <3>2. message[m].version + Cardinality(Orphans(t, m)) \in Nat
      BY <3>1, OrphanCount DEF Typed, MessageRow
    <3> QED
      BY <3>1, <3>2 DEF Unknown, MessageRow, CommandState, Decided
  <2>2. \A m \in Message : /\ DOMAIN attempts'[m] = DOMAIN attempts[m]
                           /\ attempts'[m] \in Seq(Attempt)
    <3> SUFFICES ASSUME NEW m \in Message
                 PROVE  /\ DOMAIN attempts'[m] = DOMAIN attempts[m]
                        /\ attempts'[m] \in Seq(Attempt)
      OBVIOUS
    <3>1. attempts[m] \in Seq(Attempt) /\ DOMAIN attempts[m] = 1 .. Len(attempts[m])
          /\ Len(attempts[m]) \in Nat
      BY DEF Typed, TypeOK
    <3>2. attempts'[m] = [i \in DOMAIN attempts[m] |->
            IF i \in Orphans(t, m) THEN [age |-> 0, outcome |-> "outcome_unknown"]
            ELSE attempts[m][i]]
      BY <1>2
    <3>3. [age |-> 0, outcome |-> "outcome_unknown"] \in Attempt
      BY DEF Attempt, Outcome
    <3>4. \A i \in DOMAIN attempts[m] : attempts[m][i] \in Attempt
      BY <3>1
    <3> HIDE DEF t, lost, rows
    <3>5. DOMAIN attempts'[m] = DOMAIN attempts[m]
      BY <3>2
    <3>6. \A i \in DOMAIN attempts[m] : attempts'[m][i] \in Attempt
      BY <3>2, <3>3, <3>4
    <3> QED
      BY <3>1, <3>2, <3>5, <3>6, RewrittenLedger
  <2>3. attempts' \in [Message -> Seq(Attempt)]
    BY <1>2, <2>2
  <2>4. recipient' \in [Recipient -> RecipientRow]
    BY <1>2, ProjectedType DEF Typed, TypeOK, Result
  <2>5. worker' \in [Worker -> WorkerRow]
    <3>1. worker[w] \in WorkerRow /\ worker \in [Worker -> WorkerRow]
      BY DEF Typed, TypeOK
    <3>2. [worker[w] EXCEPT !.step = "claim"] \in WorkerRow
      BY <3>1 DEF WorkerRow, Step
    <3>3. worker' = [worker EXCEPT ![w] = [worker[w] EXCEPT !.step = "claim"]]
      BY <1>2, <3>1
    <3> QED
      BY <3>1, <3>2, <3>3
  <2>6. InHandOK'
    BY <1>2, <2>2 DEF Typed, TypeOK, InHandOK, WorkerRow, Claimed
  <2>7. /\ outbox' \subseteq Message /\ row' \in [Message -> OutboxRow]
        /\ earlier' \in [Message -> SUBSET Message]
    BY <1>2, DeleteType DEF Typed
  <2>8. /\ execution' \in [state: {"absent"} \cup CampaignState, stop: Nat]
        /\ campaign' \in CampaignState
    BY <1>2, FinishType DEF Typed
  <2> QED
    BY <1>2, <2>1, <2>3, <2>4, <2>5, <2>6, <2>7, <2>8
    DEF Typed, TypeOK, Recover, environmentVars
<1> QED
  BY <1>1, <1>2 DEF Recover

\* The claim RETURNING yields is a claim.
LEMMA ClaimType ==
  ASSUME Typed, NEW m \in Message
  PROVE  ClaimOf(m) \in Claimed
<1>1. message[m] \in MessageRow /\ row[m] \in OutboxRow
  BY DEF Typed, TypeOK
<1>2. message[m].version + 1 \in Nat \ {0} /\ row[m].tries + 1 \in Nat \ {0}
  BY <1>1 DEF MessageRow, OutboxRow
<1>3. ClaimOf(m).recipient \in Recipient \cup {NoRecipient}
  BY DEF ClaimOf, RecipientsOf
<1> QED
  BY <1>2, <1>3 DEF ClaimOf, Claimed

\* claim keeps Typed, committed or thrown at the gate.
LEMMA TypedClaim ==
  ASSUME Typed, NEW w \in Worker, Claim(w)
  PROVE  Typed'
<1>1. PICK taken \in SUBSET Message : Take(w, taken) \/ Throws(w)
  BY DEF Claim, Candidates, Eligible, Typed, TypeOK
<1>2. CASE Throws(w)
  <2>1. worker'[w] = Idle /\ worker' = [worker EXCEPT ![w] = Idle]
    BY <1>2 DEF Throws, Typed, TypeOK
  <2> QED
    BY <1>2, <2>1, IdleType DEF Typed, TypeOK, InHandOK, Throws, Claim, Idle,
       dbVars, environmentVars, campaignVars
<1>3. CASE Take(w, taken)
  <2>1. message' \in [Message -> MessageRow]
    <3>1. \A m \in Message : message[m] \in MessageRow /\ message[m].version + 1 \in Nat
      BY DEF Typed, TypeOK, MessageRow
    <3> QED
      BY <1>3, <3>1 DEF Take, MessageRow, CommandState, Pending
  <2>2. row' \in [Message -> OutboxRow]
    <3>1. \A m \in Message : row[m] \in OutboxRow /\ row[m].tries + 1 \in Nat
      BY DEF Typed, TypeOK, OutboxRow
    <3> QED
      BY <1>3, <3>1, DurationAssumption DEF Take, OutboxRow
  <2>3. recipient' \in [Recipient -> RecipientRow]
    BY ZenonT(30), <1>3 DEF Take, Typed, TypeOK, RecipientRow, RecipientState
  <2> DEFINE full == [worker[w] EXCEPT !.todo = {ClaimOf(m) : m \in taken}]
  <2>4. full \in WorkerRow
    <3>1. {ClaimOf(m) : m \in taken} \in SUBSET Claimed
      BY ClaimType
    <3>2. worker[w] \in WorkerRow
      BY DEF Typed, TypeOK
    <3> QED
      BY <3>1, <3>2 DEF WorkerRow
  <2>5. worker' = [worker EXCEPT ![w] = Proceed(full)]
    BY <1>3 DEF Take
  <2> HIDE DEF full
  <2>6. /\ Proceed(full) \in WorkerRow
        /\ Proceed(full).step \in {"idle", "recover", "prepare"}
    BY <2>4, ProceedType
  <2>7. worker' \in [Worker -> WorkerRow] /\ worker'[w] = Proceed(full)
    BY <2>5, <2>6 DEF Typed, TypeOK
  <2>8. InHandOK'
    BY <1>3, <2>5, <2>6, <2>7 DEF Take, Typed, TypeOK, InHandOK
  <2> QED
    BY <1>3, <2>1, <2>2, <2>3, <2>7, <2>8
    DEF Take, Typed, TypeOK, Claim, environmentVars
<1> QED
  BY <1>1, <1>2, <1>3

\* dispatchOne up to the request keeps Typed: skipped, thrown or begun.
LEMMA TypedPrepare ==
  ASSUME Typed, NEW w \in Worker, Prepare(w)
  PROVE  Typed'
<1>1. PICK c \in worker[w].todo : Skip(w, c) \/ Begin(w, c)
  BY DEF Prepare
<1>2. c \in Claimed /\ c.msg \in Message /\ worker[w] \in WorkerRow
  BY DEF Typed, TypeOK, WorkerRow, Claimed
<1>3. CASE Throws(w)
  <2>1. worker'[w] = Idle /\ worker' = [worker EXCEPT ![w] = Idle]
    BY <1>3 DEF Throws, Typed, TypeOK
  <2> QED
    BY <1>3, <2>1, IdleType DEF Typed, TypeOK, InHandOK, Throws, Prepare, Idle,
       dbVars, environmentVars, campaignVars
<1>4. CASE Skip(w, c) /\ ~Throws(w)
  <2> DEFINE rest == [worker[w] EXCEPT !.todo = worker[w].todo \ {c}]
             rows == IF c.recipient = NoRecipient THEN recipient
                     ELSE [recipient EXCEPT ![c.recipient] =
                             Reserve(recipient[c.recipient], "skipped", "released")]
  <2>1. /\ message' = [message EXCEPT ![c.msg] = Settled(c.msg, "skipped", 0)]
        /\ DeleteRows({c.msg})
        /\ recipient' = rows
        /\ FinishIf(c.recipient # NoRecipient /\ Drained(rows))
        /\ worker' = [worker EXCEPT ![w] = Proceed(rest)]
        /\ UNCHANGED <<attempts, wire>>
    BY <1>4 DEF Skip
  <2>2. message' \in [Message -> MessageRow]
    <3>1. Settled(c.msg, "skipped", 0) \in MessageRow
      BY <1>2, SettledType DEF Typed, CommandState, Decided
    <3> QED
      BY <2>1, <3>1 DEF Typed, TypeOK
  <2>3. recipient' \in [Recipient -> RecipientRow]
    <3>1. CASE c.recipient = NoRecipient
      BY <2>1, <3>1 DEF Typed, TypeOK
    <3>2. CASE c.recipient # NoRecipient
      <4>1. c.recipient \in Recipient
        BY <1>2, <3>2 DEF Claimed
      <4>2. Reserve(recipient[c.recipient], "skipped", "released") \in RecipientRow
        BY <4>1, ReserveType DEF Typed, TypeOK, RecipientState, BudgetState
      <4> QED
        BY <2>1, <3>2, <4>2 DEF Typed, TypeOK
    <3> QED
      BY <3>1, <3>2
  <2>4. rest \in WorkerRow
    BY <1>2 DEF WorkerRow
  <2> HIDE DEF rest, rows
  <2>5. /\ Proceed(rest) \in WorkerRow
        /\ Proceed(rest).step \in {"idle", "recover", "prepare"}
    BY <2>4, ProceedType
  <2>6. worker' \in [Worker -> WorkerRow] /\ worker'[w] = Proceed(rest)
    BY <2>1, <2>5 DEF Typed, TypeOK
  <2>7. InHandOK'
    BY <2>1, <2>5, <2>6 DEF Typed, TypeOK, InHandOK
  <2>8. /\ outbox' \subseteq Message /\ row' \in [Message -> OutboxRow]
        /\ earlier' \in [Message -> SUBSET Message]
    BY <2>1, DeleteType DEF Typed
  <2>9. /\ execution' \in [state: {"absent"} \cup CampaignState, stop: Nat]
        /\ campaign' \in CampaignState
    BY <2>1, FinishType DEF Typed
  <2> QED
    BY <2>1, <2>2, <2>3, <2>6, <2>7, <2>8, <2>9
    DEF Typed, TypeOK, Prepare, environmentVars
<1>5. CASE Begin(w, c)
  <2> DEFINE opened == [age |-> 0, outcome |-> "open"]
             step == IF CompanyOf(c.msg) \in disconnected THEN "record" ELSE "send"
             number == Len(attempts[c.msg]) + 1
  <2>1. /\ attempts[c.msg] \in Seq(Attempt)
        /\ opened \in Attempt
        /\ number \in Nat
        /\ step \in {"record", "send"}
    BY <1>2 DEF Typed, TypeOK, Attempt, Outcome
  <2>2. /\ Append(attempts[c.msg], opened) \in Seq(Attempt)
        /\ number \in DOMAIN Append(attempts[c.msg], opened)
        /\ DOMAIN attempts[c.msg] \subseteq DOMAIN Append(attempts[c.msg], opened)
    <3> HIDE DEF opened
    <3> QED
      BY <2>1
  <2>3. /\ attempts' = [attempts EXCEPT ![c.msg] = Append(attempts[c.msg], opened)]
        /\ worker' = [worker EXCEPT ![w] = [worker[w] EXCEPT
              !.todo = worker[w].todo \ {c}, !.claim = c, !.attempt = number,
              !.answer = "retryable", !.step = step]]
        /\ UNCHANGED <<message, outbox, row, earlier, wire, campaignVars>>
    BY <1>5 DEF Begin
  <2> HIDE DEF opened, step, number
  <2>4. attempts' \in [Message -> Seq(Attempt)]
    BY <2>2, <2>3 DEF Typed, TypeOK
  <2>5. worker'[w] = [worker[w] EXCEPT
              !.todo = worker[w].todo \ {c}, !.claim = c, !.attempt = number,
              !.answer = "retryable", !.step = step]
    BY <2>3 DEF Typed, TypeOK
  <2>6. /\ worker'[w] \in WorkerRow
        /\ worker'[w].claim = c /\ worker'[w].attempt = number
        /\ worker'[w].step = step
    <3>1. step \in Step /\ "retryable" \in Answer /\ c \in Claimed \cup {NoClaim}
          /\ worker[w].todo \ {c} \in SUBSET Claimed
      BY <1>2, <2>1 DEF Step, Answer, WorkerRow
    <3> DEFINE left == worker[w].todo \ {c}
    <3>2. worker'[w] = [worker[w] EXCEPT !.todo = left, !.claim = c,
                          !.attempt = number, !.answer = "retryable", !.step = step]
      BY <2>5
    <3> HIDE DEF left
    <3> QED
      BY <1>2, <2>1, <3>1, <3>2 DEF WorkerRow, left
  <2>7. worker' \in [Worker -> WorkerRow]
    BY <2>3, <2>6 DEF Typed, TypeOK
  <2>8. \A m \in Message : DOMAIN attempts[m] \subseteq DOMAIN attempts'[m]
    BY <2>2, <2>3 DEF Typed, TypeOK
  <2>9. InHandOK'
    <3> SUFFICES ASSUME NEW v \in Worker
                 PROVE  /\ worker'[v].step \in {"send", "record", "project", "finish"} =>
                             worker'[v].claim \in Claimed
                        /\ worker'[v].step \in {"send", "record"} =>
                             worker'[v].attempt \in DOMAIN attempts'[worker'[v].claim.msg]
                        /\ worker'[v].step \in {"project", "finish"} =>
                             worker'[v].claim.recipient \in Recipient
      BY DEF InHandOK
    <3>1. CASE v = w
      <4>1. attempts'[c.msg] = Append(attempts[c.msg], opened)
        BY <1>2, <2>3 DEF Typed, TypeOK
      <4> QED
        BY <1>2, <2>1, <2>2, <2>6, <3>1, <4>1
    <3>2. CASE v # w
      <4>1. worker'[v] = worker[v]
        BY <2>3, <3>2 DEF Typed, TypeOK
      <4>2. worker[v].claim \in Claimed => worker[v].claim.msg \in Message
        BY DEF Claimed
      <4> QED
        BY <2>8, <4>1, <4>2 DEF Typed, InHandOK
    <3> QED
      BY <3>1, <3>2
  <2> QED
    BY <2>3, <2>4, <2>7, <2>9
    DEF Typed, TypeOK, Prepare, environmentVars, campaignVars
<1> QED
  BY <1>1, <1>3, <1>4, <1>5

\* The network call keeps Typed, whatever it answers.
LEMMA TypedSend ==
  ASSUME Typed, NEW w \in Worker, Send(w)
  PROVE  Typed'
<1>1. PICK answer \in Answer : worker' = [worker EXCEPT ![w] =
        [worker[w] EXCEPT !.step = "record", !.answer = answer]]
  BY DEF Send
<1>2. worker[w] \in WorkerRow /\ worker[w].step = "send"
  BY DEF Send, Typed, TypeOK
<1>3. /\ worker' \in [Worker -> WorkerRow]
      /\ worker'[w] = [worker[w] EXCEPT !.step = "record", !.answer = answer]
  BY <1>1, <1>2 DEF Typed, TypeOK, WorkerRow, Step
<1>4. wire' \in [Message -> SUBSET Nat]
  <2>1. worker[w].attempt \in Nat /\ wire \in [Message -> SUBSET Nat]
    BY <1>2 DEF Typed, TypeOK, WorkerRow
  <2>2. \/ wire' = wire
        \/ wire' = [wire EXCEPT ![worker[w].claim.msg] = @ \cup {worker[w].attempt}]
    BY DEF Send
  <2> QED
    BY <2>1, <2>2
<1>5. InHandOK'
  BY <1>1, <1>2, <1>3 DEF Send, Typed, TypeOK, InHandOK, WorkerRow, dbVars
<1> QED
  BY <1>3, <1>4, <1>5
  DEF Typed, TypeOK, Send, dbVars, environmentVars, campaignVars

\* record keeps Typed, with and without the fence.
LEMMA TypedRecord ==
  ASSUME Typed, NEW w \in Worker, Record(w)
  PROVE  Typed'
<1> DEFINE c == worker[w].claim
           answer == worker[w].answer
           attempt == worker[w].attempt
<1>1. /\ worker[w] \in WorkerRow /\ worker[w].step = "record"
      /\ c \in Claimed /\ c.msg \in Message /\ answer \in Answer
      /\ attempt \in Nat /\ attempt \in DOMAIN attempts[c.msg]
  BY DEF Record, Typed, TypeOK, InHandOK, WorkerRow, Claimed
<1>2. /\ attempts' \in [Message -> Seq(Attempt)]
      /\ \A m \in Message : DOMAIN attempts'[m] = DOMAIN attempts[m]
  <2> DEFINE told == [age |-> 0, outcome |-> Evidence(answer)]
  <2>1. told \in Attempt
    BY <1>1 DEF Attempt, Outcome, Evidence, Answer
  <2>2. attempts' = [attempts EXCEPT ![c.msg] = [attempts[c.msg] EXCEPT ![attempt] = told]]
    BY DEF Record
  <2>3. attempts[c.msg] \in Seq(Attempt)
    BY <1>1 DEF Typed, TypeOK
  <2> HIDE DEF told
  <2>4. /\ [attempts[c.msg] EXCEPT ![attempt] = told] \in Seq(Attempt)
        /\ DOMAIN [attempts[c.msg] EXCEPT ![attempt] = told] = DOMAIN attempts[c.msg]
    BY <1>1, <2>1, <2>3
  <2> QED
    BY <1>1, <2>2, <2>4 DEF Typed, TypeOK
<1>3. /\ message' \in [Message -> MessageRow]
      /\ outbox' \subseteq Message /\ row' \in [Message -> OutboxRow]
      /\ earlier' \in [Message -> SUBSET Message]
  <2>1. CASE ~HoldsFence(c)
    BY <2>1 DEF Record, Typed, TypeOK
  <2>2. CASE HoldsFence(c) /\ ~Retries(c, answer)
    <3> DEFINE provider == IF answer = "accepted" THEN attempt ELSE 0
    <3>1. Verdict(c, answer) \in CommandState /\ provider \in Nat
      BY <1>1 DEF Verdict, CommandState, Decided
    <3>2. /\ message' = [message EXCEPT ![c.msg] =
                           Settled(c.msg, Verdict(c, answer), provider)]
          /\ DeleteRows({c.msg})
      BY <2>2 DEF Record, Conclude
    <3> HIDE DEF provider
    <3>3. Settled(c.msg, Verdict(c, answer), provider) \in MessageRow
      BY <1>1, <3>1, SettledType DEF Typed
    <3> QED
      BY <3>2, <3>3, DeleteType DEF Typed, TypeOK
  <2>3. CASE HoldsFence(c) /\ Retries(c, answer)
    <3> DEFINE delay == BackoffBase * 2 ^ (c.tries - 1)
    <3>1. Reschedule(c)
      BY <2>3 DEF Record
    <3>2. message' \in [Message -> MessageRow]
      <4>1. Settled(c.msg, "retry_scheduled", 0) \in MessageRow
        BY <1>1, SettledType DEF Typed, CommandState, Pending
      <4> QED
        BY <3>1, <4>1 DEF Reschedule, Typed, TypeOK
    <3>3. delay \in Nat
      <4>1. c.tries \in Nat \ {0} /\ c.tries < MaxAttempts
        BY <1>1, <2>3, DurationAssumption DEF Retries, Exhausted, Claimed
      <4>2. c.tries \in 1 .. MaxAttempts
        BY <4>1, DurationAssumption
      <4> QED
        BY <4>2, DurationAssumption
    <3>4. CASE c.msg \notin outbox
      BY <3>1, <3>2, <3>4 DEF Reschedule, Typed, TypeOK
    <3>5. CASE c.msg \in outbox
      <4>1. PlaceRow(c.msg, delay) /\ UNCHANGED outbox
        BY <3>1, <3>5 DEF Reschedule
      <4> HIDE DEF delay
      <4>2. row' \in [Message -> OutboxRow]
        BY <1>1, <3>3, <4>1 DEF PlaceRow, Typed, TypeOK, OutboxRow, EmptyRow
      <4>3. earlier' \in [Message -> SUBSET Message]
        BY <1>1, <4>1 DEF PlaceRow, Neighbours, Typed, TypeOK
      <4> QED
        BY <3>2, <4>1, <4>2, <4>3 DEF Typed, TypeOK
    <3> QED
      BY <3>4, <3>5
  <2> QED
    BY <2>1, <2>2, <2>3
<1> DEFINE next == IF HoldsFence(c) /\ c.recipient # NoRecipient
                   THEN [worker[w] EXCEPT !.step = "project",
                                          !.result = ResultOf(c, answer)]
                   ELSE Proceed(worker[w])
<1>4. worker' = [worker EXCEPT ![w] = next]
  BY DEF Record, AfterRecord
<1>5. /\ next \in WorkerRow /\ next.step \notin {"send", "record", "finish"}
      /\ next.step = "project" => next.claim = c /\ c.recipient \in Recipient
  <2>1. CASE HoldsFence(c) /\ c.recipient # NoRecipient
    <3>1. ResultOf(c, answer) \in Result
      BY DEF ResultOf, Result
    <3> QED
      BY <1>1, <2>1, <3>1 DEF WorkerRow, Step, Claimed
  <2>2. CASE ~(HoldsFence(c) /\ c.recipient # NoRecipient)
    BY <1>1, <2>2, ProceedType
  <2> QED
    BY <2>1, <2>2
<1> HIDE DEF next
<1>6. worker' \in [Worker -> WorkerRow] /\ worker'[w] = next
  BY <1>4, <1>5 DEF Typed, TypeOK
<1>7. InHandOK'
  <2> SUFFICES ASSUME NEW v \in Worker
               PROVE  /\ worker'[v].step \in {"send", "record", "project", "finish"} =>
                           worker'[v].claim \in Claimed
                      /\ worker'[v].step \in {"send", "record"} =>
                           worker'[v].attempt \in DOMAIN attempts'[worker'[v].claim.msg]
                      /\ worker'[v].step \in {"project", "finish"} =>
                           worker'[v].claim.recipient \in Recipient
    BY DEF InHandOK
  <2>1. CASE v = w
    BY <1>1, <1>5, <1>6, <2>1
  <2>2. CASE v # w
    <3>1. worker'[v] = worker[v]
      BY <1>4, <2>2 DEF Typed, TypeOK
    <3>2. worker[v].claim \in Claimed => worker[v].claim.msg \in Message
      BY DEF Claimed
    <3> QED
      BY <1>2, <3>1, <3>2 DEF Typed, InHandOK
  <2> QED
    BY <2>1, <2>2
<1> QED
  BY <1>2, <1>3, <1>6, <1>7
  DEF Typed, TypeOK, Record, environmentVars, campaignVars

\* The first half of projectCampaignOutcome keeps Typed.
LEMMA TypedProject ==
  ASSUME Typed, NEW w \in Worker, Project(w)
  PROVE  Typed'
<1>1. worker[w] \in WorkerRow /\ worker[w].step = "project"
  BY DEF Project, Typed, TypeOK
<1> DEFINE drained == /\ worker[w].result # "retry"
                      /\ Drained([recipient EXCEPT ![worker[w].claim.recipient] =
                            Projected(recipient[worker[w].claim.recipient],
                                      worker[w].result)])
<1>2. worker' = [worker EXCEPT ![w] =
        [worker[w] EXCEPT !.step = "finish", !.drained = drained]]
  BY DEF Project, Typed, TypeOK, WorkerRow
<1>3. drained \in BOOLEAN
  BY DEF Drained
<1> HIDE DEF drained
<1>4. /\ worker' \in [Worker -> WorkerRow]
      /\ worker'[w] = [worker[w] EXCEPT !.step = "finish", !.drained = drained]
  BY <1>1, <1>2, <1>3 DEF Typed, TypeOK, WorkerRow, Step
<1>5. InHandOK'
  BY <1>1, <1>2, <1>4 DEF Project, Typed, TypeOK, InHandOK, WorkerRow, dbVars
<1> QED
  BY <1>4, <1>5 DEF Typed, TypeOK, Project, dbVars, environmentVars, campaignVars

\* The second half of projectCampaignOutcome keeps Typed.
LEMMA TypedFinish ==
  ASSUME Typed, NEW w \in Worker, Finish(w)
  PROVE  Typed'
<1> DEFINE r == worker[w].claim.recipient
<1>1. /\ worker[w] \in WorkerRow /\ r \in Recipient
      /\ recipient[r] \in RecipientRow /\ worker[w].result \in Result
  BY DEF Finish, Typed, TypeOK, InHandOK, WorkerRow
<1>2. recipient' \in [Recipient -> RecipientRow]
  <2>1. Projected(recipient[r], worker[w].result) \in RecipientRow
    BY <1>1, ProjectedType
  <2> QED
    BY <2>1 DEF Finish, Typed, TypeOK
<1>3. /\ worker' = [worker EXCEPT ![w] = Proceed(worker[w])]
      /\ Proceed(worker[w]) \in WorkerRow
      /\ Proceed(worker[w]).step \in {"idle", "recover", "prepare"}
  BY <1>1, ProceedType DEF Finish
<1>4. worker' \in [Worker -> WorkerRow] /\ worker'[w] = Proceed(worker[w])
  BY <1>3 DEF Typed, TypeOK
<1>5. InHandOK'
  BY <1>3, <1>4 DEF Finish, Typed, TypeOK, InHandOK, dbVars
<1>6. /\ execution' \in [state: {"absent"} \cup CampaignState, stop: Nat]
      /\ campaign' \in CampaignState
  BY FinishType DEF Finish, Typed
<1> QED
  BY <1>2, <1>4, <1>5, <1>6 DEF Typed, TypeOK, Finish, dbVars, environmentVars

\* Typed is inductive.
LEMMA TypedNext == Typed /\ [Next]_vars => Typed'
<1> SUFFICES ASSUME Typed, [Next]_vars PROVE Typed'
  OBVIOUS
<1>1. CASE Environment \/ UNCHANGED vars
  BY <1>1, TypedEnqueue, TypedEnvironment, TypedCrash DEF Environment
<1>2. CASE Tick
  BY <1>2, TypedTick
<1>3. ASSUME NEW w \in Worker, WorkerStep(w) PROVE Typed'
  BY <1>3, TypedStartRound, TypedRecover, TypedClaim, TypedPrepare, TypedSend,
     TypedRecord, TypedProject, TypedFinish DEF WorkerStep
<1> QED
  BY <1>1, <1>2, <1>3, TypedBroadcast DEF Next, Serve

\* Typed is an invariant.
LEMMA AlwaysTyped == Spec => []Typed
BY TypedInit, TypedNext, PTL DEF Spec

\* Every table and every worker's memory keeps its type: in particular the
\* back-off of a retry is always one the schedule defines, and an answer is
\* recorded only against an attempt the ledger holds.
THEOREM TypeCorrect == Spec => []TypeOK
<1>1. Typed => TypeOK
  BY DEF Typed
<1> QED
  BY <1>1, AlwaysTyped, PTL

-----------------------------------------------------------------------------
(* The inductive invariant. OutboxHoldsPending and SingleOwner lean on each  *)
(* other: a retry is put back in the outbox only because the fence says the  *)
(* command is still dispatching. The rest is what a step must know of the    *)
(* command it settles: the CHECK held before it, and it exists.              *)

Consistent == \A m \in Message : AcceptedCheck(message[m])

OnlyCreated ==
  /\ \A m \in Message : DOMAIN attempts[m] # {} => Created(m)
  /\ \A w \in Worker : \A c \in Held(w) : Created(c.msg)

DispatchInv == Typed /\ OutboxHoldsPending /\ SingleOwner /\ Consistent /\ OnlyCreated

\* What one step can do to one command.
Kept(m) == /\ message'[m].command = message[m].command
           /\ message'[m].version = message[m].version
           /\ message'[m].provider = message[m].provider
           /\ m \in outbox' <=> m \in outbox
           /\ row'[m].leased = row[m].leased

Born(m) == /\ message[m].command = "absent" /\ message'[m].command = "queued"
           /\ message'[m].version = message[m].version
           /\ message'[m].provider = message[m].provider
           /\ m \in outbox'

Taken(m) == /\ m \in outbox /\ m \in outbox'
            /\ message'[m].command = "dispatching"
            /\ message'[m].version = message[m].version + 1
            /\ message'[m].provider = message[m].provider
            /\ row'[m].leased

PutBack(m) == /\ message[m].command = "dispatching"
              /\ message'[m].command = "retry_scheduled"
              /\ message'[m].version = message[m].version + 1
              /\ message'[m].provider = message[m].provider
              /\ m \in outbox'

Closed(m) == /\ message[m].command # "absent"
             /\ message'[m].command \in Decided
             /\ message'[m].version > message[m].version
             /\ \/ message'[m].provider = message[m].provider
                \/ message[m].command = "dispatching"
             /\ AcceptedCheck(message'[m])
             /\ m \notin outbox'

Effect(m) == Kept(m) \/ Born(m) \/ Taken(m) \/ PutBack(m) \/ Closed(m)

\* A step that leaves command, outbox and row alone keeps every command.
LEMMA EffectOfNothing ==
  ASSUME UNCHANGED <<message, outbox, row>>, NEW m \in Message
  PROVE  Effect(m)
BY DEF Effect, Kept

\* A thrown transaction keeps every command.
LEMMA EffectOfThrows ==
  ASSUME NEW w, Throws(w), NEW m \in Message
  PROVE  Effect(m)
BY EffectOfNothing DEF Throws, dbVars

\* queueAuthorized makes one command and keeps the others.
LEMMA EffectOfEnqueue ==
  ASSUME DispatchInv, NEW n \in Message, Enqueue(n), NEW m \in Message
  PROVE  Effect(m)
<1>1. /\ message' = [message EXCEPT ![n].command = "queued"]
      /\ outbox' = outbox \cup {n}
      /\ row' = [k \in Message |-> IF k \in {n} THEN EmptyRow ELSE row[k]]
      /\ message[n].command = "absent"
  BY DEF Enqueue, Schedule, Created
<1>2. message \in [Message -> MessageRow]
  BY DEF DispatchInv, Typed, TypeOK
<1>3. CASE m = n
  <2>1. message[n] \in MessageRow
    BY <1>2
  <2>2. message'[n] = [message[n] EXCEPT !.command = "queued"]
    BY <1>1, <1>2
  <2>3. Born(m)
    BY <1>1, <1>3, <2>1, <2>2 DEF Born, MessageRow
  <2> QED
    BY <2>3 DEF Effect
<1>4. CASE m # n
  BY <1>1, <1>2, <1>4 DEF Effect, Kept
<1> QED
  BY <1>3, <1>4

\* A broadcast makes the commands it names and keeps the others.
LEMMA EffectOfBroadcast ==
  ASSUME DispatchInv, NEW link \in [Recipient -> Message \ Direct], Broadcast(link),
         NEW m \in Message
  PROVE  Effect(m)
<1> DEFINE new == {link[r] : r \in Recipient}
<1>1. /\ message' = [n \in Message |-> IF n \in new
            THEN [message[n] EXCEPT !.command = "queued"] ELSE message[n]]
      /\ \A n \in new : message[n].command = "absent"
      /\ outbox' = outbox \cup new
      /\ row' = [k \in Message |-> IF k \in new THEN EmptyRow ELSE row[k]]
  BY BroadcastParts DEF Schedule
<1> HIDE DEF new
<1>2. message[m] \in MessageRow
  BY DEF DispatchInv, Typed, TypeOK
<1>3. CASE m \in new
  <2>1. message'[m] = [message[m] EXCEPT !.command = "queued"]
    BY <1>1, <1>3
  <2> QED
    BY <1>1, <1>2, <1>3, <2>1 DEF Effect, Born, MessageRow
<1>4. CASE m \notin new
  BY <1>1, <1>4 DEF Effect, Kept
<1> QED
  BY <1>3, <1>4

\* The clock keeps every command: it moves no lease flag, only its time.
LEMMA EffectOfTick ==
  ASSUME DispatchInv, Tick, NEW m \in Message
  PROVE  Effect(m)
<1>1. row'[m] = [row[m] EXCEPT !.delay = Lower(row[m].delay), !.left = Lower(row[m].left)]
  BY DEF Tick
<1>2. row[m] \in OutboxRow
  BY DEF DispatchInv, Typed, TypeOK
<1>3. row'[m].leased = row[m].leased
  BY <1>1, <1>2 DEF OutboxRow
<1> QED
  BY <1>3 DEF Tick, Effect, Kept

\* Settling into a decided state deletes the row, and the CHECK has passed.
LEMMA EffectOfSettling ==
  ASSUME DispatchInv, NEW n \in Message, NEW r \in MessageRow,
         message' = [message EXCEPT ![n] = r], DeleteRows({n}),
         message[n].command # "absent", r.command \in Decided,
         r.version > message[n].version, AcceptedCheck(r),
         r.provider = message[n].provider \/ message[n].command = "dispatching",
         NEW m \in Message
  PROVE  Effect(m)
<1>1. message \in [Message -> MessageRow]
  BY DEF DispatchInv, Typed, TypeOK
<1>2. CASE m = n
  BY <1>1, <1>2 DEF Effect, Closed, DeleteRows
<1>3. CASE m # n
  BY <1>1, <1>3 DEF Effect, Kept, DeleteRows
<1> QED
  BY <1>2, <1>3

\* What settle() does to the columns of a command.
LEMMA SettledParts ==
  ASSUME TypeOK, NEW m \in Message, NEW command \in CommandState, NEW provider \in Nat
  PROVE  /\ Settled(m, command, provider) \in MessageRow
         /\ Settled(m, command, provider).command = command
         /\ Settled(m, command, provider).version = message[m].version + 1
         /\ Settled(m, command, provider).version > message[m].version
         /\ Settled(m, command, provider).provider =
              IF provider = 0 THEN message[m].provider ELSE provider
<1>1. message[m] \in MessageRow /\ message[m].version \in Nat
  BY DEF TypeOK, MessageRow
<1> DEFINE kept == IF provider = 0 THEN message[m].provider ELSE provider
<1>2. Settled(m, command, provider) =
        [message[m] EXCEPT !.command = command, !.version = message[m].version + 1,
                           !.provider = kept]
  BY DEF Settled
<1> HIDE DEF kept
<1>3. /\ Settled(m, command, provider).command = command
      /\ Settled(m, command, provider).version = message[m].version + 1
      /\ Settled(m, command, provider).provider = kept
  BY <1>1, <1>2 DEF MessageRow
<1> QED
  BY <1>1, <1>3, SettledType DEF kept

\* A committed recovery closes what it finds and keeps the rest.
LEMMA EffectOfRecover ==
  ASSUME DispatchInv, NEW w \in Worker, Recover(w), NEW m \in Message
  PROVE  Effect(m)
<1> DEFINE t == FirstOf(worker[w].plan)
           lost == {n \in Message : Orphans(t, n) # {}}
<1>1. CASE Throws(w)
  BY <1>1, EffectOfThrows
<1>2. CASE ~Throws(w)
  <2>1. /\ \A n \in lost : AcceptedCheck(Unknown(t, n))
        /\ message' = [n \in Message |-> IF n \in lost THEN Unknown(t, n) ELSE message[n]]
        /\ DeleteRows(lost)
    BY <1>2 DEF Recover
  <2>2. CASE m \in lost
    <3>1. message'[m] = Unknown(t, m) /\ AcceptedCheck(Unknown(t, m)) /\ m \notin outbox'
      BY <2>1, <2>2 DEF DeleteRows
    <3>2. message[m] \in MessageRow
      BY DEF DispatchInv, Typed, TypeOK
    <3>3. Cardinality(Orphans(t, m)) \in Nat /\ Cardinality(Orphans(t, m)) > 0
      BY <2>2, OrphanCount DEF DispatchInv, Typed
    <3>4. /\ Unknown(t, m).command = "outcome_unknown"
          /\ Unknown(t, m).version > message[m].version
          /\ Unknown(t, m).provider = message[m].provider
      BY <3>2, <3>3 DEF Unknown, MessageRow
    <3>5. message[m].command # "absent"
      BY <2>2 DEF Orphans, DispatchInv, OnlyCreated, Created
    <3> QED
      BY <3>1, <3>4, <3>5 DEF Effect, Closed, Decided
  <2>3. CASE m \notin lost
    BY <2>1, <2>3 DEF Effect, Kept, DeleteRows
  <2> QED
    BY <2>2, <2>3
<1> QED
  BY <1>1, <1>2

\* A committed claim takes commands that had an outbox row.
LEMMA EffectOfTake ==
  ASSUME DispatchInv, NEW w \in Worker, NEW taken \in SUBSET outbox,
         Take(w, taken), NEW m \in Message
  PROVE  Effect(m) /\ (m \in taken => Taken(m))
<1>1. message[m] \in MessageRow /\ row[m] \in OutboxRow
  BY DEF DispatchInv, Typed, TypeOK
<1>2. CASE m \in taken
  <2>1. /\ message'[m] = [message[m] EXCEPT !.command = "dispatching",
                                           !.version = message[m].version + 1]
        /\ row'[m] = [row[m] EXCEPT !.tries = row[m].tries + 1, !.leased = TRUE,
                                    !.left = LeaseTicks]
        /\ outbox' = outbox
    BY <1>2 DEF Take
  <2> QED
    BY <1>1, <1>2, <2>1 DEF Effect, Taken, MessageRow, OutboxRow
<1>3. CASE m \notin taken
  BY <1>3 DEF Take, Effect, Kept
<1> QED
  BY <1>2, <1>3

\* A refusal closes its command if the CHECK lets it; an attempt changes none.
LEMMA EffectOfPrepare ==
  ASSUME DispatchInv, NEW w \in Worker, Prepare(w), NEW m \in Message
  PROVE  Effect(m)
<1>1. PICK c \in worker[w].todo : Skip(w, c) \/ Begin(w, c)
  BY DEF Prepare
<1>2. c \in Claimed /\ c.msg \in Message
  BY DEF DispatchInv, Typed, TypeOK, WorkerRow, Claimed
<1>3. CASE Throws(w)
  BY <1>3, EffectOfThrows
<1>4. CASE Skip(w, c) /\ ~Throws(w)
  <2> DEFINE settled == Settled(c.msg, "skipped", 0)
  <2>1. /\ message' = [message EXCEPT ![c.msg] = settled]
        /\ DeleteRows({c.msg}) /\ AcceptedCheck(settled)
    BY <1>4 DEF Skip
  <2>2. /\ settled \in MessageRow /\ settled.command = "skipped"
        /\ settled.version > message[c.msg].version
        /\ settled.provider = message[c.msg].provider
    BY <1>2, SettledParts DEF DispatchInv, Typed, CommandState, Decided
  <2>3. message[c.msg].command # "absent"
    BY DEF DispatchInv, OnlyCreated, Held, Created
  <2> HIDE DEF settled
  <2> QED
    BY <1>2, <2>1, <2>2, <2>3, EffectOfSettling DEF Decided
<1>5. CASE Begin(w, c)
  BY <1>5, EffectOfNothing DEF Begin
<1> QED
  BY <1>1, <1>3, <1>4, <1>5

\* The fence at work: a result that is written is written over "dispatching".
LEMMA HolderDispatches ==
  ASSUME DispatchInv, NEW w \in Worker, Record(w), HoldsFence(worker[w].claim)
  PROVE  message[worker[w].claim.msg].command = "dispatching"
<1>1. worker[w].claim \in Claimed
  BY DEF Record, DispatchInv, Typed, InHandOK
<1>2. worker[w].claim \in Held(w)
  BY <1>1, ConstantFacts DEF Held
<1> QED
  BY <1>2 DEF DispatchInv, SingleOwner

\* A recorded answer closes or puts back its command, under the fence only.
LEMMA EffectOfRecord ==
  ASSUME DispatchInv, NEW w \in Worker, Record(w), NEW m \in Message
  PROVE  Effect(m)
<1> DEFINE c == worker[w].claim
           answer == worker[w].answer
           attempt == worker[w].attempt
<1>1. /\ c \in Claimed /\ c.msg \in Message /\ answer \in Answer
      /\ attempt \in Nat /\ attempt # 0
  <2>1. /\ worker[w] \in WorkerRow /\ c \in Claimed
        /\ attempt \in DOMAIN attempts[c.msg]
    BY DEF Record, DispatchInv, Typed, TypeOK, InHandOK
  <2>2. c.msg \in Message
    BY <2>1 DEF Claimed
  <2>3. attempts[c.msg] \in Seq(Attempt)
    BY <2>2 DEF DispatchInv, Typed, TypeOK
  <2> QED
    BY <2>1, <2>2, <2>3 DEF WorkerRow
<1>2. CASE ~HoldsFence(c)
  BY <1>2, EffectOfNothing DEF Record
<1>3. CASE HoldsFence(c) /\ ~Retries(c, answer)
  <2> DEFINE provider == IF answer = "accepted" THEN attempt ELSE 0
             settled == Settled(c.msg, Verdict(c, answer), provider)
  <2>1. /\ message' = [message EXCEPT ![c.msg] = settled] /\ DeleteRows({c.msg})
    BY <1>3 DEF Record, Conclude
  <2>2. /\ Verdict(c, answer) \in CommandState \cap Decided /\ provider \in Nat
        /\ Verdict(c, answer) = "provider_accepted" <=> answer = "accepted"
    BY <1>1 DEF Verdict, CommandState, Decided, Answer
  <2>3. message[c.msg].command = "dispatching"
    BY <1>3, HolderDispatches
  <2>4. message[c.msg].provider = 0
    BY <1>1, <2>3 DEF DispatchInv, Consistent, AcceptedCheck
  <2>5. /\ settled \in MessageRow /\ settled.command = Verdict(c, answer)
        /\ settled.version > message[c.msg].version
        /\ settled.provider = IF provider = 0 THEN message[c.msg].provider ELSE provider
    BY <1>1, <2>2, SettledParts DEF DispatchInv, Typed
  <2>6. AcceptedCheck(settled)
    BY <1>1, <2>2, <2>4, <2>5 DEF AcceptedCheck
  <2> HIDE DEF settled
  <2> QED
    BY <1>1, <2>1, <2>2, <2>3, <2>5, <2>6, EffectOfSettling
<1>4. CASE HoldsFence(c) /\ Retries(c, answer)
  <2> DEFINE settled == Settled(c.msg, "retry_scheduled", 0)
  <2>1. /\ message' = [message EXCEPT ![c.msg] = settled]
        /\ outbox' = outbox
        /\ \A n \in Message : n # c.msg => row'[n] = row[n]
    BY <1>4 DEF Record, Reschedule, PlaceRow, DispatchInv, Typed, TypeOK
  <2>2. message[c.msg].command = "dispatching"
    BY <1>4, HolderDispatches
  <2>3. c.msg \in outbox
    BY <1>1, <2>2 DEF DispatchInv, OutboxHoldsPending, Pending
  <2>4. /\ settled.command = "retry_scheduled"
        /\ settled.version = message[c.msg].version + 1
        /\ settled.provider = message[c.msg].provider
    BY <1>1, SettledParts DEF DispatchInv, Typed, CommandState, Pending
  <2> HIDE DEF settled
  <2>5. message'[c.msg] = settled /\ (m # c.msg => message'[m] = message[m])
    BY <1>1, <2>1 DEF DispatchInv, Typed, TypeOK
  <2> QED
    BY <2>1, <2>2, <2>3, <2>4, <2>5 DEF Effect, PutBack, Kept
<1> QED
  BY <1>2, <1>3, <1>4

\* Every step does one of the five things to every command.
LEMMA Effects ==
  ASSUME DispatchInv, [Next]_vars
  PROVE  \A m \in Message : Effect(m)
<1> SUFFICES ASSUME NEW m \in Message PROVE Effect(m)
  OBVIOUS
<1>1. CASE UNCHANGED vars
  BY <1>1, EffectOfNothing DEF vars, dbVars
<1>2. CASE Environment
  BY <1>2, EffectOfEnqueue, EffectOfNothing
  DEF Environment, ChangePermit, Disconnect, Crash, dbVars
<1>3. CASE Tick
  BY <1>3, EffectOfTick
<1>4. ASSUME NEW w \in Worker, WorkerStep(w) PROVE Effect(m)
  <2>1. CASE StartRound(w) \/ Send(w) \/ Project(w) \/ Finish(w)
    BY <2>1, EffectOfNothing DEF StartRound, Send, Project, Finish, dbVars
  <2>2. CASE Claim(w)
    <3>1. PICK taken \in SUBSET outbox : Take(w, taken) \/ Throws(w)
      BY <2>2 DEF Claim, Candidates
    <3> QED
      BY <3>1, EffectOfTake, EffectOfThrows
  <2> QED
    BY SMTT(30), <1>4, <2>1, <2>2, EffectOfRecover, EffectOfPrepare, EffectOfRecord DEF WorkerStep
<1> QED
  BY <1>1, <1>2, <1>3, <1>4, EffectOfBroadcast DEF Next, Serve

-----------------------------------------------------------------------------
(* What workers hold: a claim is new only where its row has just been taken, *)
(* by one worker and once for each command.                                  *)

NewClaim(d) == d.msg \in Message /\ d = ClaimOf(d.msg) /\ Taken(d.msg)
HandsOf(w) == \A v \in Worker : \A d \in Held(v)' :
                d \in Held(v) \/ (v = w /\ NewClaim(d))

\* A step in which workers only let claims go, or move them from batch to hand,
\* makes no new claim.
LEMMA HandsKept ==
  ASSUME NEW w,
         \A v \in Worker : worker'[v].todo \subseteq worker[v].todo
                          /\ worker'[v].claim \in Held(v) \cup {NoClaim}
  PROVE  HandsOf(w)
BY DEF HandsOf, Held

\* A claim in hand after a step was in the same hand before it, or was just
\* made by a committed claim of its row.
LEMMA Hands ==
  ASSUME DispatchInv, [Next]_vars
  PROVE  \E w : HandsOf(w)
<1>0. worker \in [Worker -> WorkerRow]
  BY DEF DispatchInv, Typed, TypeOK
<1>1. CASE UNCHANGED worker
  BY <1>1, HandsKept DEF Held
<1>2. ASSUME NEW w \in Worker, worker' = [worker EXCEPT ![w] = Idle] PROVE HandsOf(w)
  BY <1>0, <1>2, HandsKept DEF Held, Idle
<1>3. CASE Environment
  BY <1>1, <1>2, <1>3 DEF Environment, Enqueue, ChangePermit, Disconnect, Crash
<1>4. ASSUME NEW w \in Worker, WorkerStep(w) PROVE HandsOf(w)
  <2>1. worker[w] \in WorkerRow
    BY <1>0
  <2>2. CASE StartRound(w)
    BY <1>0, <2>2, HandsKept DEF StartRound, Idle, Held
  <2>3. CASE Recover(w)
    <3>1. worker' = [worker EXCEPT ![w].step = "claim"] \/ worker' = [worker EXCEPT ![w] = Idle]
      BY <2>3 DEF Recover, Throws
    <3> QED
      BY <1>0, <1>2, <2>1, <3>1, HandsKept DEF Held, WorkerRow
  <2>4. CASE Claim(w)
    <3>1. PICK taken \in SUBSET outbox : Take(w, taken) \/ Throws(w)
      BY <2>4 DEF Claim, Candidates
    <3>2. CASE Throws(w)
      BY <1>2, <3>2 DEF Throws
    <3>3. CASE Take(w, taken)
      <4> DEFINE full == [worker[w] EXCEPT !.todo = {ClaimOf(m) : m \in taken}]
      <4>1. taken \subseteq Message
        BY DEF DispatchInv, Typed, TypeOK
      <4>0. {ClaimOf(m) : m \in taken} \in SUBSET Claimed
        BY <4>1, ClaimType DEF DispatchInv
      <4>2. full \in WorkerRow /\ full.todo = {ClaimOf(m) : m \in taken}
        BY <2>1, <4>0 DEF WorkerRow
      <4>3. worker' = [worker EXCEPT ![w] = Proceed(full)]
        BY <3>3 DEF Take
      <4> HIDE DEF full
      <4>4. /\ worker'[w].claim = NoClaim
            /\ worker'[w].todo \subseteq {ClaimOf(m) : m \in taken}
            /\ \A v \in Worker : v # w => worker'[v] = worker[v]
        BY <1>0, <4>2, <4>3, ProceedType
      <4>5. \A m \in taken : NewClaim(ClaimOf(m))
        BY <3>3, <4>1, EffectOfTake DEF NewClaim, ClaimOf
      <4> QED
        BY <4>4, <4>5 DEF HandsOf, Held
    <3> QED
      BY <3>1, <3>2, <3>3
  <2>5. CASE Prepare(w)
    <3>1. PICK c \in worker[w].todo : Skip(w, c) \/ Begin(w, c)
      BY <2>5 DEF Prepare
    <3>2. CASE Throws(w)
      BY <1>2, <3>2 DEF Throws
    <3>3. CASE Skip(w, c) /\ ~Throws(w)
      <4> DEFINE rest == [worker[w] EXCEPT !.todo = worker[w].todo \ {c}]
      <4>1. worker' = [worker EXCEPT ![w] = Proceed(rest)]
        BY <3>3 DEF Skip
      <4>2. rest \in WorkerRow /\ rest.todo \subseteq worker[w].todo
        BY <2>1 DEF WorkerRow
      <4> HIDE DEF rest
      <4> QED
        BY <1>0, <4>1, <4>2, ProceedType, HandsKept DEF Held
    <3>4. CASE Begin(w, c)
      <4>1. worker'[w].todo \subseteq worker[w].todo /\ worker'[w].claim = c
            /\ \A v \in Worker : v # w => worker'[v] = worker[v]
        BY <1>0, <2>1, <3>4 DEF Begin, WorkerRow
      <4> QED
        BY <3>1, <4>1, HandsKept DEF Held
    <3> QED
      BY <3>1, <3>2, <3>3, <3>4
  <2>6. CASE Send(w)
    <3>1. PICK answer \in Answer : worker' = [worker EXCEPT ![w] =
            [worker[w] EXCEPT !.step = "record", !.answer = answer]]
      BY <2>6 DEF Send
    <3> QED
      BY <1>0, <2>1, <3>1, HandsKept DEF Held, WorkerRow
  <2>7. CASE Record(w)
    <3>1. CASE worker' = [worker EXCEPT ![w] = Proceed(worker[w])]
      BY <1>0, <2>1, <3>1, ProceedType, HandsKept DEF Held
    <3>2. CASE worker' = [worker EXCEPT ![w] = [worker[w] EXCEPT !.step = "project",
                 !.result = ResultOf(worker[w].claim, worker[w].answer)]]
      BY <1>0, <2>1, <3>2, HandsKept DEF Held, WorkerRow
    <3> QED
      BY <2>7, <3>1, <3>2 DEF Record, AfterRecord
  <2>8. CASE Project(w)
    BY <1>0, <2>1, <2>8, HandsKept DEF Project, Held, WorkerRow
  <2>9. CASE Finish(w)
    BY <1>0, <2>1, <2>9, ProceedType, HandsKept DEF Finish, Held
  <2> QED
    BY <1>4, <2>2, <2>3, <2>4, <2>5, <2>6, <2>7, <2>8, <2>9 DEF WorkerStep
<1>5. ASSUME NEW link \in [Recipient -> Message \ Direct], Broadcast(link) PROVE UNCHANGED worker
  BY <1>5, BroadcastParts
<1> QED
  BY <1>1, <1>3, <1>4, <1>5 DEF Next, Serve, Tick, vars

-----------------------------------------------------------------------------
(* The invariant is inductive *)

\* DispatchInv holds at the start.
LEMMA InvInit == Init => DispatchInv
<1> SUFFICES ASSUME Init PROVE DispatchInv
  OBVIOUS
<1>1. Typed
  BY TypedInit
<1>2. \A w \in Worker : Held(w) = {}
  BY DEF Init, Idle, Held
<1>3. OutboxHoldsPending /\ Consistent /\ OnlyCreated /\ SingleOwner
  BY <1>2 DEF Init, OutboxHoldsPending, Pending, Consistent, AcceptedCheck, OnlyCreated,
     SingleOwner
<1> QED
  BY <1>1, <1>3 DEF DispatchInv

\* What the invariant rests on, of a step: one effect on each command, new claims
\* only of what was taken, and nothing in the ledger that nobody had in hand. The
\* steps of the dispatcher are orderly, and so are those of the campaign's handlers.
LedgerFrom(m) == DOMAIN attempts[m] = {} =>
  DOMAIN attempts'[m] = {} \/ \E w \in Worker : \E c \in Held(w) : c.msg = m
Orderly == /\ \A m \in Message : Effect(m) /\ LedgerFrom(m)
           /\ \E w : HandsOf(w)

\* OutboxHoldsPending survives every effect.
LEMMA OutboxStep ==
  ASSUME DispatchInv, Orderly
  PROVE  OutboxHoldsPending'
<1> SUFFICES ASSUME NEW m \in Message
             PROVE  m \in outbox' <=> message'[m].command \in Pending
  BY DEF OutboxHoldsPending
<1>1. Effect(m) /\ (m \in outbox <=> message[m].command \in Pending)
  BY DEF Orderly, DispatchInv, OutboxHoldsPending
<1> QED
  BY <1>1 DEF Effect, Kept, Born, Taken, PutBack, Closed, Pending, Decided

\* The CHECK constraint survives every effect.
LEMMA ConsistentStep ==
  ASSUME DispatchInv, Orderly
  PROVE  Consistent'
<1> SUFFICES ASSUME NEW m \in Message PROVE AcceptedCheck(message'[m])
  BY DEF Consistent
<1>1. /\ Effect(m) /\ AcceptedCheck(message[m])
      /\ m \in outbox => message[m].command \in Pending
  BY DEF Orderly, DispatchInv, OutboxHoldsPending, Consistent
<1> QED
  BY <1>1 DEF Effect, Kept, Born, Taken, PutBack, Closed, Pending, AcceptedCheck

\* Nothing that exists ceases to.
LEMMA CreatedStays ==
  ASSUME NEW m \in Message, Effect(m)
  PROVE  Created(m) => Created(m)'
BY DEF Effect, Kept, Born, Taken, PutBack, Closed, Decided, Created

\* Only the attempt of a held claim is ever added to the ledger.
LEMMA LedgerGrows ==
  ASSUME DispatchInv, [Next]_vars, NEW m \in Message
  PROVE  LedgerFrom(m)
<1> SUFFICES ASSUME DOMAIN attempts[m] = {}
             PROVE  DOMAIN attempts'[m] = {} \/ \E w \in Worker : \E c \in Held(w) : c.msg = m
  BY DEF LedgerFrom
<1>0. attempts \in [Message -> Seq(Attempt)] /\ DOMAIN attempts[m] = {}
  BY DEF DispatchInv, Typed, TypeOK
<1>1. CASE UNCHANGED attempts
  BY <1>1
<1>2. CASE Tick
  BY <1>0, <1>2 DEF Tick
<1>3. ASSUME NEW w \in Worker, Recover(w) PROVE DOMAIN attempts'[m] = {}
  <2>1. CASE Throws(w)
    BY <2>1 DEF Throws, dbVars
  <2>2. CASE ~Throws(w)
    <3>1. attempts' = [n \in Message |-> [i \in DOMAIN attempts[n] |->
            IF i \in Orphans(FirstOf(worker[w].plan), n)
            THEN [age |-> 0, outcome |-> "outcome_unknown"] ELSE attempts[n][i]]]
      BY <1>3, <2>2 DEF Recover
    <3> QED
      BY <1>0, <3>1
  <2> QED
    BY <2>1, <2>2
<1>4. ASSUME NEW w \in Worker, Prepare(w)
      PROVE  DOMAIN attempts'[m] = {} \/ \E c \in Held(w) : c.msg = m
  <2>1. PICK c \in worker[w].todo : Skip(w, c) \/ Begin(w, c)
    BY <1>4 DEF Prepare
  <2>2. CASE Skip(w, c)
    BY <2>2 DEF Skip, Throws, dbVars
  <2>3. CASE Begin(w, c)
    BY <1>0, <2>3 DEF Begin, Held
  <2> QED
    BY <2>1, <2>2, <2>3
<1>5. ASSUME NEW w \in Worker, Record(w)
      PROVE  DOMAIN attempts'[m] = {} \/ \E c \in Held(w) : c.msg = m
  <2>1. worker[w].step = "record"
    BY <1>5 DEF Record
  <2>2. worker[w].claim \in Claimed
    BY <2>1 DEF DispatchInv, Typed, InHandOK
  <2>3. worker[w].claim \in Held(w)
    BY SMTT(30), <2>2, ConstantFacts DEF Held
  <2> QED
    BY <1>0, <1>5, <2>3 DEF Record
<1>6. ASSUME NEW w \in Worker, StartRound(w) \/ Claim(w) \/ Send(w) \/ Project(w) \/ Finish(w)
      PROVE  UNCHANGED attempts
  BY <1>6 DEF StartRound, Claim, Take, Throws, Send, Project, Finish, dbVars
<1>7. CASE Environment
  BY <1>7 DEF Environment, Enqueue, ChangePermit, Disconnect, Crash, dbVars
<1>8. ASSUME NEW link \in [Recipient -> Message \ Direct], Broadcast(link)
      PROVE  UNCHANGED attempts
  BY <1>8, BroadcastParts
<1> QED
  BY <1>1, <1>2, <1>3, <1>4, <1>5, <1>6, <1>7, <1>8
  DEF Next, Serve, WorkerStep, vars, dbVars

\* What is claimed or attempted exists, after every step.
LEMMA OnlyCreatedStep ==
  ASSUME DispatchInv, Orderly
  PROVE  OnlyCreated'
<1>1. ASSUME NEW m \in Message, DOMAIN attempts'[m] # {} PROVE Created(m)'
  <2>1. CASE DOMAIN attempts[m] # {}
    BY <2>1, CreatedStays DEF Orderly, DispatchInv, OnlyCreated
  <2>2. CASE DOMAIN attempts[m] = {}
    <3>1. PICK w \in Worker : \E c \in Held(w) : c.msg = m
      BY <1>1, <2>2 DEF Orderly, LedgerFrom
    <3> QED
      BY <3>1, CreatedStays DEF Orderly, DispatchInv, OnlyCreated
  <2> QED
    BY <2>1, <2>2
<1>2. ASSUME NEW v \in Worker, NEW d \in Held(v)' PROVE Created(d.msg)'
  <2>1. PICK w : HandsOf(w)
    BY DEF Orderly
  <2>2. CASE NewClaim(d)
    BY <2>2 DEF NewClaim, Taken, Created
  <2>3. CASE d \in Held(v)
    <3>1. d.msg \in Message
      BY <2>3, ConstantFacts DEF DispatchInv, Typed, TypeOK, WorkerRow, Held, Claimed
    <3> QED
      BY <2>3, <3>1, CreatedStays DEF Orderly, DispatchInv, OnlyCreated
  <2> QED
    BY <2>1, <2>2, <2>3 DEF HandsOf
<1> QED
  BY <1>1, <1>2 DEF OnlyCreated

\* The fence survives every step: whatever moves a command bumps its version,
\* and whoever moved it has let its claim go.
LEMMA SingleOwnerStep ==
  ASSUME DispatchInv, Orderly, Typed'
  PROVE  SingleOwner'
<1>1. PICK w : HandsOf(w)
  BY DEF Orderly
<1>2. \A m \in Message : /\ Effect(m)
                         /\ message[m].version \in Nat /\ message'[m].version \in Nat
  BY DEF Orderly, DispatchInv, Typed, TypeOK, MessageRow
<1>3. \A m \in Message : message[m].version <= message'[m].version
  BY <1>2 DEF Effect, Kept, Born, Taken, PutBack, Closed
<1>4. \A v \in Worker : \A d \in Held(v) : d.msg \in Message /\ d.version \in Nat
  BY ConstantFacts DEF DispatchInv, Typed, TypeOK, WorkerRow, Held, Claimed
<1>5. ASSUME NEW d, NewClaim(d) PROVE d.msg \in Message
                                   /\ d.version = message[d.msg].version + 1
                                   /\ d.version = message'[d.msg].version
  BY <1>5 DEF NewClaim, ClaimOf, Taken
<1> SUFFICES ASSUME NEW v \in Worker, NEW d \in Held(v)'
             PROVE  /\ d.version <= message'[d.msg].version
                    /\ HoldsFence(d)' =>
                         /\ message'[d.msg].command = "dispatching"
                         /\ row'[d.msg].leased
                         /\ \A u \in Worker : \A e \in Held(u)' :
                              e.msg = d.msg /\ HoldsFence(e)' => u = v /\ e = d
  BY DEF SingleOwner
<1>6. CASE d \in Held(v)
  <2>1. /\ d.msg \in Message /\ d.version \in Nat
        /\ d.version <= message[d.msg].version
    BY <1>4, <1>6 DEF DispatchInv, SingleOwner
  <2>2. d.version <= message'[d.msg].version
    BY <1>2, <1>3, <2>1
  <2>3. ASSUME HoldsFence(d)'
        PROVE  /\ message'[d.msg].command = "dispatching"
               /\ row'[d.msg].leased
               /\ \A u \in Worker : \A e \in Held(u)' :
                    e.msg = d.msg /\ HoldsFence(e)' => u = v /\ e = d
    <3>1. d.version = message'[d.msg].version /\ d.version = message[d.msg].version
      BY <1>2, <1>3, <2>1, <2>3 DEF HoldsFence
    <3>2. /\ message[d.msg].command = "dispatching" /\ row[d.msg].leased
          /\ \A u \in Worker : \A e \in Held(u) :
               e.msg = d.msg /\ HoldsFence(e) => u = v /\ e = d
      BY <1>6, <3>1 DEF DispatchInv, SingleOwner, HoldsFence
    <3>3. Kept(d.msg)
      <4>1. /\ Effect(d.msg) /\ message'[d.msg].version = message[d.msg].version
            /\ message[d.msg].version \in Nat
        BY <1>2, <2>1, <3>1
      <4> QED
        BY <3>2, <4>1 DEF Effect, Born, Taken, PutBack, Closed
    <3>4. ASSUME NEW u \in Worker, NEW e \in Held(u)', e.msg = d.msg, HoldsFence(e)'
          PROVE  u = v /\ e = d
      <4>1. e.version = message[d.msg].version
        BY <3>1, <3>4 DEF HoldsFence
      <4>2. ~NewClaim(e)
        BY <1>2, <1>5, <2>1, <3>1, <3>4, <4>1
      <4>3. e \in Held(u)
        BY <1>1, <4>2 DEF HandsOf
      <4> QED
        BY <3>2, <3>4, <4>1, <4>3 DEF HoldsFence
    <3> QED
      BY <3>2, <3>3, <3>4 DEF Kept
  <2> QED
    BY <2>2, <2>3
<1>7. CASE v = w /\ NewClaim(d)
  <2>1. /\ d.msg \in Message /\ d.version = message'[d.msg].version
        /\ d.version = message[d.msg].version + 1
    BY <1>5, <1>7
  <2>2. message'[d.msg].command = "dispatching" /\ row'[d.msg].leased
    BY <1>7 DEF NewClaim, Taken
  <2>3. ASSUME NEW u \in Worker, NEW e \in Held(u)', e.msg = d.msg, HoldsFence(e)'
        PROVE  u = v /\ e = d
    <3>1. e.version = message[d.msg].version + 1
      BY <2>1, <2>3 DEF HoldsFence
    <3>2. e \notin Held(u)
      BY <1>2, <1>4, <2>1, <2>3, <3>1 DEF DispatchInv, SingleOwner
    <3>3. u = w /\ NewClaim(e)
      BY <1>1, <3>2 DEF HandsOf
    <3> QED
      BY <1>7, <2>3, <3>3 DEF NewClaim
  <2> QED
    BY <1>2, <2>1, <2>2, <2>3
<1> QED
  BY <1>1, <1>6, <1>7 DEF HandsOf

\* Whatever is orderly and keeps the types keeps DispatchInv.
LEMMA OrderlyKeeps ==
  ASSUME DispatchInv, Orderly, Typed'
  PROVE  DispatchInv'
BY OutboxStep, ConsistentStep, OnlyCreatedStep, SingleOwnerStep DEF DispatchInv

\* The dispatcher is orderly.
LEMMA NextIsOrderly ==
  ASSUME DispatchInv, [Next]_vars
  PROVE  Orderly
BY Effects, Hands, LedgerGrows DEF Orderly

\* DispatchInv is inductive.
LEMMA InvNext == DispatchInv /\ [Next]_vars => DispatchInv'
<1> SUFFICES ASSUME DispatchInv, [Next]_vars PROVE DispatchInv'
  OBVIOUS
<1>1. Typed'
  BY TypedNext DEF DispatchInv
<1> QED
  BY <1>1, NextIsOrderly, OrderlyKeeps

\* DispatchInv is an invariant.
LEMMA AlwaysInv == Spec => []DispatchInv
BY InvInit, InvNext, PTL DEF Spec

\* DEL-07 for any number of workers, commands, companies and conversations: a
\* command is in the outbox exactly while it is pending.
THEOREM NothingForgotten == Spec => []OutboxHoldsPending
<1>1. DispatchInv => OutboxHoldsPending
  BY DEF DispatchInv
<1> QED
  BY <1>1, AlwaysInv, PTL

\* DEL-18 for any number of workers and any number of expired leases: one
\* claim of a command at most carries its current version.
THEOREM FenceHasOneOwner == Spec => []SingleOwner
<1>1. DispatchInv => SingleOwner
  BY DEF DispatchInv
<1> QED
  BY <1>1, AlwaysInv, PTL

\* No step takes an accepted command back.
LEMMA AcceptedStep ==
  ASSUME DispatchInv, NEW m \in Message, Effect(m),
         message[m].command = "provider_accepted"
  PROVE  message'[m].provider = message[m].provider
         /\ message'[m].command = "provider_accepted"
<1>1. /\ AcceptedCheck(message[m])
      /\ m \in outbox => message[m].command \in Pending
  BY DEF DispatchInv, OutboxHoldsPending, Consistent
<1> QED
  BY <1>1 DEF Effect, Kept, Born, Taken, PutBack, Closed, Pending, AcceptedCheck

\* What the provider has accepted stays accepted, under the id it gave: the
\* CHECK constraint stands where the refusal and the recovery have no fence.
THEOREM AcceptanceIsFinal == Spec => AcceptedIsFinal
<1>1. DispatchInv /\ [Next]_vars =>
        [\A m \in Message : message[m].command = "provider_accepted" =>
           message'[m].provider = message[m].provider
           /\ message'[m].command = "provider_accepted"]_vars
  BY AcceptedStep, Effects
<1> QED
  BY <1>1, AlwaysInv, PTL DEF Spec, AcceptedIsFinal

-----------------------------------------------------------------------------
(* The dispatcher implements the promise *)

Status(m) == StatusOf(message[m].command)

\* Whatever neither creates nor accepts a command closes those that leave the
\* outbox, or does nothing the promise can see.
Quiet == \A m \in Message : \/ message'[m].command = message[m].command
                           \/ message'[m].command \notin {"queued", "provider_accepted"}

\* A step that accepts and makes nothing closes what leaves the outbox, or stutters.
LEMMA QuietStep ==
  ASSUME DispatchInv, Orderly, DispatchInv', Quiet
  PROVE  [Promise!PromiseNext]_(Promise!promiseVars)
<1> DEFINE lost == outbox \ outbox'
<1>1. /\ outbox \subseteq Message /\ outbox' \subseteq Message
      /\ \A m \in Message : Effect(m) /\ (m \in outbox <=> message[m].command \in Pending)
                         /\ (m \in outbox' <=> message'[m].command \in Pending)
  <2>1. TypeOK' /\ OutboxHoldsPending'
    BY DEF DispatchInv, Typed
  <2> QED
    BY <2>1 DEF Orderly, DispatchInv, Typed, TypeOK, OutboxHoldsPending
<1>2. ASSUME NEW m \in Message
      PROVE  /\ m \in lost => Status(m) = "open" /\ Status(m)' = "closed"
             /\ m \notin lost => Status(m)' = Status(m)
             /\ m \in outbox' => m \in outbox
  <2>1. /\ message'[m].command = "absent" => message[m].command = "absent"
        /\ message[m].command = "absent" => message'[m].command = "absent"
        /\ message'[m].command \in Pending => message[m].command \in Pending
        /\ message'[m].command = "provider_accepted" <=>
             message[m].command = "provider_accepted"
    BY <1>1, AcceptedStep DEF Effect, Kept, Born, Taken, PutBack, Closed, Quiet,
       Pending, Decided
  <2> QED
    BY <1>1, <2>1 DEF Status, StatusOf, Pending
<1>3. CASE lost = {}
  <2>1. outbox' = outbox /\ \A m \in Message : Status(m)' = Status(m)
    BY <1>1, <1>2, <1>3
  <2> QED
    BY <2>1 DEF Promise!promiseVars, Status
<1>4. CASE lost # {}
  <2>1. Promise!Close(lost)
    BY <1>1, <1>2, <1>4 DEF Promise!Close, Status
  <2> QED
    BY <1>1, <2>1 DEF Promise!PromiseNext
<1> QED
  BY <1>3, <1>4

\* A step in which one command is born is a Request.
LEMMA RequestStep ==
  ASSUME DispatchInv, NEW n \in Message, Enqueue(n)
  PROVE  Promise!PromiseNext
<1>1. /\ message \in [Message -> MessageRow] /\ message[n] \in MessageRow
      /\ message' = [message EXCEPT ![n].command = "queued"]
      /\ outbox' = outbox \cup {n} /\ message[n].command = "absent"
  BY DEF Enqueue, Schedule, Created, DispatchInv, Typed, TypeOK
<1>2. message'[n].command = "queued" /\ \A m \in Message : m # n => message'[m] = message[m]
  BY <1>1 DEF MessageRow
<1>3. Promise!Request({n})
  BY <1>1, <1>2 DEF Promise!Request, StatusOf, Pending
<1> QED
  BY <1>3 DEF Promise!PromiseNext

\* New commands, made and scheduled together, are one Request.
LEMMA NewCommandsStep ==
  ASSUME DispatchInv, NEW new \in SUBSET Message, new # {},
         \A m \in new : message[m].command = "absent",
         \A m \in Message : message'[m].command =
                                IF m \in new THEN "queued" ELSE message[m].command,
         outbox' = outbox \cup new
  PROVE  Promise!PromiseNext
<1>1. Promise!Request(new)
  BY DEF Promise!Request, StatusOf, Pending
<1> QED
  BY <1>1 DEF Promise!PromiseNext

\* A broadcast is one Request for all its commands.
LEMMA BroadcastStep ==
  ASSUME DispatchInv, NEW link \in [Recipient -> Message \ Direct], Broadcast(link)
  PROVE  Promise!PromiseNext
<1> DEFINE new == {link[r] : r \in Recipient}
<1>1. /\ new \subseteq Message /\ new # {}
      /\ \A m \in new : message[m].command = "absent"
      /\ message' = [m \in Message |-> IF m \in new
            THEN [message[m] EXCEPT !.command = "queued"] ELSE message[m]]
      /\ outbox' = outbox \cup new
  BY BroadcastParts DEF Schedule
<1> HIDE DEF new
<1>2. message \in [Message -> MessageRow]
  BY DEF DispatchInv, Typed, TypeOK
<1>3. \A m \in Message : message'[m].command =
        IF m \in new THEN "queued" ELSE message[m].command
  BY <1>1, <1>2 DEF MessageRow
<1> QED
  BY <1>1, <1>3, NewCommandsStep

\* A recorded answer is an Accept, a Close or a stutter.
LEMMA RecordStep ==
  ASSUME DispatchInv, [Next]_vars, NEW w \in Worker, Record(w)
  PROVE  [Promise!PromiseNext]_(Promise!promiseVars)
<1> DEFINE c == worker[w].claim
           answer == worker[w].answer
<1> USE NextIsOrderly, InvNext
<1>1. worker[w] \in WorkerRow /\ c \in Claimed /\ c.msg \in Message
  BY DEF Record, DispatchInv, Typed, TypeOK, InHandOK, Claimed
<1>2. CASE ~HoldsFence(c)
  BY <1>2, QuietStep DEF Record, Quiet
<1>3. CASE HoldsFence(c) /\ Retries(c, answer)
  <2>1. message' = [message EXCEPT ![c.msg] = Settled(c.msg, "retry_scheduled", 0)]
    BY <1>3 DEF Record, Reschedule
  <2>2. Settled(c.msg, "retry_scheduled", 0).command = "retry_scheduled"
    BY <1>1, SettledParts DEF DispatchInv, Typed, CommandState, Pending
  <2> QED
    BY <1>1, <2>1, <2>2, QuietStep DEF Quiet, DispatchInv, Typed, TypeOK
<1>4. CASE HoldsFence(c) /\ ~Retries(c, answer)
  <2> DEFINE provider == IF answer = "accepted" THEN worker[w].attempt ELSE 0
  <2>1. /\ message' = [message EXCEPT ![c.msg] = Settled(c.msg, Verdict(c, answer), provider)]
        /\ outbox' = outbox \ {c.msg}
    BY <1>4 DEF Record, Conclude, DeleteRows
  <2>2. Verdict(c, answer) \in CommandState /\ provider \in Nat
    BY <1>1 DEF Verdict, CommandState, Decided, WorkerRow
  <2>3. Settled(c.msg, Verdict(c, answer), provider).command = Verdict(c, answer)
    BY <1>1, <2>2, SettledParts DEF DispatchInv, Typed
  <2> HIDE DEF provider
  <2>4. /\ message'[c.msg].command = Verdict(c, answer)
        /\ \A m \in Message : m # c.msg => message'[m] = message[m]
    BY <1>1, <2>1, <2>3 DEF DispatchInv, Typed, TypeOK
  <2>5. CASE answer = "accepted"
    <3>1. message[c.msg].command = "dispatching"
      BY <1>4, HolderDispatches
    <3>2. message'[c.msg].command = "provider_accepted"
      BY <2>4, <2>5 DEF Verdict
    <3>3. Promise!Accept(c.msg)
      BY <1>1, <2>1, <2>4, <3>1, <3>2 DEF Promise!Accept, StatusOf, Pending
    <3> QED
      BY <1>1, <3>3 DEF Promise!PromiseNext
  <2>6. CASE answer # "accepted"
    <3>1. Verdict(c, answer) \notin {"queued", "provider_accepted"}
      BY ZenonT(30), <2>6 DEF Verdict
    <3> QED
      BY <2>4, <3>1, QuietStep DEF Quiet
  <2> QED
    BY <2>5, <2>6
<1> QED
  BY <1>2, <1>3, <1>4

\* Every step of the dispatcher is a step of the promise or a stutter.
LEMMA PromiseStep ==
  ASSUME DispatchInv, [Next]_vars
  PROVE  [Promise!PromiseNext]_(Promise!promiseVars)
<1> USE NextIsOrderly, InvNext
<1>0. message \in [Message -> MessageRow]
  BY DEF DispatchInv, Typed, TypeOK
<1>1. CASE UNCHANGED message
  BY <1>1, QuietStep DEF Quiet
<1>2. CASE Environment
  BY <1>1, <1>2, RequestStep
  DEF Environment, ChangePermit, Disconnect, Crash, dbVars
<1>3. ASSUME NEW w \in Worker, WorkerStep(w)
      PROVE  [Promise!PromiseNext]_(Promise!promiseVars)
  <2>1. CASE Recover(w)
    <3> DEFINE t == FirstOf(worker[w].plan)
    <3>1. \A m \in Message : message'[m] = message[m] \/ message'[m] = Unknown(t, m)
      BY <2>1 DEF Recover, Throws, dbVars
    <3>2. \A m \in Message : Unknown(t, m).command = "outcome_unknown"
      BY <1>0 DEF Unknown, MessageRow
    <3> QED
      BY <3>1, <3>2, QuietStep DEF Quiet
  <2>2. CASE Claim(w)
    <3>1. CASE Throws(w)
      BY <1>1, <3>1 DEF Throws, dbVars
    <3>2. ASSUME NEW taken \in SUBSET outbox, Take(w, taken)
          PROVE  [Promise!PromiseNext]_(Promise!promiseVars)
      <4>1. \A m \in Message : \/ message'[m] = message[m]
                             \/ message'[m] = [message[m] EXCEPT !.command = "dispatching",
                                                  !.version = message[m].version + 1]
        BY <3>2 DEF Take
      <4>2. \A m \in Message : message'[m] = message[m]
                             \/ message'[m].command = "dispatching"
        BY <1>0, <4>1 DEF MessageRow
      <4> QED
        BY <4>2, QuietStep DEF Quiet
    <3> QED
      BY <2>2, <3>1, <3>2 DEF Claim, Candidates
  <2>3. CASE Prepare(w)
    <3>1. PICK c \in worker[w].todo : Skip(w, c) \/ Begin(w, c)
      BY <2>3 DEF Prepare
    <3>2. c.msg \in Message
      BY DEF DispatchInv, Typed, TypeOK, WorkerRow, Claimed
    <3>3. \/ UNCHANGED message
          \/ message' = [message EXCEPT ![c.msg] = Settled(c.msg, "skipped", 0)]
      BY <3>1 DEF Skip, Begin, Throws, dbVars
    <3>4. Settled(c.msg, "skipped", 0).command = "skipped"
      BY <3>2, SettledParts DEF DispatchInv, Typed, CommandState, Decided
    <3> QED
      BY <1>0, <1>1, <3>3, <3>4, QuietStep DEF Quiet
  <2>4. CASE StartRound(w) \/ Send(w) \/ Project(w) \/ Finish(w)
    BY <1>1, <2>4 DEF StartRound, Send, Project, Finish, dbVars
  <2> QED
    BY <1>3, <2>1, <2>2, <2>3, <2>4, RecordStep DEF WorkerStep
<1> QED
  BY <1>1, <1>2, <1>3, BroadcastStep DEF Next, Serve, Tick, vars, dbVars

\* The dispatcher, with any number of workers, commands and companies, does
\* nothing to its commands and its outbox that OutboundPromise does not allow.
THEOREM DispatchKeepsPromise == Spec => KeepsPromise
<1>1. Init => Promise!PromiseInit
  <2> SUFFICES ASSUME Init PROVE Promise!PromiseInit
    OBVIOUS
  <2>1. \A m \in Message : StatusOf(message[m].command) = "absent"
    BY DEF Init, StatusOf, Pending
  <2>2. outbox = {}
    BY DEF Init
  <2> QED
    BY <2>1, <2>2 DEF Promise!PromiseInit
<1>2. DispatchInv /\ [Next]_vars => [Promise!PromiseNext]_(Promise!promiseVars)
  BY PromiseStep
<1> QED
  BY <1>1, <1>2, AlwaysInv, PTL DEF Spec, KeepsPromise, Promise!PromiseSpec

-----------------------------------------------------------------------------
(* The gate of a conversation: only a claim leases a row, and it asks first *)

NoNewLease == \A m \in Message : m \in outbox' /\ row'[m].leased =>
                m \in outbox /\ row[m].leased

\* Deleting rows leases none.
LEMMA NoLeaseByRemoval ==
  ASSUME NEW gone, DeleteRows(gone)
  PROVE  NoNewLease
BY DEF NoNewLease, DeleteRows

\* Recording an answer leases none.
LEMMA LeasesOfRecord ==
  ASSUME Typed, NEW w \in Worker, Record(w)
  PROVE  NoNewLease
<1> DEFINE c == worker[w].claim
           d == BackoffBase * 2 ^ (c.tries - 1)
<1>1. CASE UNCHANGED <<outbox, row>>
  BY <1>1 DEF NoNewLease
<1>2. CASE DeleteRows({c.msg})
  BY <1>2, NoLeaseByRemoval
<1>3. CASE PlaceRow(c.msg, d) /\ UNCHANGED outbox
  <2>1. /\ row' = [row EXCEPT ![c.msg] =
                     [EmptyRow EXCEPT !.delay = d, !.tries = row[c.msg].tries]]
        /\ row \in [Message -> OutboxRow] /\ outbox' = outbox
    BY <1>3 DEF PlaceRow, Typed, TypeOK
  <2>2. [EmptyRow EXCEPT !.delay = d, !.tries = row[c.msg].tries].leased = FALSE
    BY DEF EmptyRow
  <2> QED
    BY <2>1, <2>2 DEF NoNewLease
<1> QED
  BY <1>1, <1>2, <1>3 DEF Record, Conclude, Reschedule

\* Only a committed claim leases a row.
LEMMA LeasesOfOthers ==
  ASSUME Typed, [Next]_vars, \A w \in Worker : ~Claim(w)
  PROVE  NoNewLease
<1>1. CASE UNCHANGED <<outbox, row>>
  BY <1>1 DEF NoNewLease
<1>2. ASSUME NEW m \in Message, Enqueue(m) PROVE NoNewLease
  BY <1>2 DEF NoNewLease, Enqueue, Schedule, EmptyRow
<1>3. CASE Tick
  <2>1. \A m \in Message : row'[m].leased = row[m].leased
    <3> TAKE m \in Message
    <3>1. row[m] \in OutboxRow
      BY DEF Typed, TypeOK
    <3>2. row'[m] = [row[m] EXCEPT !.delay = Lower(row[m].delay),
                                   !.left = Lower(row[m].left)]
      BY <1>3 DEF Tick
    <3> QED
      BY <3>1, <3>2 DEF OutboxRow
  <2> QED
    BY <1>3, <2>1 DEF NoNewLease, Tick
<1>4. ASSUME NEW w \in Worker, Recover(w) \/ Prepare(w) PROVE NoNewLease
  <2>1. CASE Recover(w)
    BY <1>1, <2>1, NoLeaseByRemoval DEF Recover, Throws, dbVars
  <2>2. CASE Prepare(w)
    BY <1>1, <2>2, NoLeaseByRemoval DEF Prepare, Skip, Begin, Throws, dbVars
  <2> QED
    BY <1>4, <2>1, <2>2
<1>5. ASSUME NEW w \in Worker, StartRound(w) \/ Send(w) \/ Project(w) \/ Finish(w)
      PROVE  NoNewLease
  BY <1>1, <1>5 DEF StartRound, Send, Project, Finish, dbVars
<1>6. CASE \/ \E p \in Peer : ChangePermit(p)
           \/ \E t \in Tenant : Disconnect(t)
           \/ \E w \in Worker : Crash(w)
           \/ UNCHANGED vars
  BY <1>1, <1>6 DEF ChangePermit, Disconnect, Crash, vars, dbVars
<1>7. ASSUME NEW link \in [Recipient -> Message \ Direct], Broadcast(link) PROVE NoNewLease
  <2>1. PICK new \in SUBSET Message : Schedule(new)
    BY <1>7, BroadcastParts
  <2> QED
    BY <2>1 DEF NoNewLease, Schedule, EmptyRow
<1> QED
  BY <1>2, <1>3, <1>4, <1>5, <1>6, <1>7, LeasesOfRecord
  DEF Next, Serve, Environment, WorkerStep

\* A claim that got through the gate leaves one lease per conversation.
LEMMA GateOfTake ==
  ASSUME Typed, OneLeasePerConversation, NEW w \in Worker,
         NEW taken \in SUBSET outbox, GateFree(taken), Take(w, taken)
  PROVE  OneLeasePerConversation'
<1>1. outbox' = outbox /\ outbox \subseteq Message
  BY DEF Take, Typed, TypeOK
<1>2. \A m \in Message : m \notin taken => row'[m] = row[m]
  BY DEF Take
<1>3. \A m \in taken : \A n \in outbox :
        n # m /\ PeerOf[n] = PeerOf[m] => ~row[n].leased /\ n \notin taken
  BY DEF GateFree, Neighbours
<1> QED
  BY <1>1, <1>2, <1>3 DEF OneLeasePerConversation

\* One lease per conversation survives every step.
LEMMA GateStep ==
  ASSUME Typed, OneLeasePerConversation, [Next]_vars
  PROVE  OneLeasePerConversation'
<1>1. outbox \subseteq Message /\ outbox' \subseteq Message
  BY TypedNext DEF Typed, TypeOK
<1>2. CASE NoNewLease
  BY <1>1, <1>2 DEF NoNewLease, OneLeasePerConversation
<1>3. ASSUME NEW w \in Worker, Claim(w) PROVE OneLeasePerConversation'
  <2>1. PICK taken \in SUBSET outbox : IF GateFree(taken) THEN Take(w, taken) ELSE Throws(w)
    BY <1>3 DEF Claim, Candidates
  <2>2. CASE GateFree(taken)
    BY <2>1, <2>2, GateOfTake
  <2>3. CASE ~GateFree(taken)
    BY <1>2, <2>1, <2>3 DEF Throws, dbVars, NoNewLease
  <2> QED
    BY <2>2, <2>3
<1> QED
  BY <1>2, <1>3, LeasesOfOthers

\* outbox_dispatch_gate_uq, for any number of conversations and workers: two
\* commands of one conversation are never leased together.
THEOREM OneLease == Spec => []OneLeasePerConversation
<1>1. Init => OneLeasePerConversation
  BY DEF Init, OneLeasePerConversation
<1>2. Typed /\ OneLeasePerConversation /\ [Next]_vars => OneLeasePerConversation'
  BY GateStep
<1> QED
  BY <1>1, <1>2, AlwaysTyped, PTL DEF Spec
-----------------------------------------------------------------------------
(* The ledger knows beforehand. An accepted attempt is never rewritten: a    *)
(* worker answers only the attempt it opened itself, and answers it once.    *)

Asking(w) == worker[w].step \in {"send", "record"}
Asks(w, m, i) == Asking(w) /\ worker[w].claim.msg = m /\ worker[w].attempt = i

\* An attempt somebody is asking about has no answer yet, but an 'accepted' one
\* that is about to be written was processed.
Unanswered == \A w \in Worker : \A m \in Message : \A i \in DOMAIN attempts[m] :
  Asks(w, m, i) =>
    /\ attempts[m][i].outcome # "accepted"
    /\ worker[w].step = "record" /\ worker[w].answer = "accepted" => i \in wire[m]
    /\ \A v \in Worker : Asks(v, m, i) => v = w

EvidenceInv == EvidenceFirst /\ Unanswered

\* What a step may do to the ledger: accepted stays accepted.
LedgerStays == \A m \in Message :
  /\ DOMAIN attempts[m] \subseteq DOMAIN attempts'[m]
  /\ \A i \in DOMAIN attempts[m] :
       attempts[m][i].outcome = "accepted" <=> attempts'[m][i].outcome = "accepted"

\* What a step may do to accepted commands: nothing, nor make one.
NoneAccepted == \A m \in Message : message'[m].command = "provider_accepted" =>
  message[m].command = "provider_accepted" /\ message'[m].provider = message[m].provider

\* Nobody asks who did not ask before.
NobodyAsks == \A w \in Worker : worker'[w].step \in {"send", "record"} => worker'[w] = worker[w]

\* Who asks has the command and the attempt in the tables.
LEMMA AskingFacts ==
  ASSUME DispatchInv, NEW w \in Worker, NEW m, NEW i, Asks(w, m, i)
  PROVE  m \in Message /\ i \in DOMAIN attempts[m]
BY DEF Asks, Asking, DispatchInv, Typed, InHandOK, Claimed

\* A step that accepts nothing, sends nothing and asks nothing keeps the evidence.
LEMMA EvidenceKept ==
  ASSUME DispatchInv, EvidenceInv, LedgerStays, NoneAccepted, NobodyAsks, UNCHANGED wire
  PROVE  EvidenceInv'
<1>1. EvidenceFirst'
  <2> SUFFICES ASSUME NEW m \in Message
               PROVE  /\ \A i \in wire[m] : i \in DOMAIN attempts'[m]
                      /\ message'[m].command = "provider_accepted" =>
                           /\ message'[m].provider \in wire[m]
                           /\ attempts'[m][message'[m].provider].outcome = "accepted"
    BY DEF EvidenceFirst
  <2>1. \A i \in wire[m] : i \in DOMAIN attempts[m]
    BY DEF EvidenceInv, EvidenceFirst
  <2> QED
    BY <2>1 DEF LedgerStays, NoneAccepted, EvidenceInv, EvidenceFirst
<1>2. Unanswered'
  <2> SUFFICES ASSUME NEW w \in Worker, NEW m \in Message, NEW i \in DOMAIN attempts'[m],
                      Asks(w, m, i)'
               PROVE  /\ attempts'[m][i].outcome # "accepted"
                      /\ worker'[w].step = "record" /\ worker'[w].answer = "accepted" =>
                           i \in wire[m]
                      /\ \A v \in Worker : Asks(v, m, i)' => v = w
    BY DEF Unanswered
  <2>1. \A v \in Worker : Asks(v, m, i)' => Asks(v, m, i) /\ worker'[v] = worker[v]
    BY DEF NobodyAsks, Asks, Asking
  <2>2. i \in DOMAIN attempts[m]
    BY <2>1, AskingFacts
  <2> QED
    BY <2>1, <2>2 DEF EvidenceInv, Unanswered, LedgerStays
<1> QED
  BY <1>1, <1>2 DEF EvidenceInv

\* The clock rewrites ages, never an outcome.
LEMMA EvidenceOfTick ==
  ASSUME DispatchInv, EvidenceInv, Tick
  PROVE  EvidenceInv'
<1>1. LedgerStays
  <2> SUFFICES ASSUME NEW m \in Message
               PROVE  /\ DOMAIN attempts[m] = DOMAIN attempts'[m]
                      /\ \A i \in DOMAIN attempts[m] :
                           attempts'[m][i].outcome = attempts[m][i].outcome
    BY DEF LedgerStays
  <2>1. attempts'[m] = [i \in DOMAIN attempts[m] |->
          IF attempts[m][i].outcome = "open" /\ attempts[m][i].age <= OrphanTicks
          THEN [attempts[m][i] EXCEPT !.age = attempts[m][i].age + 1] ELSE attempts[m][i]]
    BY DEF Tick
  <2>2. \A i \in DOMAIN attempts[m] : attempts[m][i] \in Attempt
    BY DEF DispatchInv, Typed, TypeOK
  <2> QED
    BY <2>1, <2>2 DEF Attempt
<1> QED
  BY <1>1, EvidenceKept DEF Tick, NoneAccepted, NobodyAsks

\* A recovery closes open attempts, and the CHECK keeps it off accepted commands.
LEMMA EvidenceOfRecover ==
  ASSUME DispatchInv, EvidenceInv, NEW w \in Worker, Recover(w)
  PROVE  EvidenceInv'
<1> DEFINE t == FirstOf(worker[w].plan)
           lost == {n \in Message : Orphans(t, n) # {}}
<1>0. worker \in [Worker -> WorkerRow] /\ message \in [Message -> MessageRow]
  BY DEF DispatchInv, Typed, TypeOK
<1>1. CASE Throws(w)
  <2>1. LedgerStays /\ NoneAccepted /\ NobodyAsks /\ UNCHANGED wire
    BY <1>0, <1>1 DEF Throws, dbVars, LedgerStays, NoneAccepted, NobodyAsks, Idle
  <2> QED
    BY <2>1, EvidenceKept
<1>2. CASE ~Throws(w)
  <2>1. /\ message' = [n \in Message |-> IF n \in lost THEN Unknown(t, n) ELSE message[n]]
        /\ attempts' = [n \in Message |-> [i \in DOMAIN attempts[n] |->
              IF i \in Orphans(t, n) THEN [age |-> 0, outcome |-> "outcome_unknown"]
              ELSE attempts[n][i]]]
        /\ worker' = [worker EXCEPT ![w].step = "claim"] /\ UNCHANGED wire
    BY <1>2 DEF Recover
  <2>2. \A n \in Message : Unknown(t, n).command = "outcome_unknown"
    BY <1>0 DEF Unknown, MessageRow
  <2>3. LedgerStays
    BY <2>1 DEF LedgerStays, Orphans
  <2>4. NoneAccepted
    BY <2>1, <2>2 DEF NoneAccepted
  <2>5. NobodyAsks
    BY <1>0, <2>1 DEF NobodyAsks, WorkerRow
  <2> QED
    BY <2>1, <2>3, <2>4, <2>5, EvidenceKept
<1> QED
  BY <1>1, <1>2

\* A claim asks nothing yet.
LEMMA EvidenceOfClaim ==
  ASSUME DispatchInv, EvidenceInv, NEW w \in Worker, Claim(w)
  PROVE  EvidenceInv'
<1>0. worker \in [Worker -> WorkerRow] /\ message \in [Message -> MessageRow]
  BY DEF DispatchInv, Typed, TypeOK
<1>1. PICK taken \in SUBSET outbox : Take(w, taken) \/ Throws(w)
  BY DEF Claim, Candidates
<1>2. CASE Throws(w)
  <2>1. LedgerStays /\ NoneAccepted /\ NobodyAsks /\ UNCHANGED wire
    BY <1>0, <1>2 DEF Throws, dbVars, LedgerStays, NoneAccepted, NobodyAsks, Idle
  <2> QED
    BY <2>1, EvidenceKept
<1>3. CASE Take(w, taken)
  <2> DEFINE full == [worker[w] EXCEPT !.todo = {ClaimOf(m) : m \in taken}]
  <2>1. full \in WorkerRow /\ worker' = [worker EXCEPT ![w] = Proceed(full)]
    <3>1. {ClaimOf(m) : m \in taken} \in SUBSET Claimed
      BY ClaimType DEF DispatchInv, Typed, TypeOK
    <3> QED
      BY <1>0, <1>3, <3>1 DEF Take, WorkerRow
  <2> HIDE DEF full
  <2>2. NobodyAsks
    BY <1>0, <2>1, ProceedType DEF NobodyAsks
  <2>3. NoneAccepted
    BY <1>0, <1>3 DEF Take, NoneAccepted, MessageRow
  <2>4. LedgerStays /\ UNCHANGED wire
    BY <1>3 DEF Take, LedgerStays
  <2> QED
    BY <2>2, <2>3, <2>4, EvidenceKept
<1> QED
  BY <1>1, <1>2, <1>3

\* dispatchOne opens an attempt of its own before it asks, or asks nothing.
LEMMA EvidenceOfPrepare ==
  ASSUME DispatchInv, EvidenceInv, NEW w \in Worker, Prepare(w)
  PROVE  EvidenceInv'
<1>0. /\ worker \in [Worker -> WorkerRow] /\ message \in [Message -> MessageRow]
      /\ attempts \in [Message -> Seq(Attempt)]
  BY DEF DispatchInv, Typed, TypeOK
<1>1. PICK c \in worker[w].todo : Skip(w, c) \/ Begin(w, c)
  BY DEF Prepare
<1>2. c \in Claimed /\ c.msg \in Message
  BY <1>0 DEF WorkerRow, Claimed
<1>3. CASE Throws(w)
  <2>1. LedgerStays /\ NoneAccepted /\ NobodyAsks /\ UNCHANGED wire
    BY <1>0, <1>3 DEF Throws, dbVars, LedgerStays, NoneAccepted, NobodyAsks, Idle
  <2> QED
    BY <2>1, EvidenceKept
<1>4. CASE Skip(w, c) /\ ~Throws(w)
  <2> DEFINE rest == [worker[w] EXCEPT !.todo = worker[w].todo \ {c}]
  <2>1. /\ message' = [message EXCEPT ![c.msg] = Settled(c.msg, "skipped", 0)]
        /\ worker' = [worker EXCEPT ![w] = Proceed(rest)] /\ UNCHANGED <<attempts, wire>>
    BY <1>4 DEF Skip
  <2>2. rest \in WorkerRow
    BY <1>0 DEF WorkerRow
  <2> HIDE DEF rest
  <2>3. NobodyAsks
    BY <1>0, <2>1, <2>2, ProceedType DEF NobodyAsks
  <2>4. Settled(c.msg, "skipped", 0).command = "skipped"
    BY <1>2, SettledParts DEF DispatchInv, Typed, CommandState, Decided
  <2> QED
    BY <1>0, <2>1, <2>3, <2>4, EvidenceKept DEF NoneAccepted, LedgerStays
<1>5. CASE Begin(w, c)
  <2> DEFINE n == c.msg
             i == Len(attempts[c.msg]) + 1
  <2>1. /\ attempts' = [attempts EXCEPT ![n] =
                          Append(attempts[n], [age |-> 0, outcome |-> "open"])]
        /\ UNCHANGED <<message, wire>>
        /\ worker'[w].claim.msg = n /\ worker'[w].attempt = i
        /\ worker'[w].answer = "retryable"
        /\ \A v \in Worker : v # w => worker'[v] = worker[v]
    BY <1>0, <1>5 DEF Begin, WorkerRow
  <2>2. /\ DOMAIN attempts'[n] = DOMAIN attempts[n] \cup {i} /\ i \notin DOMAIN attempts[n]
        /\ attempts'[n][i].outcome = "open"
        /\ \A j \in DOMAIN attempts[n] : attempts'[n][j] = attempts[n][j]
        /\ \A m \in Message : m # n => attempts'[m] = attempts[m]
    <3>1. attempts[n] \in Seq(Attempt) /\ [age |-> 0, outcome |-> "open"] \in Attempt
      BY <1>0, <1>2 DEF Attempt, Outcome
    <3>2. attempts'[n] = Append(attempts[n], [age |-> 0, outcome |-> "open"])
      BY <1>0, <1>2, <2>1
    <3> QED
      BY <1>0, <2>1, <3>1, <3>2
  <2> HIDE DEF n, i
  <2>3. EvidenceFirst'
    <3>1. \A m \in Message : \A j \in wire[m] : j \in DOMAIN attempts[m]
      BY DEF EvidenceInv, EvidenceFirst
    <3> QED
      BY <2>1, <2>2, <3>1 DEF EvidenceInv, EvidenceFirst
  <2>4. \A v \in Worker : \A m, j : Asks(v, m, j)' =>
          (v = w /\ m = n /\ j = i) \/ (v # w /\ worker'[v] = worker[v] /\ Asks(v, m, j))
    BY <2>1 DEF Asks, Asking
  <2>5. Unanswered'
    <3> SUFFICES ASSUME NEW v \in Worker, NEW m \in Message, NEW j \in DOMAIN attempts'[m],
                        Asks(v, m, j)'
                 PROVE  /\ attempts'[m][j].outcome # "accepted"
                        /\ worker'[v].step = "record" /\ worker'[v].answer = "accepted" =>
                             j \in wire[m]
                        /\ \A u \in Worker : Asks(u, m, j)' => u = v
      BY <2>1 DEF Unanswered
    <3>1. \A u \in Worker : Asks(u, m, j) => j \in DOMAIN attempts[m]
      BY AskingFacts
    <3>2. CASE v = w
      BY <2>1, <2>2, <2>4, <3>1, <3>2
    <3>3. CASE v # w
      <4>1. Asks(v, m, j) /\ worker'[v] = worker[v] /\ j \in DOMAIN attempts[m]
        BY <2>4, <3>1, <3>3
      <4> QED
        BY <2>2, <2>4, <4>1 DEF EvidenceInv, Unanswered
    <3> QED
      BY <3>2, <3>3
  <2> QED
    BY <2>3, <2>5 DEF EvidenceInv
<1> QED
  BY <1>1, <1>3, <1>4, <1>5

\* The request: what an 'accepted' answer reports is on the wire.
LEMMA EvidenceOfSend ==
  ASSUME DispatchInv, EvidenceInv, NEW w \in Worker, Send(w)
  PROVE  EvidenceInv'
<1> DEFINE m == worker[w].claim.msg
           i == worker[w].attempt
<1>0. worker \in [Worker -> WorkerRow] /\ wire \in [Message -> SUBSET Nat]
  BY DEF DispatchInv, Typed, TypeOK
<1>1. m \in Message /\ i \in DOMAIN attempts[m]
  BY DEF Send, DispatchInv, Typed, InHandOK, Claimed
<1>2. PICK answer \in Answer, processed \in BOOLEAN :
        /\ answer = "accepted" => processed
        /\ worker' = [worker EXCEPT ![w] =
                        [worker[w] EXCEPT !.step = "record", !.answer = answer]]
        /\ wire' = IF processed THEN [wire EXCEPT ![m] = wire[m] \cup {i}] ELSE wire
        /\ UNCHANGED <<message, attempts>>
  BY DEF Send, dbVars
<1>3. /\ worker'[w].claim = worker[w].claim /\ worker'[w].attempt = i
      /\ worker'[w].answer = answer /\ worker'[w].step = "record"
      /\ \A v \in Worker : v # w => worker'[v] = worker[v]
  BY <1>0, <1>2 DEF WorkerRow
<1>4. /\ \A n \in Message : wire[n] \subseteq wire'[n]
      /\ \A n \in Message : \A j \in wire'[n] : j \in wire[n] \/ (n = m /\ j = i)
      /\ answer = "accepted" => i \in wire'[m]
  BY <1>0, <1>1, <1>2
<1>5. Asks(w, m, i) /\ \A v \in Worker : \A n, j : Asks(v, n, j)' => Asks(v, n, j)
  BY <1>3 DEF Asking, Asks, Send
<1>6. EvidenceFirst'
  <2> HIDE DEF m, i
  <2> QED
    BY <1>1, <1>2, <1>4 DEF EvidenceInv, EvidenceFirst
<1>7. Unanswered'
  <2> SUFFICES ASSUME NEW v \in Worker, NEW n \in Message, NEW j \in DOMAIN attempts[n],
                      Asks(v, n, j)'
               PROVE  /\ attempts[n][j].outcome # "accepted"
                      /\ worker'[v].step = "record" /\ worker'[v].answer = "accepted" =>
                           j \in wire'[n]
                      /\ \A u \in Worker : Asks(u, n, j)' => u = v
    BY <1>2 DEF Unanswered
  <2>1. Asks(v, n, j)
    BY <1>5
  <2>2. v = w => n = m /\ j = i
    BY <2>1 DEF Asks
  <2> QED
    BY <1>3, <1>4, <1>5, <2>1, <2>2 DEF EvidenceInv, Unanswered
<1> QED
  BY <1>6, <1>7 DEF EvidenceInv

\* The answer is written to the attempt the worker opened, which nobody else
\* answers; an accepted command names that attempt.
LEMMA EvidenceOfRecord ==
  ASSUME DispatchInv, EvidenceInv, NEW w \in Worker, Record(w)
  PROVE  EvidenceInv'
<1> DEFINE c == worker[w].claim
           n == c.msg
           i == worker[w].attempt
           answer == worker[w].answer
<1>0. /\ worker \in [Worker -> WorkerRow] /\ message \in [Message -> MessageRow]
      /\ attempts \in [Message -> Seq(Attempt)]
  BY DEF DispatchInv, Typed, TypeOK
<1>1. /\ c \in Claimed /\ n \in Message /\ i \in DOMAIN attempts[n] /\ i \in Nat
      /\ Asking(w) /\ answer \in Answer
  BY <1>0 DEF Record, Asking, DispatchInv, Typed, InHandOK, Claimed, WorkerRow
<1>2. /\ attempts[n][i].outcome # "accepted"
      /\ answer = "accepted" => i \in wire[n]
      /\ \A v \in Worker : Asks(v, n, i) => v = w
  <2>1. Asks(w, n, i)
    BY <1>1 DEF Asks
  <2> QED
    BY <1>1, <2>1 DEF EvidenceInv, Unanswered, Record
<1>3. attempts' = [attempts EXCEPT ![n][i] = [age |-> 0, outcome |-> Evidence(answer)]]
      /\ UNCHANGED wire
  BY DEF Record
<1>4. /\ \A m \in Message : DOMAIN attempts'[m] = DOMAIN attempts[m]
      /\ \A m \in Message : \A j \in DOMAIN attempts[m] :
           attempts'[m][j] = IF m = n /\ j = i
                             THEN [age |-> 0, outcome |-> Evidence(answer)]
                             ELSE attempts[m][j]
  BY <1>0, <1>1, <1>3
<1>5. worker'[w].step \notin {"send", "record"}
      /\ \A v \in Worker : v # w => worker'[v] = worker[v]
  <2> DEFINE told == [worker[w] EXCEPT !.step = "project", !.result = ResultOf(c, answer)]
  <2>1. worker' = [worker EXCEPT ![w] = Proceed(worker[w])] \/ worker' = [worker EXCEPT ![w] = told]
    BY DEF Record, AfterRecord
  <2>2. told.step = "project" /\ Proceed(worker[w]).step \in {"idle", "recover", "prepare"}
    BY <1>0, ProceedType DEF WorkerRow
  <2> HIDE DEF told
  <2> QED
    BY <1>0, <2>1, <2>2
<1>6. ASSUME NEW m \in Message, message'[m].command = "provider_accepted"
      PROVE  \/ /\ message[m].command = "provider_accepted"
                /\ message'[m].provider = message[m].provider
             \/ m = n /\ answer = "accepted" /\ message'[m].provider = i
  <2>1. CASE ~HoldsFence(c)
    BY <1>6, <2>1 DEF Record
  <2>2. CASE HoldsFence(c) /\ Retries(c, answer)
    <3>1. message' = [message EXCEPT ![n] = Settled(n, "retry_scheduled", 0)]
      BY <2>2 DEF Record, Reschedule
    <3>2. Settled(n, "retry_scheduled", 0).command = "retry_scheduled"
      BY <1>1, SettledParts DEF DispatchInv, Typed, CommandState, Pending
    <3> QED
      BY <1>0, <1>6, <3>1, <3>2
  <2>3. CASE HoldsFence(c) /\ ~Retries(c, answer)
    <3> DEFINE provider == IF answer = "accepted" THEN i ELSE 0
    <3>1. message' = [message EXCEPT ![n] = Settled(n, Verdict(c, answer), provider)]
      BY <2>3 DEF Record, Conclude
    <3>2. Verdict(c, answer) \in CommandState /\ provider \in Nat
      BY <1>1 DEF Verdict, CommandState, Decided
    <3>3. /\ Settled(n, Verdict(c, answer), provider).command = Verdict(c, answer)
          /\ Settled(n, Verdict(c, answer), provider).provider =
               IF provider = 0 THEN message[n].provider ELSE provider
      BY <1>1, <3>2, SettledParts DEF DispatchInv, Typed
    <3>4. i # 0
      BY <1>0, <1>1
    <3>5. CASE m = n
      <4>1. Verdict(c, answer) = "provider_accepted"
        BY <1>0, <1>6, <3>1, <3>3, <3>5
      <4>2. answer = "accepted"
        BY <4>1 DEF Verdict
      <4> QED
        BY <1>0, <3>1, <3>3, <3>4, <3>5, <4>2
    <3>6. CASE m # n
      BY <1>0, <1>6, <3>1, <3>6
    <3> QED
      BY <3>5, <3>6
  <2> QED
    BY <2>1, <2>2, <2>3
<1> HIDE DEF n, i, answer, c
<1>7. EvidenceFirst'
  <2> SUFFICES ASSUME NEW m \in Message
               PROVE  /\ \A j \in wire[m] : j \in DOMAIN attempts'[m]
                      /\ message'[m].command = "provider_accepted" =>
                           /\ message'[m].provider \in wire[m]
                           /\ attempts'[m][message'[m].provider].outcome = "accepted"
    BY <1>3 DEF EvidenceFirst
  <2>1. \A j \in wire[m] : j \in DOMAIN attempts[m]
    BY DEF EvidenceInv, EvidenceFirst
  <2>2. ASSUME message[m].command = "provider_accepted"
        PROVE  /\ message[m].provider \in wire[m]
               /\ message[m].provider \in DOMAIN attempts[m]
               /\ attempts[m][message[m].provider].outcome = "accepted"
    BY <2>1, <2>2 DEF EvidenceInv, EvidenceFirst
  <2> QED
    BY <1>1, <1>2, <1>4, <1>6, <2>1, <2>2 DEF Evidence
<1>8. Unanswered'
  <2> SUFFICES ASSUME NEW v \in Worker, NEW m \in Message, NEW j \in DOMAIN attempts'[m],
                      Asks(v, m, j)'
               PROVE  /\ attempts'[m][j].outcome # "accepted"
                      /\ worker'[v].step = "record" /\ worker'[v].answer = "accepted" =>
                           j \in wire[m]
                      /\ \A u \in Worker : Asks(u, m, j)' => u = v
    BY <1>3 DEF Unanswered
  <2>1. \A u \in Worker : Asks(u, m, j)' => u # w /\ worker'[u] = worker[u] /\ Asks(u, m, j)
    BY <1>5 DEF Asking, Asks
  <2>2. j \in DOMAIN attempts[m] /\ ~(m = n /\ j = i)
    BY <1>2, <1>4, <2>1
  <2> QED
    BY <1>4, <2>1, <2>2 DEF EvidenceInv, Unanswered
<1> QED
  BY <1>7, <1>8 DEF EvidenceInv

\* EvidenceInv survives every step.
LEMMA EvidenceStep == DispatchInv /\ EvidenceInv /\ [Next]_vars => EvidenceInv'
<1> SUFFICES ASSUME DispatchInv, EvidenceInv, [Next]_vars PROVE EvidenceInv'
  OBVIOUS
<1>0. worker \in [Worker -> WorkerRow] /\ message \in [Message -> MessageRow]
  BY DEF DispatchInv, Typed, TypeOK
<1> DEFINE Still == LedgerStays /\ NoneAccepted /\ NobodyAsks /\ UNCHANGED wire
<1>1. CASE UNCHANGED vars
  <2>1. Still
    BY <1>1 DEF vars, dbVars, LedgerStays, NoneAccepted, NobodyAsks
  <2> QED
    BY <2>1, EvidenceKept
<1>2. ASSUME NEW m \in Message, Enqueue(m) PROVE EvidenceInv'
  <2>1. Still
    BY <1>0, <1>2 DEF Enqueue, LedgerStays, NoneAccepted, NobodyAsks, MessageRow
  <2> QED
    BY <2>1, EvidenceKept
<1>3. CASE \/ \E p \in Peer : ChangePermit(p)
           \/ \E t \in Tenant : Disconnect(t)
  <2>1. Still
    BY <1>3 DEF ChangePermit, Disconnect, dbVars, LedgerStays, NoneAccepted, NobodyAsks
  <2> QED
    BY <2>1, EvidenceKept
<1>4. ASSUME NEW w \in Worker, Crash(w) PROVE EvidenceInv'
  <2>1. Still
    BY <1>0, <1>4 DEF Crash, dbVars, LedgerStays, NoneAccepted, NobodyAsks, Idle
  <2> QED
    BY <2>1, EvidenceKept
<1>5. ASSUME NEW w \in Worker, StartRound(w) PROVE EvidenceInv'
  <2>1. Still
    BY <1>0, <1>5 DEF StartRound, dbVars, LedgerStays, NoneAccepted, NobodyAsks, Idle
  <2> QED
    BY <2>1, EvidenceKept
<1>6. ASSUME NEW w \in Worker, Project(w) PROVE EvidenceInv'
  <2>1. Still
    BY <1>0, <1>6 DEF Project, dbVars, LedgerStays, NoneAccepted, NobodyAsks, WorkerRow
  <2> QED
    BY <2>1, EvidenceKept
<1>7. ASSUME NEW w \in Worker, Finish(w) PROVE EvidenceInv'
  <2>1. worker' = [worker EXCEPT ![w] = Proceed(worker[w])]
    BY <1>7 DEF Finish
  <2>2. NobodyAsks
    BY <1>0, <2>1, ProceedType DEF NobodyAsks
  <2>3. Still
    BY <1>7, <2>2 DEF Finish, dbVars, LedgerStays, NoneAccepted
  <2> QED
    BY <2>3, EvidenceKept
<1>8. ASSUME NEW link \in [Recipient -> Message \ Direct], Broadcast(link) PROVE EvidenceInv'
  <2>1. PICK new \in SUBSET Message :
          /\ message' = [m \in Message |-> IF m \in new
               THEN [message[m] EXCEPT !.command = "queued"] ELSE message[m]]
          /\ UNCHANGED <<attempts, wire, worker>>
    BY <1>8, BroadcastParts
  <2>2. Still
    BY <1>0, <2>1 DEF LedgerStays, NoneAccepted, NobodyAsks, MessageRow
  <2> QED
    BY <2>2, EvidenceKept
<1> QED
  BY <1>1, <1>2, <1>3, <1>4, <1>5, <1>6, <1>7, <1>8, EvidenceOfTick, EvidenceOfRecover,
     EvidenceOfClaim, EvidenceOfPrepare, EvidenceOfSend, EvidenceOfRecord
  DEF Next, Serve, Environment, WorkerStep

\* EvidenceInv holds at the start.
LEMMA EvidenceInit == Init => EvidenceInv
BY DEF Init, EvidenceInv, EvidenceFirst, Unanswered, Asking, Idle

\* DEL-12 for any number of workers, crashes and expired leases: whatever the
\* provider processed was in the ledger before the request left, and an accepted
\* command names an attempt the provider accepted.
THEOREM LedgerKnewFirst == Spec => []EvidenceFirst
<1>1. EvidenceInv => EvidenceFirst
  BY DEF EvidenceInv
<1> QED
  BY <1>1, EvidenceInit, EvidenceStep, AlwaysInv, PTL DEF Spec

-----------------------------------------------------------------------------
(* Copies on the wire.  A worker that outlives its lease may ask while others *)
(* do; without one, each crash costs one copy at most.                        *)

\* A claim that its worker has not recorded yet.
Busy(w, c) == c \in worker[w].todo \/ (Asking(w) /\ c = worker[w].claim)
\* A worker that may still send this command.
MaySend(w, m) == \/ \E c \in worker[w].todo : c.msg = m
                 \/ worker[w].step = "send" /\ worker[w].claim.msg = m
\* A worker about to record that the provider took it, or may have.
MayBeTaken(w, m) == /\ worker[w].step = "record" /\ worker[w].claim.msg = m
                    /\ worker[w].answer \in {"accepted", "outcome_unknown"}

\* One worker at a time is busy with a command, once, and as long as the command
\* waits in the outbox that worker has its lease and its version.
LeasesHold ==
  \A w \in Worker : \A c \in Held(w) : Busy(w, c) =>
    /\ c.msg \in outbox => HoldsFence(c) /\ row[c.msg].leased /\ row[c.msg].left > 0
    /\ Asking(w) => worker[w].claim \notin worker[w].todo
    /\ \A v \in Worker : \A d \in Held(v) : Busy(v, d) /\ d.msg = c.msg => v = w /\ d = c

\* Nobody will send this command again, unless a crash forgets the answer.
Spent(m) ==
  /\ \A w \in Worker : ~MaySend(w, m)
  /\ \/ Created(m) /\ m \notin outbox
     \/ \E w \in Worker : MayBeTaken(w, m)

CopiesOf(m) ==
  /\ IsFiniteSet(wire[m])
  /\ Cardinality(wire[m]) <= crashes + (IF Spent(m) THEN 1 ELSE 0)

CopiesInv == LeasesHold /\ \A m \in Message : CopiesOf(m)

\* What a step must leave alone for LeasesHold to stay: no new claim, and the
\* rows of the claims that are still busy.
NothingNew == \A w \in Worker :
  /\ \A c \in Held(w)' : Busy(w, c)' => c \in Held(w) /\ Busy(w, c)
  /\ Asking(w)' => worker'[w].claim \notin worker'[w].todo
RowHeld(m) ==
  m \in outbox' => /\ m \in outbox /\ message'[m].version = message[m].version
                   /\ row'[m].leased = row[m].leased
                   /\ row[m].left > 0 => row'[m].left > 0
RowsHeld == \A w \in Worker : \A c \in Held(w)' : Busy(w, c)' => RowHeld(c.msg)

LEMMA LeasesKept ==
  ASSUME LeasesHold, NothingNew, RowsHeld
  PROVE  LeasesHold'
<1> SUFFICES ASSUME NEW w \in Worker, NEW c \in Held(w)', Busy(w, c)'
             PROVE  /\ c.msg \in outbox' => HoldsFence(c)' /\ row'[c.msg].leased
                                            /\ row'[c.msg].left > 0
                    /\ Asking(w)' => worker'[w].claim \notin worker'[w].todo
                    /\ \A v \in Worker : \A d \in Held(v)' :
                         Busy(v, d)' /\ d.msg = c.msg => v = w /\ d = c
  BY DEF LeasesHold
<1>1. c \in Held(w) /\ Busy(w, c) /\ RowHeld(c.msg)
  BY DEF NothingNew, RowsHeld
<1>2. /\ c.msg \in outbox => HoldsFence(c) /\ row[c.msg].leased /\ row[c.msg].left > 0
      /\ \A v \in Worker : \A d \in Held(v) : Busy(v, d) /\ d.msg = c.msg => v = w /\ d = c
  BY <1>1 DEF LeasesHold
<1>3. c.msg \in outbox' => HoldsFence(c)' /\ row'[c.msg].leased /\ row'[c.msg].left > 0
  BY <1>1, <1>2 DEF RowHeld, HoldsFence
<1>4. \A v \in Worker : \A d \in Held(v)' : Busy(v, d)' /\ d.msg = c.msg => v = w /\ d = c
  BY <1>2 DEF NothingNew
<1> QED
  BY <1>3, <1>4 DEF NothingNew

\* Copies are counted up only by a request, and a spent command stays spent as
\* long as what its worker is about to record is not forgotten.
LEMMA CopiesKept ==
  ASSUME DispatchInv, [Next]_vars, NEW m \in Message, CopiesOf(m),
         wire'[m] = wire[m], crashes' = crashes,
         \A w \in Worker : MaySend(w, m)' => MaySend(w, m),
         \A w \in Worker : MayBeTaken(w, m) =>
           MayBeTaken(w, m)' \/ (Created(m)' /\ m \notin outbox')
  PROVE  CopiesOf(m)'
<1>1. Created(m) /\ m \notin outbox => Created(m)' /\ m \notin outbox'
  <2>1. Effect(m)
    BY Effects
  <2>2. m \in outbox <=> message[m].command \in Pending
    BY DEF DispatchInv, OutboxHoldsPending
  <2> QED
    BY <2>1, <2>2 DEF Effect, Kept, Born, Taken, PutBack, Closed, Created, Pending, Decided
<1>2. Spent(m) => Spent(m)'
  BY <1>1 DEF Spent
<1>3. Cardinality(wire[m]) \in Nat /\ crashes \in Nat
  BY FS_CardinalityType DEF CopiesOf, DispatchInv, Typed, TypeOK
<1> QED
  BY <1>2, <1>3 DEF CopiesOf

\* A worker that only lets go of what it has.
LetsGo(w) ==
  /\ \A v \in Worker : v # w => worker'[v] = worker[v]
  /\ worker'[w].todo \subseteq worker[w].todo
  /\ worker'[w].step \notin {"send", "record"}

LEMMA LettingGo ==
  ASSUME DispatchInv, LeasesHold, NEW w \in Worker, LetsGo(w)
  PROVE  /\ NothingNew
         /\ \A m \in Message : \A v \in Worker :
              /\ MaySend(v, m)' => MaySend(v, m)
              /\ v # w /\ MayBeTaken(v, m) => MayBeTaken(v, m)'
<1>1. ASSUME NEW v \in Worker, v # w
      PROVE  /\ Held(v)' = Held(v) /\ \A c : Busy(v, c)' <=> Busy(v, c)
             /\ \A m \in Message : MaySend(v, m)' = MaySend(v, m)
             /\ \A m \in Message : MayBeTaken(v, m)' = MayBeTaken(v, m)
             /\ Asking(v)' => worker'[v].claim \notin worker'[v].todo
  <2>1. worker'[v] = worker[v]
    BY <1>1 DEF LetsGo
  <2>2. Asking(v) => worker[v].claim \in Held(v)
    BY ConstantFacts DEF Asking, Held, DispatchInv, Typed, InHandOK
  <2>3. Asking(v) => worker[v].claim \notin worker[v].todo
    BY <2>2 DEF LeasesHold, Busy
  <2> QED
    BY <2>1, <2>3 DEF Held, Busy, Asking, MaySend, MayBeTaken
<1>2. /\ ~Asking(w)' /\ \A c : Busy(w, c)' => c \in worker[w].todo
      /\ \A m \in Message : MaySend(w, m)' => MaySend(w, m)
  BY DEF LetsGo, Asking, Busy, MaySend
<1>3. NothingNew
  <2> SUFFICES ASSUME NEW v \in Worker
               PROVE  /\ \A c \in Held(v)' : Busy(v, c)' => c \in Held(v) /\ Busy(v, c)
                      /\ Asking(v)' => worker'[v].claim \notin worker'[v].todo
    BY DEF NothingNew
  <2> QED
    BY <1>1, <1>2 DEF Held, Busy
<1> QED
  BY <1>1, <1>2, <1>3

\* A step that only lets go, of nothing about to be recorded, and leaves every
\* row of the outbox as it is or takes it out.
LEMMA CopiesOfLettingGo ==
  ASSUME DispatchInv, CopiesInv, [Next]_vars, NEW w \in Worker, LetsGo(w),
         worker[w].step # "record", UNCHANGED <<wire, crashes>>,
         \A m \in Message : RowHeld(m)
  PROVE  CopiesInv'
<1>1. LeasesHold
  BY DEF CopiesInv
<1>2. /\ NothingNew
      /\ \A m \in Message : \A v \in Worker :
           /\ MaySend(v, m)' => MaySend(v, m)
           /\ v # w /\ MayBeTaken(v, m) => MayBeTaken(v, m)'
  BY <1>1, LettingGo
<1>3. \A v \in Worker : \A c \in Held(v) : c.msg \in Message
  BY DEF Held, DispatchInv, Typed, TypeOK, WorkerRow, Claimed
<1>4. LeasesHold'
  BY <1>1, <1>2, <1>3, LeasesKept DEF RowsHeld, NothingNew
<1>5. ASSUME NEW m \in Message PROVE CopiesOf(m)'
  <2>1. \A v \in Worker : MayBeTaken(v, m) => MayBeTaken(v, m)'
    BY <1>2 DEF MayBeTaken
  <2> QED
    BY <1>2, <2>1, CopiesKept DEF CopiesInv
<1> QED
  BY <1>4, <1>5 DEF CopiesInv

\* New commands have never been claimed.
LEMMA CopiesOfNewCommands ==
  ASSUME DispatchInv, CopiesInv, [Next]_vars, NEW new \in SUBSET Message, Schedule(new),
         \A m \in new : message[m].command = "absent",
         \A m \in Message : message'[m].version = message[m].version,
         UNCHANGED <<worker, wire, crashes>>
  PROVE  CopiesInv'
<1>1. LeasesHold'
  <2>1. NothingNew
    <3>1. \A v \in Worker : Asking(v) => worker[v].claim \in Held(v) /\ Busy(v, worker[v].claim)
      BY ConstantFacts DEF Asking, Busy, Held, DispatchInv, Typed, InHandOK
    <3> QED
      BY <3>1 DEF NothingNew, Held, Busy, Asking, CopiesInv, LeasesHold
  <2>2. RowsHeld
    <3> SUFFICES ASSUME NEW w \in Worker, NEW c \in Held(w) PROVE RowHeld(c.msg)
      BY DEF RowsHeld, Held
    <3>1. c.msg \in Message /\ c.msg \notin new
      <4>1. worker[w] \in WorkerRow /\ Created(c.msg)
        BY DEF DispatchInv, Typed, TypeOK, OnlyCreated
      <4>2. c \in Claimed
        BY <4>1 DEF Held, WorkerRow
      <4> QED
        BY <4>1, <4>2 DEF Claimed, Created
    <3>2. row'[c.msg] = row[c.msg] /\ (c.msg \in outbox' => c.msg \in outbox)
      BY <3>1 DEF Schedule
    <3> QED
      BY <3>1, <3>2 DEF RowHeld
  <2> QED
    BY <2>1, <2>2, LeasesKept DEF CopiesInv
<1>2. ASSUME NEW m \in Message PROVE CopiesOf(m)'
  BY CopiesKept DEF CopiesInv, MaySend, MayBeTaken
<1> QED
  BY <1>1, <1>2 DEF CopiesInv

\* Where nobody outlives a lease the clock stops short of ending one in hand.
LEMMA CopiesOfTick ==
  ASSUME ~SlowWorkers, DispatchInv, CopiesInv, [Next]_vars, Tick
  PROVE  CopiesInv'
<1>0. worker \in [Worker -> WorkerRow] /\ row \in [Message -> OutboxRow]
  BY DEF DispatchInv, Typed, TypeOK
<1>1. LeasesHold'
  <2>1. NothingNew
    <3>1. \A v \in Worker : Asking(v) => worker[v].claim \in Held(v) /\ Busy(v, worker[v].claim)
      BY ConstantFacts DEF Asking, Busy, Held, DispatchInv, Typed, InHandOK
    <3> QED
      BY <3>1 DEF NothingNew, Held, Busy, Asking, CopiesInv, LeasesHold, Tick
  <2>2. RowsHeld
    <3> SUFFICES ASSUME NEW w \in Worker, NEW c \in Held(w), Busy(w, c), c.msg \in outbox
                 PROVE  row'[c.msg].leased = row[c.msg].leased /\ row'[c.msg].left > 0
      BY DEF RowsHeld, RowHeld, Held, Busy, Asking, Tick
    <3>1. c.msg \in Message /\ c.msg \in InHand(w)
      BY <1>0 DEF Held, WorkerRow, Claimed, DispatchInv, Typed, TypeOK, InHand
    <3>2. row[c.msg].leased
      BY DEF CopiesInv, LeasesHold
    <3>3. row[c.msg].left > 1
      BY <3>1, <3>2 DEF Tick
    <3>4. row'[c.msg] = [row[c.msg] EXCEPT !.delay = Lower(row[c.msg].delay),
                                          !.left = Lower(row[c.msg].left)]
      BY <3>1 DEF Tick
    <3>5. row[c.msg] \in OutboxRow
      BY <1>0, <3>1
    <3>6. row'[c.msg].left = Lower(row[c.msg].left) /\ row'[c.msg].leased = row[c.msg].leased
      BY <3>4, <3>5 DEF OutboxRow
    <3>7. row[c.msg].left \in Nat
      BY <3>5 DEF OutboxRow
    <3> QED
      BY <3>3, <3>6, <3>7 DEF Lower
  <2> QED
    BY <2>1, <2>2, LeasesKept DEF CopiesInv
<1>2. ASSUME NEW m \in Message PROVE CopiesOf(m)'
  BY CopiesKept DEF CopiesInv, MaySend, MayBeTaken, Tick
<1> QED
  BY <1>1, <1>2 DEF CopiesInv

\* A crash may forget one answer, and allows for one more copy.
LEMMA CopiesOfCrash ==
  ASSUME DispatchInv, CopiesInv, NEW w \in Worker, Crash(w)
  PROVE  CopiesInv'
<1>0. worker \in [Worker -> WorkerRow] /\ UNCHANGED <<message, outbox, row, wire>>
  BY DEF DispatchInv, Typed, TypeOK, Crash, dbVars
<1>1. LetsGo(w)
  BY <1>0 DEF LetsGo, Crash, Idle
<1>2. LeasesHold'
  <2>1. NothingNew /\ RowsHeld
    BY <1>0, <1>1, LettingGo DEF CopiesInv, RowsHeld, RowHeld
  <2> QED
    BY <2>1, LeasesKept DEF CopiesInv
<1>3. ASSUME NEW m \in Message PROVE CopiesOf(m)'
  <2>1. Cardinality(wire[m]) \in Nat /\ crashes \in Nat /\ crashes' = crashes + 1
    BY FS_CardinalityType DEF CopiesInv, CopiesOf, DispatchInv, Typed, TypeOK, Crash
  <2> QED
    BY <1>0, <2>1 DEF CopiesInv, CopiesOf
<1> QED
  BY <1>2, <1>3 DEF CopiesInv

\* A recovery takes what it settles out of the outbox.
LEMMA CopiesOfRecover ==
  ASSUME DispatchInv, CopiesInv, [Next]_vars, NEW w \in Worker, Recover(w)
  PROVE  CopiesInv'
<1>0. worker \in [Worker -> WorkerRow] /\ message \in [Message -> MessageRow]
  BY DEF DispatchInv, Typed, TypeOK
<1>1. worker[w].step = "recover" /\ UNCHANGED <<wire, crashes>>
  BY DEF Recover, Throws
<1>2. LetsGo(w)
  <2>1. worker' = [worker EXCEPT ![w].step = "claim"] \/ worker' = [worker EXCEPT ![w] = Idle]
    BY DEF Recover, Throws
  <2> QED
    BY <1>0, <2>1 DEF LetsGo, Idle, WorkerRow
<1>3. ASSUME NEW m \in Message PROVE RowHeld(m)
  <2>1. CASE Throws(w)
    BY <2>1 DEF Throws, dbVars, RowHeld
  <2>2. CASE ~Throws(w)
    <3>1. PICK lost \in SUBSET Message :
            /\ message'[m] = IF m \in lost THEN Unknown(FirstOf(worker[w].plan), m) ELSE message[m]
            /\ DeleteRows(lost)
      BY <2>2 DEF Recover
    <3> QED
      BY <3>1 DEF DeleteRows, RowHeld
  <2> QED
    BY <2>1, <2>2
<1> QED
  BY <1>1, <1>2, <1>3, CopiesOfLettingGo

\* A worker that begins a round, or projects what it has recorded, lets go.
LEMMA CopiesOfRound ==
  ASSUME DispatchInv, CopiesInv, [Next]_vars, NEW w \in Worker,
         StartRound(w) \/ Project(w) \/ Finish(w)
  PROVE  CopiesInv'
<1>0. worker \in [Worker -> WorkerRow] /\ UNCHANGED <<message, outbox, row, wire, crashes>>
  BY DEF DispatchInv, Typed, TypeOK, StartRound, Project, Finish, dbVars
<1>1. LetsGo(w) /\ worker[w].step # "record"
  <2>1. worker[w].step \in {"idle", "project", "finish"}
    BY DEF StartRound, Project, Finish
  <2>2. CASE StartRound(w)
    BY <1>0, <2>2 DEF StartRound, LetsGo, Idle
  <2>3. CASE Project(w)
    BY <1>0, <2>3 DEF Project, LetsGo, WorkerRow
  <2>4. CASE Finish(w)
    <3>1. worker' = [worker EXCEPT ![w] = Proceed(worker[w])]
      BY <2>4 DEF Finish
    <3>2. worker[w] \in WorkerRow
      BY <1>0
    <3>3. /\ worker'[w] = Proceed(worker[w])
          /\ \A v \in Worker : v # w => worker'[v] = worker[v]
      BY <1>0, <3>1
    <3>4. Proceed(worker[w]).todo \subseteq worker[w].todo
          /\ Proceed(worker[w]).step \in {"idle", "recover", "prepare"}
      BY <3>2, ProceedType
    <3>5. worker[w].step = "finish"
      BY <2>4 DEF Finish
    <3> QED
      BY <3>3, <3>4, <3>5 DEF LetsGo
  <2> QED
    BY <2>1, <2>2, <2>3, <2>4
<1>2. \A m \in Message : RowHeld(m)
  BY <1>0 DEF RowHeld
<1> QED
  BY <1>0, <1>1, <1>2, CopiesOfLettingGo

\* dispatchOne: a skipped command leaves the outbox; one that is begun stays
\* with the worker that claimed it.
LEMMA CopiesOfPrepare ==
  ASSUME DispatchInv, CopiesInv, [Next]_vars, NEW w \in Worker, Prepare(w)
  PROVE  CopiesInv'
<1>0. /\ worker \in [Worker -> WorkerRow] /\ worker[w] \in WorkerRow
      /\ worker[w].step = "prepare" /\ UNCHANGED <<wire, crashes>>
  BY DEF DispatchInv, Typed, TypeOK, Prepare, Skip, Begin, Throws
<1>1. PICK c \in worker[w].todo : Skip(w, c) \/ Begin(w, c)
  BY DEF Prepare
<1>2. CASE Throws(w)
  <2>1. LetsGo(w) /\ \A m \in Message : RowHeld(m)
    BY <1>0, <1>2 DEF Throws, dbVars, LetsGo, RowHeld, Idle
  <2> QED
    BY <1>0, <2>1, CopiesOfLettingGo
<1>3. CASE Skip(w, c) /\ ~Throws(w)
  <2> DEFINE rest == [worker[w] EXCEPT !.todo = worker[w].todo \ {c}]
  <2>1. /\ worker' = [worker EXCEPT ![w] = Proceed(rest)]
        /\ message' = [message EXCEPT ![c.msg] = Settled(c.msg, "skipped", 0)]
        /\ DeleteRows({c.msg})
    BY <1>3 DEF Skip
  <2>2. rest \in WorkerRow /\ rest.todo \subseteq worker[w].todo
    BY <1>0 DEF WorkerRow
  <2> HIDE DEF rest
  <2>3. LetsGo(w)
    BY <1>0, <2>1, <2>2, ProceedType DEF LetsGo
  <2>4. ASSUME NEW m \in Message PROVE RowHeld(m)
    <3>1. message \in [Message -> MessageRow]
      BY DEF DispatchInv, Typed, TypeOK
    <3> QED
      BY <2>1, <3>1 DEF DeleteRows, RowHeld
  <2> QED
    BY <1>0, <2>3, <2>4, CopiesOfLettingGo
<1>4. CASE Begin(w, c)
  <2>1. /\ UNCHANGED <<message, outbox, row>>
        /\ worker'[w].todo = worker[w].todo \ {c} /\ worker'[w].claim = c
        /\ worker'[w].step \in {"send", "record"} /\ worker'[w].answer = "retryable"
        /\ \A v \in Worker : v # w => worker'[v] = worker[v]
    BY <1>0, <1>4 DEF Begin, WorkerRow
  <2>2. NothingNew
    <3> SUFFICES ASSUME NEW v \in Worker
                 PROVE  /\ \A d \in Held(v)' : Busy(v, d)' => d \in Held(v) /\ Busy(v, d)
                        /\ Asking(v)' => worker'[v].claim \notin worker'[v].todo
      BY DEF NothingNew
    <3>1. CASE v = w
      BY <1>1, <2>1, <3>1 DEF Busy, Held
    <3>2. CASE v # w
      <4>1. Asking(v) => worker[v].claim \in Held(v) /\ Busy(v, worker[v].claim)
        BY ConstantFacts DEF Asking, Busy, Held, DispatchInv, Typed, InHandOK
      <4> QED
        BY <2>1, <3>2, <4>1 DEF Held, Busy, Asking, CopiesInv, LeasesHold
    <3> QED
      BY <3>1, <3>2
  <2>3. LeasesHold'
    BY <2>1, <2>2, LeasesKept DEF RowsHeld, RowHeld, CopiesInv
  <2>4. ASSUME NEW m \in Message PROVE CopiesOf(m)'
    <3>1. \A v \in Worker : MaySend(v, m)' => MaySend(v, m)
      BY <1>1, <2>1 DEF MaySend
    <3>2. \A v \in Worker : MayBeTaken(v, m) => MayBeTaken(v, m)'
      BY <1>0, <2>1 DEF MayBeTaken
    <3> QED
      BY <1>0, <3>1, <3>2, CopiesKept DEF CopiesInv
  <2> QED
    BY <2>3, <2>4 DEF CopiesInv
<1> QED
  BY <1>1, <1>2, <1>3, <1>4

\* The request may put a copy on the wire; then its answer ends the command.
LEMMA CopiesOfSend ==
  ASSUME DispatchInv, CopiesInv, [Next]_vars, NEW w \in Worker, Send(w)
  PROVE  CopiesInv'
<1> DEFINE c == worker[w].claim
<1>0. /\ worker \in [Worker -> WorkerRow] /\ worker[w] \in WorkerRow
      /\ worker[w].step = "send" /\ UNCHANGED <<message, outbox, row, crashes>>
      /\ c \in Claimed /\ c.msg \in Message /\ c \in Held(w) /\ Busy(w, c)
      /\ wire \in [Message -> SUBSET Nat]
  BY ConstantFacts DEF DispatchInv, Typed, TypeOK, InHandOK, Send, dbVars, Claimed, Held,
     Busy, Asking
<1>1. PICK answer \in Answer, processed \in BOOLEAN :
        /\ answer \in {"definitely_rejected", "retryable"} => ~processed
        /\ worker' = [worker EXCEPT ![w] =
                        [worker[w] EXCEPT !.step = "record", !.answer = answer]]
        /\ wire' = IF processed
                   THEN [wire EXCEPT ![c.msg] = wire[c.msg] \cup {worker[w].attempt}]
                   ELSE wire
  BY DEF Send
<1>2. /\ worker'[w].step = "record" /\ worker'[w].answer = answer
      /\ worker'[w].claim = c /\ worker'[w].todo = worker[w].todo
      /\ \A v \in Worker : v # w => worker'[v] = worker[v]
  BY <1>0, <1>1 DEF WorkerRow
<1> HIDE DEF c
<1>3. /\ \A v \in Worker : Held(v)' = Held(v) /\ Asking(v)' = Asking(v)
      /\ \A v \in Worker : \A d : Busy(v, d)' = Busy(v, d)
  BY <1>0, <1>2 DEF Held, Busy, Asking, c
<1>4. LeasesHold'
  <2>1. \A v \in Worker : Asking(v) => worker[v].claim \in Held(v) /\ Busy(v, worker[v].claim)
    BY ConstantFacts DEF Asking, Busy, Held, DispatchInv, Typed, InHandOK
  <2>2. \A v \in Worker : worker'[v].claim = worker[v].claim /\ worker'[v].todo = worker[v].todo
    BY <1>2 DEF c
  <2>3. NothingNew
    BY <1>3, <2>1, <2>2 DEF NothingNew, CopiesInv, LeasesHold
  <2> QED
    BY <1>0, <2>3, LeasesKept DEF RowsHeld, RowHeld, CopiesInv
<1>5. \A m \in Message : \A v \in Worker :
        /\ MaySend(v, m)' => MaySend(v, m)
        /\ MayBeTaken(v, m) => MayBeTaken(v, m)'
  BY <1>0, <1>2 DEF MaySend, MayBeTaken
<1>6. ASSUME NEW m \in Message, wire'[m] = wire[m] PROVE CopiesOf(m)'
  BY <1>0, <1>5, <1>6, CopiesKept DEF CopiesInv
<1>7. ASSUME NEW m \in Message, wire'[m] # wire[m] PROVE CopiesOf(m)'
  <2>1. /\ processed /\ m = c.msg /\ wire'[m] = wire[m] \cup {worker[w].attempt}
    BY <1>0, <1>1, <1>7
  <2>2. answer \in {"accepted", "outcome_unknown"}
    BY <1>1, <2>1 DEF Answer
  <2>3. \A v \in Worker : ~MaySend(v, m)'
    <3> SUFFICES ASSUME NEW v \in Worker, MaySend(v, m)' PROVE FALSE
      OBVIOUS
    <3>1. /\ \A d \in Held(v) : Busy(v, d) /\ d.msg = c.msg => v = w /\ d = c
          /\ c \notin worker[w].todo
      BY <1>0 DEF CopiesInv, LeasesHold, Asking, c
    <3>2. PICK d \in Held(v) : Busy(v, d) /\ d.msg = m /\ (d \in worker'[v].todo \/ worker'[v].step = "send")
      <4>1. Asking(v) => worker[v].claim \in Held(v) /\ Busy(v, worker[v].claim)
        BY ConstantFacts DEF Asking, Busy, Held, DispatchInv, Typed, InHandOK
      <4>2. worker'[v].claim = worker[v].claim /\ worker'[v].todo = worker[v].todo
            /\ (worker'[v].step = "send" => worker[v].step = "send")
        BY <1>2 DEF c
      <4> QED
        BY <4>1, <4>2 DEF MaySend, Held, Busy, Asking
    <3> QED
      BY <1>2, <2>1, <3>1, <3>2
  <2>4. Spent(m)'
    BY <1>2, <2>1, <2>2, <2>3 DEF Spent, MayBeTaken
  <2>5. ~Spent(m)
    BY <1>0, <2>1 DEF Spent, MaySend, c
  <2>6. IsFiniteSet(wire[m]) /\ Cardinality(wire[m]) <= crashes
        /\ Cardinality(wire[m]) \in Nat /\ crashes \in Nat
    BY <2>5, FS_CardinalityType DEF CopiesInv, CopiesOf, DispatchInv, Typed, TypeOK
  <2>7. IsFiniteSet(wire'[m]) /\ Cardinality(wire'[m]) <= Cardinality(wire[m]) + 1
    <3>1. PICK before, i : before = wire[m] /\ i = worker[w].attempt
      OBVIOUS
    <3>2. IsFiniteSet(before) /\ Cardinality(before) \in Nat
      BY <2>6, <3>1
    <3>3. /\ IsFiniteSet(before \cup {i})
          /\ Cardinality(before \cup {i}) =
               IF i \in before THEN Cardinality(before) ELSE Cardinality(before) + 1
      BY <3>2, FS_AddElement
    <3>4. Cardinality(before \cup {i}) <= Cardinality(before) + 1
      BY <3>2, <3>3
    <3> QED
      BY <2>1, <3>1, <3>3, <3>4
  <2>8. Cardinality(wire'[m]) \in Nat
    BY <2>7, FS_CardinalityType
  <2> QED
    BY <1>0, <2>4, <2>6, <2>7, <2>8 DEF CopiesOf
<1> QED
  BY <1>4, <1>6, <1>7 DEF CopiesInv

\* A recorded answer ends the command, or puts it back with its lease given up.
LEMMA CopiesOfRecord ==
  ASSUME DispatchInv, CopiesInv, [Next]_vars, NEW w \in Worker, Record(w)
  PROVE  CopiesInv'
<1> DEFINE c == worker[w].claim
           n == c.msg
<1>0. /\ worker \in [Worker -> WorkerRow] /\ worker[w] \in WorkerRow
      /\ message \in [Message -> MessageRow] /\ row \in [Message -> OutboxRow]
      /\ worker[w].step = "record" /\ UNCHANGED <<wire, crashes>>
      /\ c \in Claimed /\ n \in Message /\ c \in Held(w) /\ Busy(w, c) /\ Asking(w)
  BY ConstantFacts DEF DispatchInv, Typed, TypeOK, InHandOK, Record, Claimed, Held,
     Busy, Asking
<1>1. LetsGo(w)
  <2> DEFINE told == [worker[w] EXCEPT !.step = "project",
                                       !.result = ResultOf(c, worker[w].answer)]
  <2>1. worker' = [worker EXCEPT ![w] = Proceed(worker[w])] \/ worker' = [worker EXCEPT ![w] = told]
    BY DEF Record, AfterRecord
  <2>2. /\ told.step = "project" /\ told.todo = worker[w].todo
        /\ Proceed(worker[w]).step \in {"idle", "recover", "prepare"}
        /\ Proceed(worker[w]).todo \subseteq worker[w].todo
    BY <1>0, ProceedType DEF WorkerRow
  <2> HIDE DEF told
  <2> QED
    BY <1>0, <2>1, <2>2 DEF LetsGo
<1> HIDE DEF c, n
<1>2. /\ NothingNew
      /\ \A m \in Message : \A v \in Worker :
           /\ MaySend(v, m)' => MaySend(v, m)
           /\ v # w /\ MayBeTaken(v, m) => MayBeTaken(v, m)'
  BY <1>1, LettingGo DEF CopiesInv
<1>3. /\ n \in outbox => HoldsFence(c)
      /\ c \notin worker[w].todo
      /\ \A v \in Worker : \A d \in Held(v) : Busy(v, d) /\ d.msg = n => v = w /\ d = c
  BY <1>0 DEF CopiesInv, LeasesHold, c, n
<1>4. \A m \in Message : m # n => RowHeld(m)
  <2>1. CASE ~HoldsFence(c)
    BY <2>1 DEF Record, RowHeld, c
  <2>2. CASE HoldsFence(c) /\ Retries(c, worker[w].answer)
    <3>1. /\ message' = [message EXCEPT ![n] = Settled(n, "retry_scheduled", 0)]
          /\ row' = row \/ row' = [row EXCEPT ![n] =
               [EmptyRow EXCEPT !.delay = BackoffBase * 2 ^ (c.tries - 1), !.tries = row[n].tries]]
          /\ outbox' = outbox
      BY <2>2 DEF Record, Reschedule, PlaceRow, c, n
    <3> QED
      BY <1>0, <3>1 DEF RowHeld
  <2>3. CASE HoldsFence(c) /\ ~Retries(c, worker[w].answer)
    <3>1. PICK provider : message' = [message EXCEPT ![n] =
                            Settled(n, Verdict(c, worker[w].answer), provider)]
      BY <2>3 DEF Record, Conclude, c, n
    <3>2. DeleteRows({n})
      BY <2>3 DEF Record, Conclude, c, n
    <3> QED
      BY <1>0, <3>1, <3>2 DEF RowHeld, DeleteRows
  <2> QED
    BY <2>1, <2>2, <2>3
<1>5. LeasesHold'
  <2>1. ASSUME NEW v \in Worker, NEW d \in Held(v)', Busy(v, d)' PROVE d.msg \in Message /\ d.msg # n
    <3>1. d \in Held(v) /\ Busy(v, d)
      BY <1>2, <2>1 DEF NothingNew
    <3>2. d.msg \in Message
      <4>1. worker[v] \in WorkerRow /\ Created(d.msg)
        BY <3>1 DEF DispatchInv, Typed, TypeOK, OnlyCreated
      <4>2. d \in Claimed
        BY <3>1, <4>1 DEF Held, WorkerRow
      <4> QED
        BY <4>2 DEF Claimed
    <3>3. d.msg = n => v = w /\ d = c
      BY <1>3, <3>1
    <3>4. v = w => d \in worker[w].todo
      BY <1>1, <2>1 DEF LetsGo, Busy, Asking
    <3> QED
      BY <1>3, <3>2, <3>3, <3>4
  <2> QED
    BY <1>2, <1>4, <2>1, LeasesKept DEF RowsHeld, CopiesInv
<1>6. ASSUME NEW m \in Message PROVE CopiesOf(m)'
  <2>1. MayBeTaken(w, m) => Created(m)' /\ m \notin outbox'
    <3> SUFFICES ASSUME MayBeTaken(w, m) PROVE Created(m)' /\ m \notin outbox'
      OBVIOUS
    <3>1. m = n /\ ~Retries(c, worker[w].answer)
      BY DEF MayBeTaken, Retries, c, n
    <3>2. Created(m)
      BY <1>0, <3>1 DEF DispatchInv, OnlyCreated, n
    <3>3. Created(m)'
      <4>1. Effect(m)
        BY Effects
      <4> QED
        BY <3>2, <4>1 DEF Effect, Kept, Born, Taken, PutBack, Closed, Created, Decided
    <3>4. m \notin outbox'
      <4>1. CASE HoldsFence(c)
        BY <3>1, <4>1 DEF Record, Conclude, DeleteRows, c, n
      <4>2. CASE ~HoldsFence(c)
        BY <1>3, <3>1, <4>2 DEF Record, c
      <4> QED
        BY <4>1, <4>2
    <3> QED
      BY <3>3, <3>4
  <2> QED
    BY <1>0, <1>2, <2>1, CopiesKept DEF CopiesInv
<1> QED
  BY <1>5, <1>6 DEF CopiesInv

\* A claim takes rows whose lease nobody busy holds, and leases them anew.
LEMMA CopiesOfClaim ==
  ASSUME DispatchInv, CopiesInv, [Next]_vars, NEW w \in Worker, Claim(w)
  PROVE  CopiesInv'
<1>0. /\ worker \in [Worker -> WorkerRow] /\ worker[w] \in WorkerRow
      /\ message \in [Message -> MessageRow] /\ row \in [Message -> OutboxRow]
      /\ outbox \subseteq Message
      /\ worker[w].step = "claim" /\ UNCHANGED <<wire, crashes>>
  BY DEF DispatchInv, Typed, TypeOK, Claim, Take, Throws
<1>1. PICK taken \in SUBSET outbox : /\ \A m \in taken : ~LeaseLive(m)
                                     /\ Take(w, taken) \/ Throws(w)
  BY DEF Claim, Candidates, Eligible, Available
<1>2. CASE Throws(w)
  <2>1. LetsGo(w) /\ \A m \in Message : RowHeld(m)
    BY <1>0, <1>2 DEF Throws, dbVars, LetsGo, RowHeld, Idle
  <2> QED
    BY <1>0, <2>1, CopiesOfLettingGo
<1>3. CASE Take(w, taken)
  <2>1. /\ worker'[w].todo \subseteq {ClaimOf(m) : m \in taken}
        /\ worker'[w].step \notin {"send", "record"} /\ worker'[w].claim = NoClaim
        /\ \A v \in Worker : v # w => worker'[v] = worker[v]
    <3>1. {ClaimOf(m) : m \in taken} \in SUBSET Claimed
      BY <1>0, ClaimType DEF DispatchInv
    <3>2. PICK full \in WorkerRow : /\ full.todo = {ClaimOf(m) : m \in taken}
                                    /\ worker' = [worker EXCEPT ![w] = Proceed(full)]
      <4> DEFINE full == [worker[w] EXCEPT !.todo = {ClaimOf(m) : m \in taken}]
      <4>1. full \in WorkerRow /\ full.todo = {ClaimOf(m) : m \in taken}
        BY <1>0, <3>1 DEF WorkerRow
      <4>2. worker' = [worker EXCEPT ![w] = Proceed(full)]
        BY <1>3 DEF Take
      <4> HIDE DEF full
      <4> QED
        BY <4>1, <4>2
    <3> QED
      BY <1>0, <3>2, ProceedType
  <2>2. \A m \in taken : /\ m \in outbox' /\ message'[m].version = message[m].version + 1
                         /\ row'[m].leased /\ row'[m].left > 0
                         /\ ClaimOf(m).msg = m /\ ClaimOf(m).version = message[m].version + 1
    <3> SUFFICES ASSUME NEW m \in taken
                 PROVE  /\ m \in outbox' /\ message'[m].version = message[m].version + 1
                        /\ row'[m].leased /\ row'[m].left > 0
                        /\ ClaimOf(m).msg = m /\ ClaimOf(m).version = message[m].version + 1
      OBVIOUS
    <3>1. /\ message'[m] = [message[m] EXCEPT !.command = "dispatching",
                                              !.version = message[m].version + 1]
          /\ row'[m] = [row[m] EXCEPT !.tries = row[m].tries + 1, !.leased = TRUE,
                                      !.left = LeaseTicks]
          /\ m \in outbox'
      BY <1>0, <1>3 DEF Take
    <3>2. message[m] \in MessageRow /\ row[m] \in OutboxRow
      BY <1>0
    <3>3. message'[m].version = message[m].version + 1
      BY <3>1, <3>2 DEF MessageRow
    <3>4. row'[m].leased /\ row'[m].left = LeaseTicks
      BY <3>1, <3>2 DEF OutboxRow
    <3>5. ClaimOf(m).msg = m /\ ClaimOf(m).version = message[m].version + 1
      BY DEF ClaimOf
    <3> QED
      BY <3>1, <3>3, <3>4, <3>5, DurationAssumption
  <2>3. \A m \in Message \ taken : RowHeld(m)
    BY <1>0, <1>3 DEF Take, RowHeld
  <2>4. \A v \in Worker : \A d \in Held(v) : Busy(v, d) => d.msg \notin taken
    BY <1>1 DEF CopiesInv, LeasesHold, LeaseLive, Leased
  <2>5. \A v \in Worker : Asking(v) => worker[v].claim \in Held(v) /\ Busy(v, worker[v].claim)
    BY ConstantFacts DEF Asking, Busy, Held, DispatchInv, Typed, InHandOK
  <2>6. \A v \in Worker : \A d \in Held(v)' : Busy(v, d)' =>
          \/ v # w /\ d \in Held(v) /\ Busy(v, d) /\ d.msg \in Message /\ d.msg \notin taken
          \/ v = w /\ d.msg \in taken /\ d = ClaimOf(d.msg)
    <3> SUFFICES ASSUME NEW v \in Worker, NEW d \in Held(v)', Busy(v, d)'
                 PROVE  \/ v # w /\ d \in Held(v) /\ Busy(v, d) /\ d.msg \in Message /\ d.msg \notin taken
                        \/ v = w /\ d.msg \in taken /\ d = ClaimOf(d.msg)
      OBVIOUS
    <3>1. CASE v = w
      BY <2>1, <2>2, <3>1 DEF Busy, Asking
    <3>2. CASE v # w
      <4>1. d \in Held(v) /\ Busy(v, d)
        BY <2>1, <3>2 DEF Held, Busy, Asking
      <4>2. d \in Claimed
        BY <1>0, <4>1 DEF Held, WorkerRow
      <4> QED
        BY <2>4, <3>2, <4>1, <4>2 DEF Claimed
    <3> QED
      BY <3>1, <3>2
  <2>7. LeasesHold'
    <3> SUFFICES ASSUME NEW v \in Worker, NEW d \in Held(v)', Busy(v, d)'
                 PROVE  /\ d.msg \in outbox' => HoldsFence(d)' /\ row'[d.msg].leased
                                                /\ row'[d.msg].left > 0
                        /\ Asking(v)' => worker'[v].claim \notin worker'[v].todo
                        /\ \A u \in Worker : \A e \in Held(u)' :
                             Busy(u, e)' /\ e.msg = d.msg => u = v /\ e = d
      BY DEF LeasesHold
    <3>1. Asking(v)' => worker'[v].claim \notin worker'[v].todo
      BY <2>1, <2>5 DEF Asking, CopiesInv, LeasesHold
    <3>2. CASE v = w
      <4>1. d.msg \in taken /\ d = ClaimOf(d.msg)
        BY <2>6, <3>2
      <4> QED
        BY <2>2, <2>6, <3>1, <3>2, <4>1 DEF HoldsFence
    <3>3. CASE v # w
      <4>1. d \in Held(v) /\ Busy(v, d) /\ d.msg \in Message /\ d.msg \notin taken
        BY <2>6, <3>3
      <4>2. RowHeld(d.msg)
        BY <2>3, <4>1
      <4>3. /\ d.msg \in outbox => HoldsFence(d) /\ row[d.msg].leased /\ row[d.msg].left > 0
            /\ \A u \in Worker : \A e \in Held(u) : Busy(u, e) /\ e.msg = d.msg => u = v /\ e = d
        BY <4>1 DEF CopiesInv, LeasesHold
      <4> QED
        BY <2>6, <3>1, <4>1, <4>2, <4>3 DEF RowHeld, HoldsFence
    <3> QED
      BY <3>2, <3>3
  <2>8. ASSUME NEW m \in Message PROVE CopiesOf(m)'
    <3>1. CASE m \in taken
      <4>1. ~Spent(m)
        <5>1. \A v \in Worker : ~MayBeTaken(v, m)
          BY <2>4, <2>5, <3>1 DEF MayBeTaken, Asking
        <5> QED
          BY <3>1, <5>1 DEF Spent
      <4>2. Cardinality(wire[m]) \in Nat /\ crashes \in Nat
        BY FS_CardinalityType DEF CopiesInv, CopiesOf, DispatchInv, Typed, TypeOK
      <4> QED
        BY <1>0, <4>1, <4>2 DEF CopiesInv, CopiesOf
    <3>2. CASE m \notin taken
      <4>1. \A v \in Worker : MaySend(v, m)' => MaySend(v, m)
        BY <2>1, <2>2, <3>2 DEF MaySend
      <4>2. \A v \in Worker : MayBeTaken(v, m) => MayBeTaken(v, m)'
        BY <1>0, <2>1 DEF MayBeTaken
      <4> QED
        BY <1>0, <4>1, <4>2, CopiesKept DEF CopiesInv
    <3> QED
      BY <3>1, <3>2
  <2> QED
    BY <2>7, <2>8 DEF CopiesInv
<1> QED
  BY <1>1, <1>2, <1>3

\* CopiesInv survives every step, where nobody outlives a lease.
LEMMA CopiesStep ==
  ASSUME ~SlowWorkers, DispatchInv, CopiesInv, [Next]_vars
  PROVE  CopiesInv'
<1>1. CASE \/ UNCHANGED vars
           \/ \E p \in Peer : ChangePermit(p)
           \/ \E t \in Tenant : Disconnect(t)
  <2>1. UNCHANGED <<message, outbox, row, wire, worker, crashes>>
    BY <1>1 DEF vars, dbVars, ChangePermit, Disconnect
  <2> QED
    BY <2>1 DEF CopiesInv, LeasesHold, CopiesOf, Spent, MaySend, MayBeTaken, Busy, Asking,
       Held, HoldsFence, Created
<1>2. ASSUME NEW m \in Message, Enqueue(m) PROVE CopiesInv'
  <2>1. /\ Schedule({m}) /\ message[m].command = "absent"
        /\ \A n \in Message : message'[n].version = message[n].version
        /\ UNCHANGED <<worker, wire, crashes>>
    BY <1>2 DEF Enqueue, Created, DispatchInv, Typed, TypeOK, MessageRow
  <2> QED
    BY <2>1, CopiesOfNewCommands
<1>3. ASSUME NEW link \in [Recipient -> Message \ Direct], Broadcast(link) PROVE CopiesInv'
  <2>1. PICK new \in SUBSET Message :
          /\ \A m \in new : message[m].command = "absent"
          /\ message' = [m \in Message |-> IF m \in new
               THEN [message[m] EXCEPT !.command = "queued"] ELSE message[m]]
          /\ Schedule(new) /\ UNCHANGED <<wire, worker>>
    BY <1>3, BroadcastParts
  <2>2. \A m \in Message : message'[m].version = message[m].version
    BY <2>1 DEF DispatchInv, Typed, TypeOK, MessageRow
  <2>3. crashes' = crashes
    BY <1>3 DEF Broadcast
  <2> QED
    BY <2>1, <2>2, <2>3, CopiesOfNewCommands
<1> QED
  BY <1>1, <1>2, <1>3, CopiesOfTick, CopiesOfCrash, CopiesOfRecover, CopiesOfRound,
     CopiesOfPrepare, CopiesOfSend, CopiesOfRecord, CopiesOfClaim
  DEF Next, Serve, Environment, WorkerStep

\* CopiesInv holds at the start.
LEMMA CopiesStart == Init => CopiesInv
<1> SUFFICES ASSUME Init PROVE CopiesInv
  OBVIOUS
<1>1. LeasesHold
  BY DEF Init, LeasesHold, Busy, Asking, Idle
<1>2. ASSUME NEW m \in Message PROVE CopiesOf(m)
  BY FS_EmptySet DEF Init, CopiesOf
<1> QED
  BY <1>1, <1>2 DEF CopiesInv

\* DEL-12 as far as the code keeps it, for any number of workers, commands and
\* companies: where no live worker outlasts its lease, a command is on the wire
\* no more often than once and once more for each crash, through refusals,
\* retries, recoveries, stale answers and unknown outcomes.
THEOREM CopiesTakeCrashes ==
  ASSUME ~SlowWorkers
  PROVE  Spec => []CopiesBounded
<1>1. DispatchInv /\ CopiesInv /\ [Next]_vars => CopiesInv'
  BY CopiesStep
<1>2. DispatchInv /\ CopiesInv => CopiesBounded
  <2> SUFFICES ASSUME DispatchInv, CopiesInv, NEW m \in Message
               PROVE  Cardinality(wire[m]) <= 1 + crashes
    BY DEF CopiesBounded
  <2>1. Cardinality(wire[m]) \in Nat /\ crashes \in Nat
    BY FS_CardinalityType DEF CopiesInv, CopiesOf, DispatchInv, Typed, TypeOK
  <2> QED
    BY <2>1 DEF CopiesInv, CopiesOf
<1> QED
  BY <1>1, <1>2, CopiesStart, AlwaysInv, PTL DEF Spec
=============================================================================
