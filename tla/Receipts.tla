------------------------------ MODULE Receipts ------------------------------
(***************************************************************************)
(* Delivery receipts: the inbound transactions that store them, the sweep  *)
(* that folds them into the message they name (reconcileReceipts), the     *)
(* receipts held until a provider id is learned (reconcileHeldReceipts),   *)
(* and the broadcast recipient that follows (settleRecipient).             *)
(*                                                                         *)
(* Time is the database clock in microseconds, read when a transaction     *)
(* begins; node reads it back as a Date, in milliseconds.                  *)
(***************************************************************************)
EXTENDS DeliveryFold, Sequences, FiniteSets

CONSTANTS
  Message,      \* outbound messages, each a broadcast's
  LastReceipt,  \* bound: how much the provider says
  AboutOf,      \* the message a receipt names
  StateOf,      \* what it says of it
  Normalizer,   \* inbound workers, storing receipts
  Sweeper,      \* inbound workers, folding them
  DrainLimit,   \* how many events one drain takes
  SweepLimit,   \* LIMIT of reconcileReceipts
  Millisecond,  \* clock units that one Date cannot tell apart
  MaxClock      \* bound: how many inbound transactions begin

\* What the provider says, numbered in the order it happened.
Receipt == 1..LastReceipt

ReceiptAssumption ==
  /\ LastReceipt \in Nat
  /\ AboutOf \in [Receipt -> Message] /\ StateOf \in [Receipt -> DeliveryState]
  /\ DrainLimit \in Nat \ {0} /\ SweepLimit \in Nat \ {0}
  /\ Millisecond \in Nat \ {0} /\ MaxClock \in Nat

VARIABLES
  clock,        \* now() of the transaction that began last
  normalizer,   \* when each open inbound transaction began, 0 if none is open
  seen,         \* observed_at of the stored inbound_events, 0 while not stored
  accepted,     \* messages that carry a provider id
  delivery,     \* delivery_state and delivery_anomaly
  folded,       \* receipts_folded_through, 0 for NULL
  recipient,    \* campaign_recipients.state
  sweep         \* the rows each sweep has read and not yet applied

receiptVars == <<clock, normalizer, seen, accepted, delivery, folded, recipient, sweep>>

RecipientState == {"in_flight", "accepted", "failed", "delivered", "read"}

-----------------------------------------------------------------------------
(* Storing receipts *)

Stored == {e \in Receipt : seen[e] # 0}

\* drain is one transaction: every event in it is observed at its beginning.
BeginDrain(n) ==
  /\ normalizer[n] = 0 /\ clock < MaxClock
  /\ clock' = clock + 1
  /\ normalizer' = [normalizer EXCEPT ![n] = clock']
  /\ UNCHANGED <<seen, accepted, delivery, folded, recipient, sweep>>

CommitDrain(n) ==
  /\ normalizer[n] # 0
  /\ \E batch \in SUBSET (Receipt \ Stored) :
       /\ batch # {} /\ Cardinality(batch) <= DrainLimit
       /\ seen' = [e \in Receipt |-> IF e \in batch THEN normalizer[n] ELSE seen[e]]
  /\ normalizer' = [normalizer EXCEPT ![n] = 0]
  /\ UNCHANGED <<clock, accepted, delivery, folded, recipient, sweep>>

-----------------------------------------------------------------------------
(* The dispatcher learns the provider's id *)

\* reconcileHeldReceipts: what is stored about the message, in the order it
\* happened, folded from nothing.
Held(m) ==
  LET after[k \in 0..LastReceipt] ==
        IF k = 0 THEN Unheard
        ELSE IF k \in Stored /\ AboutOf[k] = m THEN foldDelivery(after[k - 1], StateOf[k])
        ELSE after[k - 1]
  IN after[LastReceipt]

\* record, accepted: the held receipts are folded at once.
Learn(m) ==
  /\ m \notin accepted
  /\ accepted' = accepted \cup {m}
  /\ delivery' = [delivery EXCEPT ![m] = Held(m)]
  /\ UNCHANGED <<clock, normalizer, seen, folded, recipient, sweep>>

\* projectCampaignOutcome, the transaction after it.
ProjectAccepted(m) ==
  /\ m \in accepted /\ recipient[m] = "in_flight"
  /\ recipient' = [recipient EXCEPT ![m] = "accepted"]
  /\ UNCHANGED <<clock, normalizer, seen, accepted, delivery, folded, sweep>>

-----------------------------------------------------------------------------
(* reconcileReceipts: one SELECT, then an UPDATE for each row it returned *)

News == {e \in Stored : AboutOf[e] \in accepted /\ seen[e] > folded[AboutOf[e]]}

\* ORDER BY observed_at LIMIT: rows observed together come in any order.
Batches ==
  LET size == IF Cardinality(News) < SweepLimit THEN Cardinality(News) ELSE SweepLimit
  IN {b \in [1..size -> News] :
        /\ \A i, j \in 1..size : i < j => b[i] # b[j] /\ seen[b[i]] <= seen[b[j]]
        /\ \A e \in News \ {b[i] : i \in 1..size} : seen[b[size]] <= seen[e]}

\* Each row carries the message as the SELECT saw it.
SweepRead(s) ==
  /\ sweep[s] = <<>> /\ News # {}
  /\ \E b \in Batches :
       sweep' = [sweep EXCEPT ![s] = [i \in DOMAIN b |->
                   [receipt |-> b[i], was |-> delivery[AboutOf[b[i]]]]]]
  /\ UNCHANGED <<clock, normalizer, seen, accepted, delivery, folded, recipient>>

Folded(r) == foldDelivery(r.was, StateOf[r.receipt])

\* Slip: the receipts of every message are folded into each.
RowsOfAll(s, m) == DOMAIN sweep[s]
RowsOf(s, m) == {i \in DOMAIN sweep[s] : AboutOf[sweep[s][i].receipt] = m}
Changed(s, m) == {i \in RowsOf(s, m) : Folded(sweep[s][i]) # sweep[s][i].was}
Highest(S) == CHOOSE i \in S : \A j \in S : j <= i

\* The recipient after the rows of its message, one after the other.
Settled(s, m) ==
  LET after[k \in 0..Len(sweep[s])] ==
        IF k = 0 THEN recipient[m]
        ELSE IF k \in RowsOf(s, m)
             THEN settleRecipient(after[k - 1], Folded(sweep[s][k]).state)
        ELSE after[k - 1]
  IN after[Len(sweep[s])]

\* The watermark passes through a Date, which drops the microseconds.
AsDate(t) == t - (t % Millisecond)
Watermark(s, m) ==
  Highest({AsDate(seen[sweep[s][i].receipt]) : i \in RowsOf(s, m)} \cup {folded[m]})

SweepWrite(s) ==
  /\ sweep[s] # <<>>
  /\ delivery' = [m \in Message |->
       IF Changed(s, m) = {} THEN delivery[m] ELSE Folded(sweep[s][Highest(Changed(s, m))])]
  /\ recipient' = [m \in Message |-> Settled(s, m)]
  /\ folded' = [m \in Message |-> Watermark(s, m)]
  /\ sweep' = [sweep EXCEPT ![s] = <<>>]
  /\ UNCHANGED <<clock, normalizer, seen, accepted>>

-----------------------------------------------------------------------------
(* Specification *)

ReceiptsInit ==
  /\ clock = 0 /\ normalizer = [n \in Normalizer |-> 0]
  /\ seen = [e \in Receipt |-> 0] /\ accepted = {}
  /\ delivery = [m \in Message |-> Unheard]
  /\ folded = [m \in Message |-> 0]
  /\ recipient = [m \in Message |-> "in_flight"]
  /\ sweep = [s \in Sweeper |-> <<>>]

ReceiptsNext ==
  \/ \E n \in Normalizer : BeginDrain(n) \/ CommitDrain(n)
  \/ \E m \in Message : Learn(m) \/ ProjectAccepted(m)
  \/ \E s \in Sweeper : SweepRead(s) \/ SweepWrite(s)

ReceiptsSpec == ReceiptsInit /\ [][ReceiptsNext]_receiptVars

-----------------------------------------------------------------------------
(* Properties *)

ReceiptsTypeOK ==
  /\ clock \in 0..MaxClock /\ normalizer \in [Normalizer -> 0..MaxClock]
  /\ seen \in [Receipt -> 0..MaxClock] /\ accepted \subseteq Message
  /\ delivery \in [Message -> Delivery]
  /\ folded \in [Message -> 0..MaxClock]
  /\ recipient \in [Message -> RecipientState]
  /\ sweep \in [Sweeper -> Seq([receipt: Receipt, was: Delivery])]

Says(e, m, state) == e \in Stored /\ AboutOf[e] = m /\ StateOf[e] = state

\* What is shown of a message was said by a receipt about it, whatever the
\* interleaving of drains, sweeps and answers: no state, no anomaly and no
\* recipient outcome is made up out of another message's receipts.
ShownIsSaid == \A m \in Message :
  LET shown == {delivery[m].state, recipient[m]} \cup
               {delivery[m].anomaly[1], delivery[m].anomaly[2]}
  IN \A state \in shown \cap DeliveryState : \E e \in Receipt : Says(e, m, state)

RecipientRank == [in_flight |-> 0, accepted |-> 1, failed |-> 2, delivered |-> 3, read |-> 4]

\* A sweep that has read a message writes it while that reading is current.
Current(m) == \A s \in Sweeper : \A i \in DOMAIN sweep[s] :
  AboutOf[sweep[s][i].receipt] = m => sweep[s][i].was = delivery[m]

\* DEL-16, as far as the code keeps it.  A broadcast's report never takes a
\* delivery back: its recipients only move up, with any number of sweeps racing
\* over stale rows.  A late delivery never rolls back a read of the message
\* itself, and a failure never erases a delivery, unless two sweeps read it at
\* once: batches, truncated watermarks and receipts read twice do no harm.
NeverRollsBack == [][\A m \in Message :
  /\ RecipientRank[recipient[m]] <= RecipientRank[recipient'[m]]
  /\ Current(m) => Rank[delivery[m].state] <= Rank[delivery'[m].state]]_receiptVars

\* receipts_folded_through: "Receipts at or below it are history, not news",
\* that is, they have been taken into account (once no sweep is half done).
HistoryIsFolded == \A e \in Stored : LET m == AboutOf[e] IN
  /\ m \in accepted /\ seen[e] <= folded[m] /\ \A s \in Sweeper : sweep[s] = <<>>
  => Rank[delivery[m].state] >= Rank[StateOf[e]]
=============================================================================
