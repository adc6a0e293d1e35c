------------------------------ MODULE Fairness ------------------------------
(***************************************************************************)
(* The rounds of an outbound worker: what the companies offer in its       *)
(* traffic class (offers in channels/dispatcher.service.ts), how planRound *)
(* deals the slots of a round (packages/domain channels/fairness.ts), and  *)
(* whose turn comes (outboundTick in workers/worker-roles.ts).             *)
(*                                                                         *)
(* The loop of deal is a step per company it looks at, so that an          *)
(* invariant says what the deal has come to; of the database a round sees  *)
(* only how many rows a company has that the offers count.                 *)
(***************************************************************************)
EXTENDS Naturals, FiniteSets

CONSTANTS
  Company,
  Place,       \* the order of tenant_id
  Capacity,    \* slots of a round: concurrency * ROUND_MULTIPLIER
  OfferLimit,  \* companies one reading of the offers returns: 200
  MaxRows,     \* bound: rows of a company at once
  MaxBroken    \* bound: rounds that an exception or a crash ends

FairnessAssumption ==
  /\ IsFiniteSet(Company)
  /\ Place \in [Company -> Nat]
  /\ \A c, d \in Company : Place[c] = Place[d] => c = d
  /\ Capacity \in Nat \ {0} /\ OfferLimit \in Nat
  /\ MaxRows \in Nat /\ MaxBroken \in Nat

VARIABLES
  ready,      \* rows that are available, without a live lease, and claimable
  held,       \* such rows no claim takes: their broadcast is paused, their
              \* recipient is in flight, their conversation on the wire
  at,         \* where the worker is in its tick
  offered,    \* the counts it has read
  granted,    \* the Map of deal
  remaining,  \* the slots left
  left,       \* companies the loop, or the round, has still to come to
  progress,   \* whether this pass has handed out a slot
  broken      \* history: rounds that were broken off

database == <<ready, held>>
round == <<at, offered, granted, remaining, left, progress>>
fairnessVars == <<ready, held, at, offered, granted, remaining, left, progress, broken>>

Count == [Company -> Nat]
Nothing == [c \in Company |-> 0]

FairnessTypeOK ==
  /\ ready \in Count /\ held \in Count
  /\ at \in {"idle", "deal", "serve"}
  /\ offered \in Count /\ granted \in Count
  /\ remaining \in 0..Capacity
  /\ left \subseteq Company
  /\ progress \in BOOLEAN
  /\ broken \in 0..MaxBroken

FairnessInit ==
  /\ ready = Nothing /\ held = Nothing
  /\ at = "idle" /\ offered = Nothing /\ granted = Nothing
  /\ remaining = 0 /\ left = {} /\ progress = FALSE
  /\ broken = 0

-----------------------------------------------------------------------------
(* The worker *)

\* GROUP BY tenant_id ORDER BY tenant_id LIMIT.
Offering(rows) == {c \in Company : rows[c] > 0}
Listed(rows) == {c \in Offering(rows) :
  Cardinality({d \in Offering(rows) : Place[d] < Place[c]}) < OfferLimit}

IsNext(c) == c \in left /\ \A d \in left : Place[c] <= Place[d]

\* offers, and the first pass of deal.  Where nothing is offered the tick
\* ends as it began.
ReadOffers ==
  LET rows == [c \in Company |-> ready[c] + held[c]]
  IN /\ at = "idle" /\ Listed(rows) # {}
     /\ at' = "deal" /\ offered' = rows /\ granted' = Nothing
     /\ remaining' = Capacity /\ left' = Listed(rows) /\ progress' = FALSE
     /\ UNCHANGED <<database, broken>>

\* Slip: the company is looked at until it has all it offered.
GrantStaying(c) ==
  /\ granted[c] < offered[c]
  /\ granted' = [granted EXCEPT ![c] = @ + 1]
  /\ remaining' = remaining - 1 /\ progress' = TRUE
  /\ left' = left

\* One slot for the company the loop is at.
Grant(c) ==
  /\ granted[c] < offered[c]
  /\ granted' = [granted EXCEPT ![c] = @ + 1]
  /\ remaining' = remaining - 1 /\ progress' = TRUE
  /\ left' = left \ {c}

\* `continue`: it has all it offered.
PassOver(c) ==
  /\ granted[c] >= offered[c]
  /\ left' = left \ {c}
  /\ UNCHANGED <<granted, remaining, progress>>

Visit(c) ==
  /\ at = "deal" /\ remaining > 0 /\ IsNext(c)
  /\ Grant(c) \/ PassOver(c)
  /\ UNCHANGED <<database, at, offered, broken>>

\* The while loop: another pass over the same offers.
NextPass ==
  /\ at = "deal" /\ left = {} /\ remaining > 0 /\ progress
  /\ left' = Listed(offered) /\ progress' = FALSE
  /\ UNCHANGED <<database, at, offered, granted, remaining, broken>>

\* The grants in the order of the offers; who got nothing is not among them.
EndDeal ==
  /\ at = "deal"
  /\ remaining = 0 \/ (left = {} /\ ~progress)
  /\ at' = "serve"
  /\ left' = {c \in Listed(offered) : granted[c] > 0}
  /\ UNCHANGED <<database, offered, granted, remaining, progress, broken>>

\* The tick returns, or throws: its locals are gone.
Over ==
  /\ at' = "idle" /\ offered' = Nothing /\ granted' = Nothing
  /\ remaining' = 0 /\ left' = {} /\ progress' = FALSE

\* Slip: the tick returns after its first grant.
OnwardNever(c) == Over

\* On to the next grant, if there is one.
Onward(c) ==
  IF left = {c} THEN Over
  ELSE left' = left \ {c} /\ UNCHANGED <<at, offered, granted, remaining, progress>>

\* recoverOrphanedAttempts and dispatch for one grant: orphans leave the
\* outbox, and the claim takes what is there now, up to the grant and at least
\* one row if there is any.  Retried rows are due later.
Serve(c) ==
  /\ at = "serve" /\ IsNext(c)
  /\ \E orphans \in 0..ready[c] : \E claimed \in 0..granted[c] :
       /\ orphans + claimed <= ready[c]
       /\ orphans < ready[c] => claimed > 0
       /\ ready' = [ready EXCEPT ![c] = @ - (orphans + claimed)]
  /\ Onward(c)
  /\ UNCHANGED <<held, broken>>

\* An exception in a round, or the end of the process.
Break ==
  /\ at # "idle" /\ broken < MaxBroken
  /\ Over
  /\ broken' = broken + 1
  /\ UNCHANGED database

-----------------------------------------------------------------------------
(* The others *)

\* A row is queued or comes due again.
Arrive(c) ==
  /\ ready[c] + held[c] < MaxRows
  /\ ready' = [ready EXCEPT ![c] = @ + 1]
  /\ UNCHANGED <<held, round, broken>>

\* Another process of the role takes a row, or a cancellation closes it.
Leave(c) ==
  /\ \/ ready[c] > 0 /\ ready' = [ready EXCEPT ![c] = @ - 1] /\ held' = held
     \/ held[c] > 0 /\ held' = [held EXCEPT ![c] = @ - 1] /\ ready' = ready
  /\ UNCHANGED <<round, broken>>

\* A broadcast is paused or a conversation gets a message on the wire; it is
\* resumed, or the message is answered.
Hold(c) ==
  /\ ready[c] > 0
  /\ ready' = [ready EXCEPT ![c] = @ - 1] /\ held' = [held EXCEPT ![c] = @ + 1]
  /\ UNCHANGED <<round, broken>>

Free(c) ==
  /\ held[c] > 0
  /\ held' = [held EXCEPT ![c] = @ - 1] /\ ready' = [ready EXCEPT ![c] = @ + 1]
  /\ UNCHANGED <<round, broken>>

Work == ReadOffers \/ NextPass \/ EndDeal \/ \E c \in Company : Visit(c) \/ Serve(c)
Others == \E c \in Company : Arrive(c) \/ Leave(c) \/ Hold(c) \/ Free(c)
FairnessNext == Work \/ Others \/ Break

\* The worker loop ticks for ever; nobody else need do anything.
FairnessSpec == FairnessInit /\ [][FairnessNext]_fairnessVars /\ WF_fairnessVars(Work)

-----------------------------------------------------------------------------
(* Properties *)

Slots == {s \in Company \X (1..Capacity) : s[2] <= granted[s[1]]}

\* A round hands out its slots, no more of them than it has and to nobody more
\* than they offered, and keeps one back only if nobody wants it.
DealtOut ==
  /\ \A c \in Company : granted[c] <= offered[c]
  /\ at # "idle" => Cardinality(Slots) + remaining = Capacity
  /\ at = "serve" => remaining = 0 \/ \A c \in Listed(offered) : granted[c] = offered[c]

\* Whoever got less than they offered got no less than anybody else but for
\* the one slot of those before them.
EvenDeal == at = "serve" => \A c, d \in Listed(offered) :
  granted[c] < offered[c] =>
    \/ granted[d] <= granted[c]
    \/ granted[d] = granted[c] + 1 /\ Place[d] < Place[c]

\* Wherever the slots run out, a round is dealt out and dealt evenly (deal: one
\* each per pass, as long as there is a slot and somebody who wants it).
FairDeal == DealtOut /\ EvenDeal

\* Where there are no more companies than slots each has one (what the order
\* of a round in module Dispatch takes for granted).
EveryoneDealtIn ==
  at = "serve" /\ Cardinality(Listed(offered)) <= Capacity =>
    \A c \in Listed(offered) : granted[c] > 0

\* The round was full before it came to c: every deal begins with the same
\* companies, and so does the list.
CrowdedOut(c) ==
  LET before == {d \in Offering(offered) : Place[d] < Place[c]}
  IN at = "serve" /\ (Cardinality(before) >= Capacity \/ Cardinality(before) >= OfferLimit)

\* A company that goes on having something to claim is served, again and again,
\* unless the rounds go on being full before it (fairness.ts:17-19: companies
\* take turns; outboundTick, offers).
TurnsCome == \A c \in Company :
  []<>(ready[c] = 0) \/ []<>CrowdedOut(c) \/ []<><<Serve(c)>>_fairnessVars
=============================================================================
