------------------------------ MODULE Ingress ------------------------------
(***************************************************************************)
(* From a verified provider delivery to the inbox: the handlers that store *)
(* it (apps/api/src/channels/ingress.service.ts, ingress-journal.ts) and   *)
(* the workers that project what was stored (normalization.service.ts).    *)
(* A delivery has a part for each asset it is about, and each part is a    *)
(* transaction that inserts its facts one by one: an INSERT of a dedupe    *)
(* key another transaction has inserted waits for that one's end.  A drain *)
(* is one transaction over the rows it claims.                             *)
(*                                                                         *)
(* The provider is external: it posts a delivery until it is answered 2xx, *)
(* and may post it again all the same.                                     *)
(***************************************************************************)
EXTENDS Naturals, Sequences, FiniteSets, SequencesExt

CONSTANTS
  Fact,        \* dedupe keys
  Unreadable,  \* elements no adapter can read: journaled, not queued
  Delivery,    \* webhook requests
  Parts,       \* what each delivery holds: a sequence of parts, each of facts
  Handler,     \* requests served at once
  Drainer,     \* workers
  BatchSize,   \* how many rows a drain claims
  MaxFaults    \* bound: transactions that fail, answers lost, needless posts

IngressAssumption ==
  /\ Unreadable \subseteq Fact /\ BatchSize \in Nat \ {0} /\ MaxFaults \in Nat
  /\ Parts \in [Delivery -> Seq(Seq(Fact)) \ {<<>>}]

VARIABLES
  handler,   \* the delivery, its part, how many of its facts are inserted
  answered,  \* deliveries whose sender got a 2xx
  journal,   \* channel_events
  todo,      \* channel_event_queue
  drainer,   \* the rows a worker has locked
  effects,   \* how often each fact was projected into the inbox
  troubles

ingressVars == <<handler, answered, journal, todo, drainer, effects, troubles>>

NoDelivery == [step |-> "idle"]
Serving == [step : {"storing"}, delivery : Delivery, part : Nat, at : Nat, mine : SUBSET Fact]

IngressTypeOK ==
  /\ handler \in [Handler -> {NoDelivery} \cup Serving]
  /\ answered \subseteq Delivery
  /\ journal \subseteq Fact /\ todo \subseteq journal
  /\ drainer \in [Drainer -> SUBSET Fact]
  /\ effects \in [Fact -> Nat]
  /\ troubles \in 0..MaxFaults

IngressInit ==
  /\ handler = [h \in Handler |-> NoDelivery]
  /\ answered = {} /\ journal = {} /\ todo = {}
  /\ drainer = [w \in Drainer |-> {}]
  /\ effects = [f \in Fact |-> 0]
  /\ troubles = 0

Trouble == troubles < MaxFaults /\ troubles' = troubles + 1

-----------------------------------------------------------------------------
(* A handler.                                                               *)

Busy(h) == handler[h] # NoDelivery
FactsOf(h) == Parts[handler[h].delivery][handler[h].part]
Inserted(h) == handler[h].at = Len(FactsOf(h))
NextFact(h) == FactsOf(h)[handler[h].at + 1]
\* The transaction that has inserted f and not ended.
Inserting(f) == {h \in Handler : Busy(h) /\ f \in handler[h].mine}

\* What the journal has already is a duplicate, and not this transaction's.
WithFact(s, f) == [s EXCEPT !.at = @ + 1, !.mine = @ \cup ({f} \ journal)]
NextPart(s) == [s EXCEPT !.part = @ + 1, !.at = 0, !.mine = {}]

\* The provider posts what it has no 2xx for.
Post(h, d) ==
  /\ ~Busy(h)
  /\ IF d \in answered THEN Trouble ELSE UNCHANGED troubles
  /\ handler' = [handler EXCEPT ![h] =
       [step |-> "storing", delivery |-> d, part |-> 1, at |-> 0, mine |-> {}]]
  /\ UNCHANGED <<answered, journal, todo, drainer, effects>>

\* insertEvent: ON CONFLICT DO NOTHING, once whoever has the key has ended.
Insert(h) ==
  /\ Busy(h) /\ ~Inserted(h)
  /\ Inserting(NextFact(h)) \subseteq {h}
  /\ handler' = [handler EXCEPT ![h] = WithFact(@, NextFact(h))]
  /\ UNCHANGED <<answered, journal, todo, drainer, effects, troubles>>

\* Slip: the answer does not wait for the parts after the first.
PartsLeftNone(h) == FALSE
PartsLeft(h) == handler[h].part < Len(Parts[handler[h].delivery])

\* Slip: what the batch holds is queued as one piece of work.
QueuedFirst(h) == {f \in handler[h].mine \ Unreadable : f = FactsOf(h)[1]}
Queued(h) == handler[h].mine \ Unreadable

\* A part commits: its facts, each with its queue row.  After the last one the
\* delivery is answered, and the answer may be lost.
StorePart(h) ==
  /\ Busy(h) /\ Inserted(h)
  /\ journal' = journal \cup handler[h].mine
  /\ todo' = todo \cup Queued(h)
  /\ IF PartsLeft(h)
     THEN /\ handler' = [handler EXCEPT ![h] = NextPart(@)]
          /\ UNCHANGED <<answered, troubles>>
     ELSE /\ handler' = [handler EXCEPT ![h] = NoDelivery]
          /\ \/ /\ answered' = answered \cup {handler[h].delivery}
                /\ UNCHANGED troubles
             \/ Trouble /\ UNCHANGED answered
  /\ UNCHANGED <<drainer, effects>>

\* A storage failure ends the request with an error: earlier parts stay.
FailPart(h) ==
  /\ Busy(h) /\ Trouble
  /\ handler' = [handler EXCEPT ![h] = NoDelivery]
  /\ UNCHANGED <<answered, journal, todo, drainer, effects>>

\* Two transactions wait for each other's keys: the database ends one, and the
\* other, which was next in line, has its key.
WaitsFor(h) == IF Busy(h) /\ ~Inserted(h) THEN Inserting(NextFact(h)) \ {h} ELSE {}
Deadlocked(h, g) ==
  /\ g \in WaitsFor(h) /\ h \in WaitsFor(g)
  /\ handler' = [handler EXCEPT ![h] = NoDelivery, ![g] = WithFact(@, NextFact(g))]
  /\ UNCHANGED <<answered, journal, todo, drainer, effects, troubles>>

-----------------------------------------------------------------------------
(* A drain.                                                                 *)

Locked == UNION {drainer[w] : w \in Drainer}

\* FOR UPDATE SKIP LOCKED LIMIT; ORDER BY enqueued_at is left open.
Claim(w) ==
  /\ drainer[w] = {} /\ todo \ Locked # {}
  /\ \E rows \in SUBSET (todo \ Locked) :
       /\ Cardinality(rows) = BatchSize \/ (rows = todo \ Locked /\ Cardinality(rows) < BatchSize)
       /\ drainer' = [drainer EXCEPT ![w] = rows]
  /\ UNCHANGED <<handler, answered, journal, todo, effects, troubles>>

\* Every row claimed is projected and deleted with this COMMIT.
Drain(w) ==
  /\ drainer[w] # {}
  /\ effects' = [f \in Fact |-> IF f \in drainer[w] THEN effects[f] + 1 ELSE effects[f]]
  /\ todo' = todo \ drainer[w]
  /\ drainer' = [drainer EXCEPT ![w] = {}]
  /\ UNCHANGED <<handler, answered, journal, troubles>>

\* One row that throws, or a worker that dies: the whole batch stays queued.
DrainFails(w) ==
  /\ drainer[w] # {} /\ Trouble
  /\ drainer' = [drainer EXCEPT ![w] = {}]
  /\ UNCHANGED <<handler, answered, journal, todo, effects>>

-----------------------------------------------------------------------------
IngressNext ==
  \/ \E h \in Handler :
       Insert(h) \/ StorePart(h) \/ FailPart(h)
       \/ \E g \in Handler : Deadlocked(h, g)
       \/ \E d \in Delivery : Post(h, d)
  \/ \E w \in Drainer : Claim(w) \/ Drain(w) \/ DrainFails(w)

\* The provider posts until it is answered, waiting transactions are served in
\* turn, and the worker's loop comes round.
IngressFairness ==
  /\ \A d \in Delivery :
       SF_ingressVars(d \notin answered /\ \E h \in Handler : Post(h, d))
  /\ \A h \in Handler :
       /\ SF_ingressVars(Insert(h)) /\ WF_ingressVars(StorePart(h))
       /\ WF_ingressVars(\E g \in Handler : Deadlocked(h, g))
  /\ \A w \in Drainer : WF_ingressVars(Claim(w) \/ Drain(w))

IngressSpec == IngressInit /\ [][IngressNext]_ingressVars /\ IngressFairness

-----------------------------------------------------------------------------
\* What a sender was told is stored is stored: every fact of an answered
\* delivery is in the journal, and a fact that can be read is either waiting in
\* the queue or was projected, once, however often it was delivered.
AnsweredIsKept ==
  /\ \A d \in answered : \A part \in ToSet(Parts[d]) : ToSet(part) \subseteq journal
  /\ \A f \in journal \ Unreadable : effects[f] = IF f \in todo THEN 0 ELSE 1

\* Ingress and drain implement InboxPromise (storeRouted, insertEvent, drain).
Inbox == INSTANCE InboxPromise WITH
           kept <- journal, waiting <- todo, told <- answered, times <- effects,
           Holds <- [d \in Delivery |-> UNION {ToSet(part) : part \in ToSet(Parts[d])}]
KeepsInbox == Inbox!InboxSpec

\* Everything the provider has to say comes to the inbox, through failed and
\* crossed transactions, lost answers and failed drains.
EveryFactProjected == \A f \in Fact \ Unreadable : <>(effects[f] > 0)
=============================================================================
