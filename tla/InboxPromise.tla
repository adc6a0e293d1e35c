----------------------------- MODULE InboxPromise -----------------------------
(***************************************************************************)
(* What the inbound path promises the provider and the inbox, said without *)
(* transactions, parts, keys that wait or workers: a sender is told only   *)
(* what is kept, a fact that is new and can be read waits for the inbox    *)
(* from the step that keeps it, and what waits is shown once.              *)
(*                                                                         *)
(* That a fact is shown no more than once is not said of the showing: it   *)
(* follows from a fact's being new only once, however often it is told.    *)
(***************************************************************************)
EXTENDS Naturals

CONSTANTS Fact, Unreadable, Delivery,
          Holds  \* the facts of each delivery

VARIABLES
  kept,     \* what was stored
  waiting,  \* what the inbox has yet to be shown
  told,     \* deliveries whose sender knows they are stored
  times     \* how often the inbox was shown each fact

inboxVars == <<kept, waiting, told, times>>

InboxInit ==
  /\ kept = {} /\ waiting = {} /\ told = {}
  /\ times = [f \in Fact |-> 0]

\* One transaction keeps what is new, and its sender is told no sooner.
Store(new, done) ==
  /\ new \cap kept = {}
  /\ kept' = kept \cup new
  /\ waiting' = waiting \cup (new \ Unreadable)
  /\ \A d \in done : Holds[d] \subseteq kept'
  /\ told' = told \cup done
  /\ UNCHANGED times

\* One transaction shows a batch of what waits, and it waits no more.
Show(batch) ==
  /\ batch # {} /\ batch \subseteq waiting
  /\ waiting' = waiting \ batch
  /\ times' = [f \in Fact |-> IF f \in batch THEN times[f] + 1 ELSE times[f]]
  /\ UNCHANGED <<kept, told>>

InboxNext == \/ \E new \in SUBSET Fact, done \in SUBSET Delivery : Store(new, done)
             \/ \E batch \in SUBSET Fact : Show(batch)

InboxSpec == InboxInit /\ [][InboxNext]_inboxVars
=============================================================================
