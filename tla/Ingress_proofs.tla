--------------------------- MODULE Ingress_proofs ---------------------------
(***************************************************************************)
(* What was answered is kept and projected once, for any deliveries, parts *)
(* and facts, any number of handlers and workers, and however often        *)
(* transactions fail or wait for each other.                               *)
(***************************************************************************)
EXTENDS Ingress, TLAPS

\* A request is at a part of its delivery, and at a fact of that part.
Bound(s) ==
  /\ s \in Serving
  /\ s.part \in 1..Len(Parts[s.delivery])
  /\ s.at \in 0..Len(Parts[s.delivery][s.part])

\* Its earlier parts are stored, and what it inserted of this one is there, in
\* the journal or in its transaction.
Kept(s, stored) ==
  /\ \A i \in 1..Len(Parts[s.delivery]) :
       i < s.part => ToSet(Parts[s.delivery][i]) \subseteq stored
  /\ \A i \in 1..Len(Parts[s.delivery][s.part]) :
       i <= s.at => Parts[s.delivery][s.part][i] \in stored \cup s.mine

Sound(s, stored) == Bound(s) /\ Kept(s, stored) /\ s.mine \cap stored = {}

HandlersSound == \A h \in Handler : Busy(h) => Sound(handler[h], journal)

\* No key is two transactions', since the second one waits.
KeysApart == \A h, g \in Handler :
  h # g /\ Busy(h) /\ Busy(g) => handler[h].mine \cap handler[g].mine = {}

\* What a worker has locked is in the queue, and locked by it alone.
RowsLocked ==
  /\ \A w \in Drainer : drainer[w] \subseteq todo
  /\ \A v, w \in Drainer : v # w => drainer[v] \cap drainer[w] = {}

\* A fact was projected exactly if it left the queue it was in.
ProjectedOnce ==
  /\ todo \cap Unreadable = {}
  /\ \A f \in Fact : effects[f] = IF f \in journal \ (todo \cup Unreadable) THEN 1 ELSE 0

AnsweredStored == \A d \in answered :
  \A i \in 1..Len(Parts[d]) : ToSet(Parts[d][i]) \subseteq journal

IngressInv ==
  /\ IngressTypeOK /\ HandlersSound /\ KeysApart /\ RowsLocked /\ ProjectedOnce
  /\ AnsweredStored

-----------------------------------------------------------------------------
(* Rows and parts *)

LEMMA PartFacts ==
  ASSUME IngressAssumption, NEW d \in Delivery
  PROVE  /\ Len(Parts[d]) \in Nat /\ Len(Parts[d]) >= 1
         /\ \A i \in 1..Len(Parts[d]) : /\ Parts[d][i] \in Seq(Fact)
                                        /\ Len(Parts[d][i]) \in Nat
                                        /\ \A j \in 1..Len(Parts[d][i]) : Parts[d][i][j] \in Fact
<1>1. Parts[d] \in Seq(Seq(Fact)) /\ Parts[d] # <<>>
  BY DEF IngressAssumption
<1>2. Len(Parts[d]) \in Nat /\ Len(Parts[d]) # 0
  BY <1>1
<1>3. \A i \in 1..Len(Parts[d]) : Parts[d][i] \in Seq(Fact)
  BY <1>1
<1>4. QED BY <1>2, <1>3

LEMMA InSet ==
  ASSUME NEW S, NEW s \in Seq(S)
  PROVE  \A x \in ToSet(s) : \E i \in 1..Len(s) : x = s[i]
BY DEF ToSet

LEMMA ServingFields ==
  ASSUME NEW s \in Serving
  PROVE  s.delivery \in Delivery /\ s.part \in Nat /\ s.at \in Nat /\ s.mine \subseteq Fact
         /\ s # NoDelivery
<1>1. s.step = "storing" /\ NoDelivery.step = "idle"
  BY DEF Serving, NoDelivery
<1>2. s.delivery \in Delivery /\ s.part \in Nat /\ s.at \in Nat /\ s.mine \subseteq Fact
  BY DEF Serving
<1>3. QED BY <1>1, <1>2

LEMMA WithFactSound ==
  ASSUME IngressAssumption, NEW s, Sound(s, journal), s.at # Len(Parts[s.delivery][s.part]),
         NEW f, f = Parts[s.delivery][s.part][s.at + 1]
  PROVE  /\ Sound(WithFact(s, f), journal)
         /\ WithFact(s, f).mine \subseteq s.mine \cup ({f} \ journal)
<1>1. /\ s \in Serving /\ s.delivery \in Delivery /\ s.at \in Nat /\ s.mine \subseteq Fact
      /\ s.part \in 1..Len(Parts[s.delivery]) /\ s.at \in 0..Len(Parts[s.delivery][s.part])
  BY ServingFields DEF Sound, Bound
<1>2. Len(Parts[s.delivery][s.part]) \in Nat
      /\ \A j \in 1..Len(Parts[s.delivery][s.part]) : Parts[s.delivery][s.part][j] \in Fact
  BY <1>1, PartFacts
<1>3. s.at + 1 \in Nat /\ s.at + 1 \in 1..Len(Parts[s.delivery][s.part])
  BY SMTT(30), <1>1, <1>2
<1>4. f \in Fact
  BY <1>2, <1>3
<1> DEFINE n == s.at + 1
           t == WithFact(s, f)
<1>5. /\ t \in Serving /\ t.delivery = s.delivery /\ t.part = s.part /\ t.at = n
      /\ t.mine = s.mine \cup ({f} \ journal)
  BY <1>1, <1>3, <1>4 DEF WithFact, Serving
<1> HIDE DEF t
<1>6. Bound(t)
  BY <1>1, <1>3, <1>5 DEF Bound
<1>7. Kept(t, journal)
  BY SMTT(30), <1>1, <1>2, <1>3, <1>5 DEF Sound, Kept
<1>8. t.mine \cap journal = {}
  BY <1>5 DEF Sound
<1>9. t = WithFact(s, f)
  BY DEF t
<1>10. QED BY Zenon, <1>5, <1>6, <1>7, <1>8, <1>9 DEF Sound

LEMMA NextPartSound ==
  ASSUME IngressAssumption, NEW s, Sound(s, journal), s.at = Len(Parts[s.delivery][s.part]),
         s.part < Len(Parts[s.delivery])
  PROVE  Sound(NextPart(s), journal \cup s.mine) /\ NextPart(s).mine = {}
<1>1. /\ s \in Serving /\ s.delivery \in Delivery /\ s.part \in Nat
      /\ s.part \in 1..Len(Parts[s.delivery])
  BY ServingFields DEF Sound, Bound
<1>2. Len(Parts[s.delivery]) \in Nat /\ Parts[s.delivery][s.part] \in Seq(Fact)
  BY <1>1, PartFacts
<1>3. s.part + 1 \in Nat /\ s.part + 1 \in 1..Len(Parts[s.delivery])
  BY <1>1, <1>2
<1> DEFINE n == s.part + 1
           t == NextPart(s)
<1>4. /\ t \in Serving /\ t.delivery = s.delivery /\ t.part = n /\ t.at = 0 /\ t.mine = {}
  BY <1>1, <1>3 DEF NextPart, Serving
<1> HIDE DEF t
<1>5. Len(Parts[s.delivery][n]) \in Nat
  BY <1>1, <1>3, PartFacts
<1>6. Bound(t)
  BY <1>3, <1>4, <1>5 DEF Bound
<1>7. ToSet(Parts[s.delivery][s.part]) \subseteq journal \cup s.mine
  BY <1>2, InSet DEF Sound, Kept
<1>8. Kept(t, journal \cup s.mine)
  BY SMTT(30), <1>1, <1>2, <1>4, <1>5, <1>7 DEF Sound, Kept
<1>9. QED BY <1>4, <1>6, <1>8 DEF Sound, t

\* The end of the last part is the end of the delivery.
LEMMA AllStored ==
  ASSUME IngressAssumption, NEW s, Sound(s, journal), s.at = Len(Parts[s.delivery][s.part]),
         ~(s.part < Len(Parts[s.delivery]))
  PROVE  \A i \in 1..Len(Parts[s.delivery]) : ToSet(Parts[s.delivery][i]) \subseteq journal \cup s.mine
<1>1. s \in Serving /\ s.delivery \in Delivery /\ s.part \in 1..Len(Parts[s.delivery])
  BY ServingFields DEF Sound, Bound
<1>2. Len(Parts[s.delivery]) \in Nat /\ Parts[s.delivery][s.part] \in Seq(Fact)
  BY <1>1, PartFacts
<1>3. ToSet(Parts[s.delivery][s.part]) \subseteq journal \cup s.mine
  BY <1>2, InSet DEF Sound, Kept
<1>4. QED BY <1>1, <1>2, <1>3 DEF Sound, Kept

-----------------------------------------------------------------------------
(* Handlers *)

\* One handler moves on soundly, another may be ended, the rest stay.
LEMMA HandlersFollow ==
  ASSUME IngressInv, NEW h \in Handler, journal \subseteq journal',
         \A g \in Handler \ {h} :
           /\ handler'[g] \in {handler[g], NoDelivery}
           /\ handler'[g] # NoDelivery => handler[g].mine \cap journal' = {},
         handler'[h] # NoDelivery =>
           /\ Sound(handler'[h], journal')
           /\ \A g \in Handler \ {h} :
                handler'[g] # NoDelivery => handler'[h].mine \cap handler[g].mine = {}
  PROVE  HandlersSound' /\ KeysApart'
<1>1. HandlersSound /\ KeysApart
  BY DEF IngressInv
<1>2. ASSUME NEW g \in Handler, handler'[g] # NoDelivery
      PROVE  Sound(handler'[g], journal')
  <2>1. CASE g = h
    BY <1>2, <2>1
  <2>2. CASE g # h
    <3>1. handler'[g] = handler[g] /\ handler[g] # NoDelivery
      BY <1>2, <2>2
    <3> Sound(handler[g], journal)
      BY <1>1, <3>1 DEF HandlersSound, Busy
    <3>2. Kept(handler[g], journal') /\ Bound(handler[g])
      BY DEF Sound, Kept
    <3>3. QED BY <1>2, <2>2, <3>1, <3>2 DEF Sound
  <2>3. QED BY <2>1, <2>2
<1>3. HandlersSound'
  BY <1>2 DEF HandlersSound, Busy
<1>4. ASSUME NEW g \in Handler, NEW k \in Handler, g # k, handler'[g] # NoDelivery,
             handler'[k] # NoDelivery
      PROVE  handler'[g].mine \cap handler'[k].mine = {}
  <2>1. CASE g = h
    <3>1. handler'[k] = handler[k]
      BY <1>4, <2>1
    <3>2. QED BY <1>4, <2>1, <3>1
  <2>2. CASE k = h
    <3>1. handler'[g] = handler[g]
      BY <1>4, <2>2
    <3>2. QED BY <1>4, <2>2, <3>1
  <2>3. CASE g # h /\ k # h
    <3>1. handler'[g] = handler[g] /\ handler'[k] = handler[k]
      BY <1>4, <2>3
    <3>2. QED BY <1>1, <1>4, <3>1 DEF KeysApart, Busy
  <2>4. QED BY <2>1, <2>2, <2>3
<1>5. KeysApart'
  BY <1>4 DEF KeysApart, Busy
<1>6. QED BY <1>3, <1>5

\* Nothing but handlers changes.
LEMMA QueueRests ==
  ASSUME IngressInv, UNCHANGED <<journal, todo, drainer, effects, answered>>,
         handler' \in [Handler -> {NoDelivery} \cup Serving], troubles' \in 0..MaxFaults,
         HandlersSound', KeysApart'
  PROVE  IngressInv'
BY DEF IngressInv, IngressTypeOK, RowsLocked, ProjectedOnce, AnsweredStored

LEMMA TroubleCounts ==
  ASSUME IngressAssumption, IngressTypeOK, Trouble
  PROVE  troubles' \in 0..MaxFaults
<1>1. troubles \in 0..MaxFaults /\ MaxFaults \in Nat /\ troubles < MaxFaults /\ troubles' = troubles + 1
  BY DEF IngressAssumption, IngressTypeOK, Trouble
<1>2. QED BY <1>1

LEMMA PostStep ==
  ASSUME IngressAssumption, IngressInv, NEW h \in Handler, NEW d \in Delivery, Post(h, d)
  PROVE  IngressInv'
<1> DEFINE s == [step |-> "storing", delivery |-> d, part |-> 1, at |-> 0, mine |-> {}]
<1>1. /\ s \in Serving /\ s.delivery = d /\ s.part = 1 /\ s.at = 0 /\ s.mine = {}
  BY DEF Serving
<1>2. IngressTypeOK /\ handler \in [Handler -> {NoDelivery} \cup Serving]
      /\ HandlersSound /\ KeysApart
  BY DEF IngressInv, IngressTypeOK
<1>3. handler' = [handler EXCEPT ![h] = s] /\ UNCHANGED <<journal, todo, drainer, effects, answered>>
  BY DEF Post
<1> HIDE DEF s
<1>4. Sound(s, journal)
  <2>1. Len(Parts[d]) \in Nat /\ 1 \in 1..Len(Parts[d]) /\ Len(Parts[d][1]) \in Nat
    BY PartFacts
  <2>2. QED BY <1>1, <2>1 DEF Sound, Bound, Kept
<1>5. handler' \in [Handler -> {NoDelivery} \cup Serving]
  BY <1>1, <1>2, <1>3
<1>6. HandlersSound' /\ KeysApart'
  <2>1. \A g \in Handler : handler'[g] = IF g = h THEN s ELSE handler[g]
    BY <1>2, <1>3
  <2>2. \A g \in Handler : handler[g] # NoDelivery => handler[g].mine \cap journal = {}
    BY <1>2 DEF HandlersSound, Busy, Sound
  <2>3. journal' = journal
    BY <1>3
  <2>4. QED BY <1>1, <1>4, <2>1, <2>2, <2>3, HandlersFollow
<1>7. troubles' \in 0..MaxFaults
  BY <1>2, TroubleCounts DEF Post, IngressTypeOK
<1>8. QED BY <1>3, <1>5, <1>6, <1>7, QueueRests

LEMMA InsertStep ==
  ASSUME IngressAssumption, IngressInv, NEW h \in Handler, Insert(h)
  PROVE  IngressInv'
<1> DEFINE s == WithFact(handler[h], NextFact(h))
<1>1. /\ IngressTypeOK /\ handler \in [Handler -> {NoDelivery} \cup Serving]
      /\ HandlersSound /\ KeysApart /\ Busy(h) /\ Sound(handler[h], journal)
  BY DEF IngressInv, IngressTypeOK, HandlersSound, Insert
<1>2. /\ handler' = [handler EXCEPT ![h] = s]
      /\ UNCHANGED <<journal, todo, drainer, effects, answered, troubles>>
      /\ \A g \in Handler \ {h} : handler[g] # NoDelivery => NextFact(h) \notin handler[g].mine
  BY SMTT(30) DEF Insert, Inserting, Busy
<1>3. Sound(s, journal) /\ s.mine \subseteq handler[h].mine \cup {NextFact(h)}
  <2>1. /\ handler[h].at # Len(Parts[handler[h].delivery][handler[h].part])
        /\ NextFact(h) = Parts[handler[h].delivery][handler[h].part][handler[h].at + 1]
    BY DEF Insert, Inserted, FactsOf, NextFact
  <2>2. Sound(s, journal) /\ s.mine \subseteq handler[h].mine \cup ({NextFact(h)} \ journal)
    BY <1>1, <2>1, WithFactSound
  <2>3. QED BY <2>2
<1> HIDE DEF s
<1>4. s \in Serving
  BY <1>3 DEF Sound, Bound
<1>5. handler' \in [Handler -> {NoDelivery} \cup Serving]
  BY <1>1, <1>2, <1>4
<1>6. HandlersSound' /\ KeysApart'
  <2>1. \A g \in Handler : handler'[g] = IF g = h THEN s ELSE handler[g]
    BY <1>1, <1>2
  <2>2. \A g \in Handler : handler[g] # NoDelivery => handler[g].mine \cap journal = {}
    BY <1>1 DEF HandlersSound, Busy, Sound
  <2>3. \A g \in Handler \ {h} : handler[g] # NoDelivery => s.mine \cap handler[g].mine = {}
    BY <1>1, <1>2, <1>3 DEF KeysApart, Busy
  <2>4. journal' = journal
    BY <1>2
  <2>5. QED BY <1>3, <2>1, <2>2, <2>3, <2>4, HandlersFollow
<1>7. troubles' \in 0..MaxFaults
  BY <1>1, <1>2 DEF IngressTypeOK
<1>8. QED BY <1>2, <1>5, <1>6, <1>7, QueueRests

LEMMA FailStep ==
  ASSUME IngressAssumption, IngressInv, NEW h \in Handler, FailPart(h)
  PROVE  IngressInv'
<1>1. /\ IngressTypeOK /\ handler \in [Handler -> {NoDelivery} \cup Serving]
      /\ HandlersSound /\ KeysApart
  BY DEF IngressInv, IngressTypeOK
<1>2. /\ handler' = [handler EXCEPT ![h] = NoDelivery]
      /\ UNCHANGED <<journal, todo, drainer, effects, answered>>
  BY DEF FailPart
<1>3. \A g \in Handler : handler'[g] = IF g = h THEN NoDelivery ELSE handler[g]
  BY <1>1, <1>2
<1>4. handler' \in [Handler -> {NoDelivery} \cup Serving]
  BY <1>1, <1>2
<1>5. HandlersSound' /\ KeysApart'
  BY <1>1, <1>2, <1>3 DEF HandlersSound, KeysApart, Busy
<1>6. troubles' \in 0..MaxFaults
  BY <1>1, TroubleCounts DEF FailPart
<1>7. QED BY <1>2, <1>4, <1>5, <1>6, QueueRests

LEMMA DeadlockStep ==
  ASSUME IngressAssumption, IngressInv, NEW h \in Handler, NEW g \in Handler, Deadlocked(h, g)
  PROVE  IngressInv'
<1> DEFINE s == WithFact(handler[g], NextFact(g))
<1>1. /\ IngressTypeOK /\ handler \in [Handler -> {NoDelivery} \cup Serving]
      /\ HandlersSound /\ KeysApart
  BY DEF IngressInv, IngressTypeOK
<1>2. /\ h # g /\ Busy(h) /\ Busy(g) /\ ~Inserted(g) /\ NextFact(g) \in handler[h].mine
  BY DEF Deadlocked, WaitsFor, Inserting
<1>3. /\ handler' = [handler EXCEPT ![h] = NoDelivery, ![g] = s]
      /\ UNCHANGED <<journal, todo, drainer, effects, answered, troubles>>
  BY SMTT(30), <1>1, <1>2 DEF Deadlocked
<1>4. Sound(s, journal) /\ s.mine \subseteq handler[g].mine \cup {NextFact(g)}
  <2>1. Sound(handler[g], journal)
    BY <1>1, <1>2 DEF HandlersSound
  <2>2. /\ handler[g].at # Len(Parts[handler[g].delivery][handler[g].part])
        /\ NextFact(g) = Parts[handler[g].delivery][handler[g].part][handler[g].at + 1]
    BY <1>2 DEF Inserted, FactsOf, NextFact
  <2>3. Sound(s, journal) /\ s.mine \subseteq handler[g].mine \cup ({NextFact(g)} \ journal)
    BY <2>1, <2>2, WithFactSound
  <2>4. QED BY <2>3
<1> HIDE DEF s
<1>5. s \in Serving
  BY <1>4 DEF Sound, Bound
<1>6. \A k \in Handler : handler'[k] = IF k = g THEN s ELSE IF k = h THEN NoDelivery ELSE handler[k]
  BY <1>1, <1>2, <1>3
<1>7. handler' \in [Handler -> {NoDelivery} \cup Serving]
  BY <1>1, <1>3, <1>5
<1>8. HandlersSound' /\ KeysApart'
  <2>1. \A k \in Handler : handler[k] # NoDelivery => handler[k].mine \cap journal = {}
    BY <1>1 DEF HandlersSound, Busy, Sound
  <2>2. \A k \in Handler \ {g, h} : handler[k] # NoDelivery => s.mine \cap handler[k].mine = {}
    BY <1>1, <1>2, <1>4 DEF KeysApart, Busy
  <2>3. journal' = journal
    BY <1>3
  <2>4. QED BY <1>2, <1>4, <1>6, <2>1, <2>2, <2>3, HandlersFollow
<1>9. troubles' \in 0..MaxFaults
  BY <1>1, <1>3 DEF IngressTypeOK
<1>10. QED BY <1>3, <1>7, <1>8, <1>9, QueueRests

\* The facts of a committed part were nobody's before, and are queued.
LEMMA StoreStep ==
  ASSUME IngressAssumption, IngressInv, NEW h \in Handler, StorePart(h)
  PROVE  IngressInv'
<1> DEFINE mine == handler[h].mine
<1>1. /\ IngressTypeOK /\ handler \in [Handler -> {NoDelivery} \cup Serving]
      /\ HandlersSound /\ KeysApart /\ Busy(h) /\ Sound(handler[h], journal)
      /\ RowsLocked /\ ProjectedOnce /\ AnsweredStored
  BY DEF IngressInv, IngressTypeOK, HandlersSound, StorePart
<1>2. handler[h] \in Serving /\ mine \subseteq Fact /\ mine \cap journal = {}
      /\ handler[h].delivery \in Delivery
  BY <1>1, ServingFields DEF Sound, Bound
<1>3. /\ journal' = journal \cup mine /\ todo' = todo \cup (mine \ Unreadable)
      /\ UNCHANGED <<drainer, effects>>
      /\ handler[h].at = Len(Parts[handler[h].delivery][handler[h].part])
  BY DEF StorePart, Queued, Inserted, FactsOf
<1>4. /\ handler' \in [Handler -> {NoDelivery} \cup Serving]
      /\ \A g \in Handler \ {h} : handler'[g] = handler[g]
      /\ handler'[h] # NoDelivery => Sound(handler'[h], journal') /\ handler'[h].mine = {}
  <2>1. CASE PartsLeft(h)
    <3> DEFINE s == NextPart(handler[h])
    <3>1. Sound(s, journal') /\ s.mine = {}
      BY <1>1, <1>3, <2>1, NextPartSound DEF PartsLeft
    <3>2. s \in Serving
      BY <3>1 DEF Sound, Bound
    <3>3. handler' = [handler EXCEPT ![h] = s]
      BY <2>1 DEF StorePart
    <3> HIDE DEF s
    <3>4. QED BY <1>1, <3>1, <3>2, <3>3
  <2>2. CASE ~PartsLeft(h)
    <3>1. handler' = [handler EXCEPT ![h] = NoDelivery]
      BY <2>2 DEF StorePart
    <3>2. QED BY <1>1, <3>1
  <2>3. QED BY <2>1, <2>2
<1>5. \A g \in Handler \ {h} : handler[g] # NoDelivery => handler[g].mine \cap journal' = {}
  BY <1>1, <1>3 DEF HandlersSound, KeysApart, Busy, Sound
<1>6. HandlersSound' /\ KeysApart'
  <2>1. journal \subseteq journal'
    BY <1>3
  <2>2. \A g \in Handler \ {h} : /\ handler'[g] \in {handler[g], NoDelivery}
                               /\ handler'[g] # NoDelivery => handler[g].mine \cap journal' = {}
    BY <1>4, <1>5
  <2>3. handler'[h] # NoDelivery =>
          \A g \in Handler \ {h} : handler'[h].mine \cap handler[g].mine = {}
    BY <1>4
  <2>4. QED BY <1>4, <2>1, <2>2, <2>3, HandlersFollow
<1>7. /\ answered' \subseteq answered \cup {handler[h].delivery}
      /\ handler[h].delivery \in answered' \ answered => ~PartsLeft(h)
      /\ troubles' \in 0..MaxFaults
  <2>1. CASE PartsLeft(h)
    BY <1>1, <2>1 DEF StorePart, IngressTypeOK
  <2>2. CASE ~PartsLeft(h)
    BY <1>1, <2>2, TroubleCounts DEF StorePart, IngressTypeOK
  <2>3. QED BY <2>1, <2>2
<1>8. IngressTypeOK'
  BY <1>1, <1>2, <1>3, <1>4, <1>7 DEF IngressTypeOK
<1>9. RowsLocked'
  BY <1>1, <1>3 DEF RowsLocked
<1>10. ProjectedOnce'
  BY <1>1, <1>2, <1>3 DEF ProjectedOnce, IngressTypeOK
<1>11. AnsweredStored'
  <2>1. ~PartsLeft(h) => \A i \in 1..Len(Parts[handler[h].delivery]) :
                           ToSet(Parts[handler[h].delivery][i]) \subseteq journal'
    BY <1>1, <1>3, AllStored DEF PartsLeft
  <2>2. QED BY <1>1, <1>3, <1>7, <2>1 DEF AnsweredStored
<1>12. QED BY <1>6, <1>8, <1>9, <1>10, <1>11 DEF IngressInv

-----------------------------------------------------------------------------
(* Workers *)

LEMMA DrainerStep ==
  ASSUME IngressAssumption, IngressInv, NEW w \in Drainer, Claim(w) \/ Drain(w) \/ DrainFails(w)
  PROVE  IngressInv'
<1>1. /\ IngressTypeOK /\ RowsLocked /\ ProjectedOnce
      /\ HandlersSound /\ KeysApart /\ AnsweredStored
      /\ drainer \in [Drainer -> SUBSET Fact] /\ todo \subseteq journal /\ journal \subseteq Fact
  BY DEF IngressInv, IngressTypeOK
<1>2. UNCHANGED <<handler, answered, journal>>
  BY DEF Claim, Drain, DrainFails
<1>3. HandlersSound' /\ KeysApart' /\ AnsweredStored'
  BY <1>1, <1>2 DEF HandlersSound, KeysApart, AnsweredStored, Busy
<1>4. CASE Claim(w)
  <2>1. PICK rows \in SUBSET (todo \ Locked) : drainer' = [drainer EXCEPT ![w] = rows]
    BY <1>4 DEF Claim
  <2>2. UNCHANGED <<todo, effects, troubles>>
    BY <1>4 DEF Claim
  <2>3. \A v \in Drainer : drainer[v] \subseteq Locked
    BY DEF Locked
  <2>4. \A v \in Drainer : drainer'[v] = IF v = w THEN rows ELSE drainer[v]
    BY <1>1, <2>1
  <2>5. drainer' \in [Drainer -> SUBSET Fact]
    BY <1>1, <2>1
  <2>6. RowsLocked'
    BY <1>1, <2>2, <2>3, <2>4 DEF RowsLocked
  <2>7. QED BY <1>1, <1>2, <1>3, <2>2, <2>5, <2>6 DEF IngressInv, IngressTypeOK, ProjectedOnce
<1>5. CASE Drain(w)
  <2>1. /\ todo' = todo \ drainer[w] /\ drainer' = [drainer EXCEPT ![w] = {}]
        /\ effects' = [f \in Fact |-> IF f \in drainer[w] THEN effects[f] + 1 ELSE effects[f]]
        /\ troubles' = troubles
    BY <1>5 DEF Drain
  <2>2. \A v \in Drainer : drainer'[v] = IF v = w THEN {} ELSE drainer[v]
    BY <1>1, <2>1
  <2>3. drainer' \in [Drainer -> SUBSET Fact]
    BY <1>1, <2>1
  <2>4. RowsLocked'
    BY <1>1, <2>1, <2>2 DEF RowsLocked
  <2>5. \A f \in drainer[w] : f \in todo /\ f \in journal /\ f \notin Unreadable
    BY <1>1 DEF RowsLocked, ProjectedOnce
  <2>6. ProjectedOnce'
    BY <1>1, <1>2, <2>1, <2>5 DEF ProjectedOnce
  <2>7. effects' \in [Fact -> Nat]
    BY <1>1, <2>1 DEF IngressTypeOK
  <2>8. QED BY <1>1, <1>2, <1>3, <2>1, <2>3, <2>4, <2>6, <2>7 DEF IngressInv, IngressTypeOK
<1>6. CASE DrainFails(w)
  <2>1. drainer' = [drainer EXCEPT ![w] = {}] /\ UNCHANGED <<todo, effects>> /\ Trouble
    BY <1>6 DEF DrainFails
  <2>2. \A v \in Drainer : drainer'[v] = IF v = w THEN {} ELSE drainer[v]
    BY <1>1, <2>1
  <2>3. drainer' \in [Drainer -> SUBSET Fact] /\ troubles' \in 0..MaxFaults
    BY <1>1, <2>1, TroubleCounts
  <2>4. RowsLocked'
    BY <1>1, <2>1, <2>2 DEF RowsLocked
  <2>5. QED BY <1>1, <1>2, <1>3, <2>1, <2>3, <2>4 DEF IngressInv, IngressTypeOK, ProjectedOnce
<1>7. QED BY <1>4, <1>5, <1>6

-----------------------------------------------------------------------------
(* Theorems *)

LEMMA IngressInitOK ==
  ASSUME IngressAssumption, IngressInit
  PROVE  IngressInv
<1>1. IngressTypeOK
  BY DEF IngressInit, IngressAssumption, IngressTypeOK
<1>2. HandlersSound /\ KeysApart
  BY DEF IngressInit, HandlersSound, KeysApart, Busy
<1>3. RowsLocked /\ ProjectedOnce /\ AnsweredStored
  BY DEF IngressInit, RowsLocked, ProjectedOnce, AnsweredStored
<1>4. QED BY <1>1, <1>2, <1>3 DEF IngressInv

LEMMA IngressNextOK ==
  ASSUME IngressAssumption, IngressInv, [IngressNext]_ingressVars
  PROVE  IngressInv'
<1>1. CASE UNCHANGED ingressVars
  BY <1>1 DEF ingressVars, IngressInv, IngressTypeOK, HandlersSound, KeysApart, Busy, RowsLocked,
     ProjectedOnce, AnsweredStored
<1>2. CASE IngressNext
  BY <1>2, PostStep, InsertStep, StoreStep, FailStep, DeadlockStep, DrainerStep DEF IngressNext
<1>3. QED BY <1>1, <1>2

\* Journal, queue, transactions and projections agree, whatever fails or waits.
THEOREM IngressKeptRight ==
  ASSUME IngressAssumption
  PROVE  IngressSpec => []IngressInv
BY IngressInitOK, IngressNextOK, PTL DEF IngressSpec

\* The variables have their declared types, every fact of an answered delivery
\* is stored, and every fact that can be read waits or was projected once
\* (storeRouted, insertEvent, drain).
THEOREM AnsweredStaysKept ==
  ASSUME IngressAssumption
  PROVE  IngressSpec => []IngressTypeOK /\ []AnsweredIsKept
<1>1. IngressInv => IngressTypeOK /\ AnsweredIsKept
  <2> SUFFICES ASSUME IngressInv PROVE IngressTypeOK /\ AnsweredIsKept
    OBVIOUS
  <2>1. IngressTypeOK /\ ProjectedOnce /\ AnsweredStored
    BY DEF IngressInv
  <2>2. ASSUME NEW d \in answered, NEW part \in ToSet(Parts[d])
        PROVE  ToSet(part) \subseteq journal
    <3>1. d \in Delivery /\ Parts[d] \in Seq(Seq(Fact))
      BY <2>1 DEF IngressTypeOK, IngressAssumption
    <3>2. PICK i \in 1..Len(Parts[d]) : part = Parts[d][i]
      BY <2>2, <3>1, InSet
    <3>3. QED BY <2>1, <2>2, <3>2 DEF AnsweredStored
  <2>3. \A f \in journal \ Unreadable : effects[f] = IF f \in todo THEN 0 ELSE 1
    BY <2>1 DEF IngressTypeOK, ProjectedOnce
  <2>4. QED BY <2>1, <2>2, <2>3 DEF AnsweredIsKept
<1>2. QED BY <1>1, IngressKeptRight, PTL

-----------------------------------------------------------------------------
(* Refinement *)

\* The facts a part commits are new, and its delivery is answered only with all
\* of its facts in the journal: a step of Store.
LEMMA StoreKeeps ==
  ASSUME IngressAssumption, IngressInv, IngressInv', NEW h \in Handler, StorePart(h)
  PROVE  \E new \in SUBSET Fact, done \in SUBSET Delivery : Inbox!Store(new, done)
<1> DEFINE new == handler[h].mine
           done == answered' \ answered
<1>1. handler[h] \in Serving /\ Sound(handler[h], journal)
  BY DEF StorePart, Busy, IngressInv, IngressTypeOK, HandlersSound
<1>2. new \in SUBSET Fact /\ new \cap journal = {}
  BY <1>1, ServingFields DEF Sound
<1>3. done \in SUBSET Delivery /\ answered' = answered \cup done
  BY <1>1, ServingFields DEF StorePart, IngressInv, IngressTypeOK
<1>4. /\ journal' = journal \cup new /\ todo' = todo \cup (new \ Unreadable)
      /\ UNCHANGED effects
  BY DEF StorePart, Queued
<1>5. ASSUME NEW d \in done
      PROVE  UNION {ToSet(part) : part \in ToSet(Parts[d])} \subseteq journal'
  <2>1. d \in Delivery /\ d \in answered'
    BY <1>3, <1>5
  <2>2. Parts[d] \in Seq(Seq(Fact))
    BY <2>1 DEF IngressAssumption
  <2>3. \A i \in 1..Len(Parts[d]) : ToSet(Parts[d][i]) \subseteq journal'
    BY <2>1 DEF IngressInv, AnsweredStored
  <2>4. \A part \in ToSet(Parts[d]) : ToSet(part) \subseteq journal'
    BY <2>2, <2>3, InSet
  <2>5. QED BY <2>4
<1>6. Inbox!Store(new, done)
  BY <1>2, <1>3, <1>4, <1>5 DEF Inbox!Store
<1>7. QED BY <1>2, <1>3, <1>6

\* The batch a worker drains is out of the queue: a step of Show.
LEMMA DrainShows ==
  ASSUME IngressInv, NEW w \in Drainer, Drain(w)
  PROVE  \E batch \in SUBSET Fact : Inbox!Show(batch)
<1>1. drainer[w] \subseteq todo /\ drainer[w] \in SUBSET Fact
  BY DEF IngressInv, IngressTypeOK, RowsLocked
<1>2. Inbox!Show(drainer[w])
  BY <1>1 DEF Drain, Inbox!Show
<1>3. QED BY <1>1, <1>2

LEMMA InboxStep ==
  ASSUME IngressAssumption, IngressInv, IngressInv', [IngressNext]_ingressVars
  PROVE  [Inbox!InboxNext]_(Inbox!inboxVars)
<1>1. ASSUME NEW h \in Handler, StorePart(h)
      PROVE  Inbox!InboxNext
  BY <1>1, StoreKeeps DEF Inbox!InboxNext
<1>2. ASSUME NEW w \in Drainer, Drain(w)
      PROVE  Inbox!InboxNext
  BY <1>2, DrainShows DEF Inbox!InboxNext
<1>3. ASSUME NEW h \in Handler,
             \/ Insert(h) \/ FailPart(h) \/ \E g \in Handler : Deadlocked(h, g)
             \/ \E d \in Delivery : Post(h, d)
      PROVE  UNCHANGED Inbox!inboxVars
  BY <1>3 DEF Insert, FailPart, Deadlocked, Post, Inbox!inboxVars
<1>4. ASSUME NEW w \in Drainer, Claim(w) \/ DrainFails(w)
      PROVE  UNCHANGED Inbox!inboxVars
  BY <1>4 DEF Claim, DrainFails, Inbox!inboxVars
<1>5. CASE UNCHANGED ingressVars
  BY <1>5 DEF ingressVars, Inbox!inboxVars
<1>6. QED BY <1>1, <1>2, <1>3, <1>4, <1>5 DEF IngressNext

\* Ingress and drain implement InboxPromise: each commit keeps what is new and
\* queues what can be read of it, a sender is told only what is kept, and what is
\* shown leaves the queue with it (storeRouted, insertEvent, drain).
THEOREM IngressKeepsInbox ==
  ASSUME IngressAssumption
  PROVE  IngressSpec => KeepsInbox
<1>1. IngressInit => Inbox!InboxInit
  BY DEF IngressInit, Inbox!InboxInit
<1>2. IngressInv /\ IngressInv' /\ [IngressNext]_ingressVars
        => [Inbox!InboxNext]_(Inbox!inboxVars)
  BY InboxStep
<1>3. QED BY <1>1, <1>2, IngressKeptRight, PTL DEF IngressSpec, KeepsInbox, Inbox!InboxSpec
=============================================================================
