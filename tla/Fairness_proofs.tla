-------------------------- MODULE Fairness_proofs --------------------------
(***************************************************************************)
(* Proofs about the rounds of a worker (module Fairness), for any          *)
(* companies, in any order, and any capacity: a round hands out its slots, *)
(* hands them out evenly, and leaves nobody out who fits in.               *)
(*                                                                         *)
(* While the deal runs its evenness is a matter of passes: after p whole   *)
(* passes whoever still wants a slot has exactly p of them if the loop has *)
(* yet to come to them in this pass and p + 1 if it has been there, and    *)
(* what is left of the pass is the end of the list.                        *)
(***************************************************************************)
EXTENDS Fairness, FiniteSetTheorems, TLAPS

Wanting(c) == granted[c] < offered[c]

\* A slot is granted only to who is on the list, and only out of the capacity.
GrantsStand ==
  /\ \A c \in Company : granted[c] <= offered[c]
  /\ \A c \in Company : granted[c] > 0 => c \in Listed(offered)
  /\ at # "idle" => \A c \in Company : granted[c] + remaining <= Capacity

SlotsAdd ==
  /\ IsFiniteSet(Slots)
  /\ at # "idle" => Cardinality(Slots) + remaining = Capacity

AfterPasses(p) ==
  /\ \A c \in left : granted[c] <= p /\ (Wanting(c) => granted[c] = p)
  /\ \A c \in Listed(offered) \ left :
       granted[c] <= p + 1 /\ (Wanting(c) => granted[c] = p + 1)

DealtInPasses == at = "deal" =>
  /\ left \subseteq Listed(offered)
  /\ \A c \in left, d \in Listed(offered) : Place[c] < Place[d] => d \in left
  /\ \E p \in Nat : AfterPasses(p)
  /\ ~progress => \A c \in Listed(offered) \ left : ~Wanting(c)

NoneKeptBack == at = "serve" =>
  remaining = 0 \/ \A c \in Listed(offered) : granted[c] = offered[c]

FairInv ==
  /\ FairnessTypeOK /\ GrantsStand /\ SlotsAdd
  /\ DealtInPasses /\ NoneKeptBack /\ EvenDeal

-----------------------------------------------------------------------------
(* The list *)

\* The list names companies that offer something.
LEMMA ListedOffer ==
  ASSUME FairnessAssumption, NEW rows \in Count
  PROVE  /\ Listed(rows) \subseteq Company
         /\ IsFiniteSet(Listed(rows))
         /\ \A c \in Listed(rows) : rows[c] \in Nat /\ rows[c] > 0
<1>1. /\ Listed(rows) \subseteq Company
      /\ \A c \in Listed(rows) : rows[c] \in Nat /\ rows[c] > 0
  BY DEF Listed, Offering, Count
<1>2. IsFiniteSet(Company)
  BY DEF FairnessAssumption
<1> QED
  BY <1>1, <1>2, FS_Subset

\* Nothing is a count of each company, and no slots are some.
LEMMA NothingCounts ==
  ASSUME FairnessAssumption
  PROVE  Nothing \in Count /\ 0 \in 0..Capacity /\ 0 \in 0..MaxBroken
<1>1. Nothing \in Count
  BY DEF Nothing, Count
<1>2. 0 \in 0..Capacity /\ 0 \in 0..MaxBroken
  BY DEF FairnessAssumption
<1> QED
  BY <1>1, <1>2

\* Before anything is granted there is no slot.
LEMMA NoSlotsYet ==
  ASSUME granted = Nothing
  PROVE  Slots = {}
BY DEF Slots, Nothing

\* A grant adds one slot to those there are.
LEMMA OneSlotMore ==
  ASSUME FairnessTypeOK, SlotsAdd, NEW c \in Company,
         granted[c] + 1 \in 1..Capacity,
         granted' = [granted EXCEPT ![c] = @ + 1]
  PROVE  /\ IsFiniteSet(Slots')
         /\ Cardinality(Slots') = Cardinality(Slots) + 1
         /\ Cardinality(Slots) \in Nat
<1> DEFINE new == <<c, granted[c] + 1>>
<1>1. granted \in [Company -> Nat] /\ IsFiniteSet(Slots)
  BY DEF FairnessTypeOK, Count, SlotsAdd
<1>2. ASSUME NEW s \in Company \X (1..Capacity)
      PROVE  s[2] <= granted'[s[1]] <=> s[2] <= granted[s[1]] \/ s = new
  <2>1. PICK d \in Company, n \in 1..Capacity : s = <<d, n>>
    OBVIOUS
  <2>2. CASE d = c
    <3>1. granted'[d] = granted[c] + 1 /\ granted[c] \in Nat
      BY <1>1, <2>2
    <3>2. n <= granted[c] + 1 <=> n <= granted[c] \/ n = granted[c] + 1
      BY <3>1, <2>1
    <3> QED
      BY <3>1, <3>2, <2>1, <2>2
  <2>3. CASE d # c
    BY <1>1, <2>1, <2>3
  <2> QED
    BY <2>2, <2>3
<1>3. new \in Company \X (1..Capacity) /\ new \notin Slots
  BY <1>1 DEF Slots
<1>4. Slots' = Slots \cup {new}
  BY <1>2, <1>3 DEF Slots
<1> QED
  BY <1>1, <1>3, <1>4, FS_AddElement, FS_CardinalityType

-----------------------------------------------------------------------------
(* The invariant *)

LEMMA FairStart ==
  ASSUME FairnessAssumption, FairnessInit
  PROVE  FairInv
<1>1. FairnessTypeOK
  BY NothingCounts DEF FairnessInit, FairnessTypeOK
<1>2. GrantsStand
  BY DEF FairnessInit, GrantsStand, Nothing
<1>3. SlotsAdd
  BY NoSlotsYet, FS_EmptySet DEF FairnessInit, SlotsAdd
<1>4. DealtInPasses /\ NoneKeptBack /\ EvenDeal
  BY DEF FairnessInit, DealtInPasses, NoneKeptBack, EvenDeal
<1> QED
  BY <1>1, <1>2, <1>3, <1>4 DEF FairInv

\* What a step leaves alone of the round.
LEMMA RoundStands ==
  ASSUME FairInv, UNCHANGED round, ready' \in Count, held' \in Count,
         broken' \in 0..MaxBroken
  PROVE  FairInv'
<1> USE DEF round
<1>1. FairnessTypeOK'
  BY DEF FairInv, FairnessTypeOK
<1>2. GrantsStand' /\ NoneKeptBack' /\ EvenDeal'
  BY DEF FairInv, GrantsStand, NoneKeptBack, EvenDeal, Listed, Offering
<1>3. Slots' = Slots
  BY DEF Slots
<1>4. SlotsAdd'
  BY <1>3 DEF FairInv, SlotsAdd
<1>5. DealtInPasses'
  BY DEF FairInv, DealtInPasses, AfterPasses, Wanting, Listed, Offering
<1> QED
  BY <1>1, <1>2, <1>4, <1>5 DEF FairInv

\* The end of a tick leaves nothing to keep.
LEMMA OverStands ==
  ASSUME FairnessAssumption, FairInv, Over,
         ready' \in Count, held' \in Count, broken' \in 0..MaxBroken
  PROVE  FairInv'
<1>1. FairnessTypeOK'
  BY NothingCounts DEF Over, FairnessTypeOK
<1>2. GrantsStand'
  BY DEF Over, GrantsStand, Nothing
<1>3. Slots' = {}
  BY DEF Over, Slots, Nothing
<1>4. SlotsAdd'
  BY <1>3, FS_EmptySet DEF Over, SlotsAdd
<1>5. DealtInPasses' /\ NoneKeptBack' /\ EvenDeal'
  BY DEF Over, DealtInPasses, NoneKeptBack, EvenDeal
<1> QED
  BY <1>1, <1>2, <1>4, <1>5 DEF FairInv

LEMMA ReadOffersStands ==
  ASSUME FairnessAssumption, FairInv, ReadOffers
  PROVE  FairInv'
<1> DEFINE rows == [c \in Company |-> ready[c] + held[c]]
<1>1. rows \in Count
  BY DEF FairInv, FairnessTypeOK, Count
<1>2. /\ at' = "deal" /\ offered' = rows /\ granted' = Nothing
      /\ remaining' = Capacity /\ left' = Listed(rows) /\ progress' = FALSE
      /\ ready' = ready /\ held' = held /\ broken' = broken
  BY DEF ReadOffers, database
<1> HIDE DEF rows
<1>3. Listed(rows) \subseteq Company
  BY <1>1, ListedOffer
<1>4. Listed(offered)' = Listed(rows)
  BY <1>2 DEF Listed, Offering
<1>5. Capacity \in 0..Capacity
  BY DEF FairnessAssumption
<1>6. FairnessTypeOK'
  BY <1>1, <1>2, <1>3, <1>5, NothingCounts DEF FairInv, FairnessTypeOK
<1>7. GrantsStand'
  BY <1>1, <1>2, <1>5 DEF GrantsStand, Nothing, Count
<1>8. Slots' = {}
  BY <1>2 DEF Slots, Nothing
<1>9. SlotsAdd'
  BY <1>2, <1>5, <1>8, FS_EmptySet DEF SlotsAdd
<1>10. AfterPasses(0)'
  <2>1. \A c \in left' : granted'[c] = 0
    BY <1>2, <1>3 DEF Nothing
  <2>2. Listed(offered)' \ left' = {}
    BY <1>2, <1>4
  <2> QED
    BY <2>1, <2>2 DEF AfterPasses
<1>11. DealtInPasses'
  BY <1>2, <1>4, <1>10 DEF DealtInPasses
<1>12. NoneKeptBack' /\ EvenDeal'
  BY <1>2 DEF NoneKeptBack, EvenDeal
<1> QED
  BY <1>6, <1>7, <1>9, <1>11, <1>12 DEF FairInv

LEMMA GrantStands ==
  ASSUME FairnessAssumption, FairInv, NEW c \in Company,
         at = "deal", remaining > 0, IsNext(c), Grant(c),
         UNCHANGED <<database, at, offered, broken>>
  PROVE  FairInv'
<1>1. /\ granted \in [Company -> Nat] /\ offered \in [Company -> Nat]
      /\ remaining \in 0..Capacity /\ Capacity \in Nat /\ left \subseteq Company
      /\ Place \in [Company -> Nat]
  BY DEF FairInv, FairnessTypeOK, Count, FairnessAssumption
<1>2. /\ granted[c] < offered[c]
      /\ granted' = [granted EXCEPT ![c] = @ + 1]
      /\ remaining' = remaining - 1 /\ progress' = TRUE /\ left' = left \ {c}
      /\ at' = at /\ offered' = offered /\ c \in left
      /\ \A d \in left : Place[c] <= Place[d]
      /\ ready' = ready /\ held' = held /\ broken' = broken
  BY DEF Grant, IsNext, database
<1>3. /\ granted'[c] = granted[c] + 1
      /\ \A d \in Company \ {c} : granted'[d] = granted[d]
      /\ granted' \in [Company -> Nat]
  BY <1>1, <1>2
<1>4. Listed(offered)' = Listed(offered)
  BY <1>2 DEF Listed, Offering
<1>5. c \in Listed(offered) /\ left \subseteq Listed(offered)
  BY <1>2 DEF FairInv, DealtInPasses
<1>6. FairnessTypeOK'
  BY <1>1, <1>2, <1>3 DEF FairInv, FairnessTypeOK, Count
<1>7. GrantsStand'
  <2>1. \A d \in Company : granted[d] + remaining <= Capacity
    BY DEF FairInv, GrantsStand
  <2>2. \A d \in Company : granted'[d] <= offered'[d]
    BY <1>1, <1>2, <1>3 DEF FairInv, GrantsStand
  <2>3. \A d \in Company : granted'[d] + remaining' <= Capacity
    BY <1>1, <1>2, <1>3, <2>1
  <2>4. \A d \in Company : granted'[d] > 0 => d \in Listed(offered)'
    BY <1>3, <1>4, <1>5 DEF FairInv, GrantsStand
  <2> QED
    BY <2>2, <2>3, <2>4 DEF GrantsStand
<1>8. SlotsAdd'
  <2>1. granted[c] + 1 \in 1..Capacity
    BY <1>1 DEF FairInv, GrantsStand
  <2>2. /\ IsFiniteSet(Slots') /\ Cardinality(Slots') = Cardinality(Slots) + 1
        /\ Cardinality(Slots) \in Nat
    BY <1>2, <2>1, OneSlotMore DEF FairInv
  <2>3. Cardinality(Slots) + remaining = Capacity
    BY DEF FairInv, SlotsAdd
  <2> QED
    BY <1>1, <1>2, <2>2, <2>3 DEF SlotsAdd
<1>9. \A d \in left', e \in Listed(offered) : Place[d] < Place[e] => e \in left'
  BY <1>1, <1>2, <1>5, ListedOffer DEF FairInv, DealtInPasses, FairnessTypeOK
<1>10. PICK p \in Nat : AfterPasses(p)
  BY DEF FairInv, DealtInPasses
<1>11. AfterPasses(p)'
  <2>1. granted[c] = p
    BY <1>2, <1>10 DEF AfterPasses, Wanting
  <2>2. ASSUME NEW d \in left'
        PROVE  granted'[d] <= p /\ (Wanting(d)' => granted'[d] = p)
    BY <1>1, <1>2, <1>3, <1>10, <2>2 DEF AfterPasses, Wanting
  <2>3. ASSUME NEW d \in Listed(offered) \ left'
        PROVE  granted'[d] <= p + 1 /\ (Wanting(d)' => granted'[d] = p + 1)
    <3>1. CASE d = c
      BY <1>1, <1>3, <1>10, <2>1, <3>1
    <3>2. CASE d # c
      <4>1. d \in Listed(offered) \ left /\ d \in Company
        BY <1>1, <1>2, <2>3, <3>2, ListedOffer DEF FairInv, FairnessTypeOK
      <4> QED
        BY <1>2, <1>3, <1>10, <3>2, <4>1 DEF AfterPasses, Wanting
    <3> QED
      BY <3>1, <3>2
  <2> QED
    BY <1>4, <2>2, <2>3 DEF AfterPasses
<1>12. DealtInPasses'
  BY <1>2, <1>4, <1>5, <1>9, <1>11 DEF DealtInPasses
<1>13. NoneKeptBack' /\ EvenDeal'
  BY <1>2 DEF NoneKeptBack, EvenDeal
<1> QED
  BY <1>6, <1>7, <1>8, <1>12, <1>13 DEF FairInv

LEMMA PassOverStands ==
  ASSUME FairnessAssumption, FairInv, NEW c \in Company,
         at = "deal", IsNext(c), PassOver(c),
         UNCHANGED <<database, at, offered, broken>>
  PROVE  FairInv'
<1>1. /\ granted \in [Company -> Nat] /\ offered \in [Company -> Nat]
      /\ left \subseteq Company /\ Place \in [Company -> Nat]
  BY DEF FairInv, FairnessTypeOK, Count, FairnessAssumption
<1>2. /\ ~Wanting(c) /\ left' = left \ {c} /\ c \in left
      /\ \A d \in left : Place[c] <= Place[d]
      /\ at' = at /\ offered' = offered /\ granted' = granted
      /\ remaining' = remaining /\ progress' = progress
      /\ ready' = ready /\ held' = held /\ broken' = broken
  BY <1>1 DEF PassOver, IsNext, Wanting, database
<1>3. Listed(offered)' = Listed(offered) /\ Slots' = Slots
  BY <1>2 DEF Listed, Offering, Slots
<1>4. FairnessTypeOK' /\ GrantsStand' /\ SlotsAdd'
  BY <1>2, <1>3 DEF FairInv, FairnessTypeOK, GrantsStand, SlotsAdd
<1>5. left \subseteq Listed(offered) /\ Listed(offered) \subseteq Company
  BY ListedOffer DEF FairInv, DealtInPasses, FairnessTypeOK
<1>6. \A d \in left', e \in Listed(offered) : Place[d] < Place[e] => e \in left'
  BY <1>1, <1>2, <1>5 DEF FairInv, DealtInPasses
<1>7. PICK p \in Nat : AfterPasses(p)
  BY DEF FairInv, DealtInPasses
<1>8. AfterPasses(p)'
  <2>1. granted[c] <= p
    BY <1>2, <1>7 DEF AfterPasses
  <2>2. \A d \in left' : granted'[d] <= p /\ (Wanting(d)' => granted'[d] = p)
    BY <1>2, <1>7 DEF AfterPasses, Wanting
  <2>3. granted[c] <= p + 1
    BY <1>1, <1>7, <2>1
  <2>4. \A d \in Listed(offered) \ left' :
          granted'[d] <= p + 1 /\ (Wanting(d)' => granted'[d] = p + 1)
    BY <1>2, <1>7, <2>3 DEF AfterPasses, Wanting
  <2> QED
    BY <1>3, <2>2, <2>4 DEF AfterPasses
<1>9. ~progress' => \A d \in Listed(offered) \ left' : ~Wanting(d)'
  BY <1>2 DEF FairInv, DealtInPasses, Wanting
<1>10. DealtInPasses'
  BY <1>2, <1>3, <1>5, <1>6, <1>8, <1>9, <1>7 DEF DealtInPasses
<1>11. NoneKeptBack' /\ EvenDeal'
  BY <1>2 DEF NoneKeptBack, EvenDeal
<1> QED
  BY <1>4, <1>10, <1>11 DEF FairInv

LEMMA NextPassStands ==
  ASSUME FairnessAssumption, FairInv, NextPass
  PROVE  FairInv'
<1>1. /\ at = "deal" /\ left = {} /\ left' = Listed(offered) /\ progress' = FALSE
      /\ at' = at /\ offered' = offered /\ granted' = granted
      /\ remaining' = remaining
      /\ ready' = ready /\ held' = held /\ broken' = broken
  BY DEF NextPass, database
<1>2. Listed(offered)' = Listed(offered) /\ Slots' = Slots
  BY <1>1 DEF Listed, Offering, Slots
<1>3. Listed(offered) \subseteq Company
  BY ListedOffer DEF FairInv, FairnessTypeOK
<1>4. FairnessTypeOK' /\ GrantsStand' /\ SlotsAdd'
  BY <1>1, <1>2, <1>3 DEF FairInv, FairnessTypeOK, GrantsStand, SlotsAdd
<1>5. PICK p \in Nat : AfterPasses(p)
  BY <1>1 DEF FairInv, DealtInPasses
<1>6. AfterPasses(p + 1)'
  BY <1>1, <1>2, <1>5 DEF AfterPasses, Wanting
<1>7. DealtInPasses'
  BY <1>1, <1>2, <1>5, <1>6 DEF DealtInPasses
<1>8. NoneKeptBack' /\ EvenDeal'
  BY <1>1 DEF NoneKeptBack, EvenDeal
<1> QED
  BY <1>4, <1>7, <1>8 DEF FairInv

\* The deal ends even: of two companies on the list the one that wants more is
\* at most the slot of the unfinished pass behind.
LEMMA EndDealStands ==
  ASSUME FairnessAssumption, FairInv, EndDeal
  PROVE  FairInv'
<1>1. /\ at = "deal" /\ at' = "serve"
      /\ remaining = 0 \/ (left = {} /\ ~progress)
      /\ left' = {c \in Listed(offered) : granted[c] > 0}
      /\ offered' = offered /\ granted' = granted
      /\ remaining' = remaining /\ progress' = progress
      /\ ready' = ready /\ held' = held /\ broken' = broken
  BY DEF EndDeal, database
<1>2. Listed(offered)' = Listed(offered) /\ Slots' = Slots
  BY <1>1 DEF Listed, Offering, Slots
<1>3. Listed(offered) \subseteq Company
  BY ListedOffer DEF FairInv, FairnessTypeOK
<1>4. /\ granted \in [Company -> Nat] /\ offered \in [Company -> Nat]
      /\ Place \in [Company -> Nat]
      /\ \A c, d \in Company : Place[c] = Place[d] => c = d
  BY DEF FairInv, FairnessTypeOK, Count, FairnessAssumption
<1>5. FairnessTypeOK'
  BY <1>1, <1>3 DEF FairInv, FairnessTypeOK
<1>6. GrantsStand' /\ SlotsAdd'
  BY <1>1, <1>2 DEF FairInv, GrantsStand, SlotsAdd
<1>7. NoneKeptBack'
  <2>1. ASSUME remaining # 0, NEW c \in Listed(offered)
        PROVE  granted[c] = offered[c]
    <3>1. ~Wanting(c)
      BY <1>1, <2>1 DEF FairInv, DealtInPasses
    <3> QED
      BY <1>3, <1>4, <3>1 DEF FairInv, GrantsStand, Wanting
  <2> QED
    BY <1>1, <1>2, <2>1 DEF NoneKeptBack
<1>8. PICK p \in Nat : AfterPasses(p)
  BY <1>1 DEF FairInv, DealtInPasses
<1>9. ASSUME NEW c \in Listed(offered), NEW d \in Listed(offered), Wanting(c),
             ~(granted[d] <= granted[c])
      PROVE  granted[d] = granted[c] + 1 /\ Place[d] < Place[c]
  <2>1. granted[d] <= p + 1
    BY <1>3, <1>4, <1>8 DEF AfterPasses
  <2>2. c \in left /\ granted[c] = p
    BY <1>3, <1>4, <1>8, <1>9, <2>1 DEF AfterPasses
  <2>3. d \notin left /\ granted[d] = p + 1
    BY <1>3, <1>4, <1>8, <1>9, <2>1, <2>2 DEF AfterPasses
  <2>4. ~(Place[c] < Place[d])
    BY <1>1, <2>2, <2>3 DEF FairInv, DealtInPasses
  <2>5. c # d /\ c \in Company /\ d \in Company
    BY <1>3, <2>2, <2>3
  <2> QED
    BY <1>4, <2>2, <2>3, <2>4, <2>5
<1>10. EvenDeal'
  BY <1>1, <1>2, <1>9 DEF EvenDeal, Wanting
<1>11. DealtInPasses'
  BY <1>1 DEF DealtInPasses
<1> QED
  BY <1>5, <1>6, <1>7, <1>10, <1>11 DEF FairInv

LEMMA ServeStands ==
  ASSUME FairnessAssumption, FairInv, NEW c \in Company, Serve(c)
  PROVE  FairInv'
<1>1. PICK orphans \in 0..ready[c] : \E claimed \in 0..granted[c] :
        /\ orphans + claimed <= ready[c]
        /\ ready' = [ready EXCEPT ![c] = @ - (orphans + claimed)]
  BY DEF Serve
<1>2. PICK claimed \in 0..granted[c] :
        /\ orphans + claimed <= ready[c]
        /\ ready' = [ready EXCEPT ![c] = @ - (orphans + claimed)]
  BY <1>1
<1>3. ready' \in Count
  <2>1. ready \in [Company -> Nat] /\ granted \in [Company -> Nat]
    BY DEF FairInv, FairnessTypeOK, Count
  <2>2. ready[c] - (orphans + claimed) \in Nat
    BY <1>1, <1>2, <2>1
  <2> QED
    BY <1>2, <2>1, <2>2 DEF Count
<1>4. /\ at = "serve" /\ held' = held /\ broken' = broken
      /\ held' \in Count /\ broken' \in 0..MaxBroken
  BY DEF Serve, FairInv, FairnessTypeOK
<1>5. CASE Over
  BY <1>3, <1>4, <1>5, OverStands
<1>6. CASE /\ left' = left \ {c}
           /\ UNCHANGED <<at, offered, granted, remaining, progress>>
  <2>1. Listed(offered)' = Listed(offered) /\ Slots' = Slots
    BY <1>6 DEF Listed, Offering, Slots
  <2>2. FairnessTypeOK'
    BY <1>3, <1>4, <1>6 DEF FairInv, FairnessTypeOK
  <2>3. GrantsStand' /\ SlotsAdd'
    BY <1>6, <2>1 DEF FairInv, GrantsStand, SlotsAdd
  <2>4. NoneKeptBack' /\ EvenDeal'
    BY <1>6, <2>1 DEF FairInv, NoneKeptBack, EvenDeal
  <2>5. DealtInPasses'
    BY <1>4, <1>6 DEF DealtInPasses
  <2> QED
    BY <2>2, <2>3, <2>4, <2>5 DEF FairInv
<1> QED
  BY <1>5, <1>6 DEF Serve, Onward

\* What the others do to the rows does not touch the round.
LEMMA OthersStand ==
  ASSUME FairInv, NEW c \in Company, Arrive(c) \/ Leave(c) \/ Hold(c) \/ Free(c)
  PROVE  FairInv'
<1>1. /\ ready \in [Company -> Nat] /\ held \in [Company -> Nat]
      /\ broken \in 0..MaxBroken
  BY DEF FairInv, FairnessTypeOK, Count
<1>2. UNCHANGED round /\ broken' \in 0..MaxBroken
  BY <1>1 DEF Arrive, Leave, Hold, Free
<1>3. ready' \in Count /\ held' \in Count
  <2>1. CASE Arrive(c)
    BY <1>1, <2>1 DEF Arrive, Count
  <2>2. CASE Leave(c)
    BY <1>1, <2>2 DEF Leave, Count
  <2>3. CASE Hold(c)
    BY <1>1, <2>3 DEF Hold, Count
  <2>4. CASE Free(c)
    BY <1>1, <2>4 DEF Free, Count
  <2> QED
    BY <2>1, <2>2, <2>3, <2>4
<1> QED
  BY <1>2, <1>3, RoundStands

LEMMA FairStep ==
  ASSUME FairnessAssumption, FairInv, [FairnessNext]_fairnessVars
  PROVE  FairInv'
<1>1. CASE ReadOffers
  BY <1>1, ReadOffersStands
<1>2. CASE NextPass
  BY <1>2, NextPassStands
<1>3. CASE EndDeal
  BY <1>3, EndDealStands
<1>4. ASSUME NEW c \in Company, Visit(c)
      PROVE  FairInv'
  <2>1. /\ at = "deal" /\ remaining > 0 /\ IsNext(c)
        /\ UNCHANGED <<database, at, offered, broken>>
        /\ Grant(c) \/ PassOver(c)
    BY <1>4 DEF Visit
  <2>2. CASE Grant(c)
    BY <2>1, <2>2, GrantStands
  <2>3. CASE PassOver(c)
    BY <2>1, <2>3, PassOverStands
  <2> QED
    BY <2>1, <2>2, <2>3
<1>5. ASSUME NEW c \in Company, Serve(c)
      PROVE  FairInv'
  BY <1>5, ServeStands
<1>6. CASE Others
  BY <1>6, OthersStand DEF Others
<1>7. CASE Break
  <2>1. broken' \in 0..MaxBroken
    BY <1>7 DEF Break, FairInv, FairnessTypeOK, FairnessAssumption
  <2>2. Over /\ ready' \in Count /\ held' \in Count
    BY <1>7 DEF Break, database, FairInv, FairnessTypeOK
  <2> QED
    BY <2>1, <2>2, OverStands
<1>8. CASE UNCHANGED fairnessVars
  <2>1. /\ UNCHANGED round
        /\ ready' \in Count /\ held' \in Count /\ broken' \in 0..MaxBroken
    BY <1>8 DEF fairnessVars, round, FairInv, FairnessTypeOK
  <2> QED
    BY <2>1, RoundStands
<1> QED
  BY <1>1, <1>2, <1>3, <1>4, <1>5, <1>6, <1>7, <1>8 DEF FairnessNext, Work

\* The invariant the other theorems come from: at every point of a round the
\* slots add up to the capacity, and the deal stands at some number of passes.
THEOREM FairnessKeptRight ==
  ASSUME FairnessAssumption
  PROVE  FairnessSpec => []FairInv
<1>1. FairnessInit => FairInv
  BY FairStart
<1>2. FairInv /\ [FairnessNext]_fairnessVars => FairInv'
  BY FairStep
<1> QED
  BY <1>1, <1>2, PTL DEF FairnessSpec

-----------------------------------------------------------------------------
(* What follows *)

LEMMA SlotsAreDealt ==
  ASSUME FairInv
  PROVE  DealtOut
BY DEF FairInv, GrantsStand, SlotsAdd, NoneKeptBack, DealtOut

\* Wherever the slots run out, a round has handed out what it had and what was
\* wanted, and handed it out evenly (deal, one each per pass).
THEOREM DealsAreFair ==
  ASSUME FairnessAssumption
  PROVE  FairnessSpec => []FairDeal
<1>1. FairInv => FairDeal
  BY SlotsAreDealt DEF FairInv, FairDeal
<1> QED
  BY <1>1, FairnessKeptRight, PTL

\* If no company holds two slots and one on the list holds none, the slots are
\* fewer than the companies on the list.
LEMMA OneSlotEach ==
  ASSUME FairnessAssumption, FairInv, NEW c \in Listed(offered),
         granted[c] = 0, \A d \in Listed(offered) : granted[d] <= 1
  PROVE  Cardinality(Slots) < Cardinality(Listed(offered))
<1> DEFINE others == Listed(offered) \ {c}
<1> DEFINE holder == [s \in Slots |-> s[1]]
<1>1. Listed(offered) \subseteq Company /\ IsFiniteSet(Listed(offered))
  BY ListedOffer DEF FairInv, FairnessTypeOK
<1>2. granted \in [Company -> Nat]
  BY DEF FairInv, FairnessTypeOK, Count
<1>3. ASSUME NEW s \in Slots
      PROVE  s[1] \in others /\ s = <<s[1], 1>>
  <2>1. PICK d \in Company, n \in 1..Capacity : s = <<d, n>>
    BY DEF Slots
  <2>2. n <= granted[d]
    BY <1>3, <2>1 DEF Slots
  <2>3. n > 0 /\ n \in Int
    OBVIOUS
  <2>4. granted[d] > 0
    BY <1>2, <2>2, <2>3
  <2>5. d \in Listed(offered) /\ d # c
    BY <2>4 DEF FairInv, GrantsStand
  <2>6. n = 1
    BY <1>2, <2>2, <2>3, <2>5
  <2> QED
    BY <2>1, <2>5, <2>6
<1>4. holder \in [Slots -> others]
  BY <1>3
<1>5. \A s, t \in Slots : holder[s] = holder[t] => s = t
  BY <1>3
<1>6. holder \in Injection(Slots, others)
  BY <1>4, <1>5 DEF Injection, IsInjective
<1>7. /\ IsFiniteSet(others)
      /\ Cardinality(others) = Cardinality(Listed(offered)) - 1
  BY <1>1, FS_RemoveElement
<1>8. Cardinality(Slots) <= Cardinality(others) /\ IsFiniteSet(Slots)
  BY <1>6, <1>7, FS_Injection
<1> QED
  BY <1>1, <1>7, <1>8, FS_CardinalityType

LEMMA NobodyIsLeftOut ==
  ASSUME FairnessAssumption, FairInv
  PROVE  EveryoneDealtIn
<1> SUFFICES ASSUME at = "serve", Cardinality(Listed(offered)) <= Capacity,
                    NEW c \in Listed(offered), ~(granted[c] > 0)
             PROVE  FALSE
  BY DEF EveryoneDealtIn
<1>1. /\ Listed(offered) \subseteq Company /\ IsFiniteSet(Listed(offered))
      /\ \A d \in Listed(offered) : offered[d] > 0
  BY ListedOffer DEF FairInv, FairnessTypeOK
<1>2. /\ granted \in [Company -> Nat] /\ offered \in [Company -> Nat]
      /\ remaining \in Nat /\ Capacity \in Nat
  BY DEF FairInv, FairnessTypeOK, FairnessAssumption, Count
<1>3. granted[c] = 0 /\ granted[c] < offered[c]
  BY <1>1, <1>2
<1>4. \A d \in Listed(offered) : granted[d] <= 1
  BY <1>1, <1>2, <1>3 DEF FairInv, EvenDeal
<1>5. Cardinality(Slots) < Cardinality(Listed(offered))
  BY <1>3, <1>4, OneSlotEach
<1>6. remaining = 0
  BY <1>3 DEF FairInv, NoneKeptBack
<1>7. Cardinality(Slots) + remaining = Capacity
  BY DEF FairInv, SlotsAdd
<1>8. Cardinality(Slots) \in Nat /\ Cardinality(Listed(offered)) \in Nat
  BY <1>1, FS_CardinalityType DEF FairInv, SlotsAdd
<1> QED
  BY <1>2, <1>5, <1>6, <1>7, <1>8

\* Where there are no more companies than slots each has one (deal, which the
\* order of a round in module Dispatch takes for granted).
THEOREM EveryoneIsDealtIn ==
  ASSUME FairnessAssumption
  PROVE  FairnessSpec => []EveryoneDealtIn
<1>1. FairInv => EveryoneDealtIn
  BY NobodyIsLeftOut
<1> QED
  BY <1>1, FairnessKeptRight, PTL
=============================================================================
