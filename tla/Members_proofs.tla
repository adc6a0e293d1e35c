--------------------------- MODULE Members_proofs ---------------------------
(***************************************************************************)
(* What the members of a company keep, for any number of people, founders, *)
(* invitations, calls, notices, devices, subscriptions, sessions, recovery *)
(* links and workers: an owner, the door of the invitation, the devices    *)
(* they are reached by, and the password of an account.                    *)
(*                                                                         *)
(* A call writes what it read at its beginning allowed, so the invariant   *)
(* of People is about the calls that are under way: whom they have         *)
(* written, what their check has counted, which invitation they hold.  A   *)
(* push worker acts on a subscription it read before it called the push    *)
(* service; the invariant of PushOutbox says what that reading is still    *)
(* worth when the answer is written.  A replacement of the password sweeps *)
(* what it read; the invariant of Sessions is about what may escape it.    *)
(***************************************************************************)
EXTENDS People, PushOutbox, Sessions, TLAPS

-----------------------------------------------------------------------------
(* People: types *)

\* A call that has written something.
IsWriter(q) == q.step \in {"written", "checked"}

Held == {NoCall} \cup Authorised \cup Writing \cup Inviting \cup Accepting

\* What a step of a call says of the call.
LEMMA CallFacts ==
  ASSUME NEW q \in Held
  PROVE  /\ q.step = "authorised" => q \in Authorised
         /\ IsWriter(q) => q \in Writing
         /\ q.step = "inviting" => q \in Inviting
         /\ q.step = "accepting" => q \in Accepting
         /\ q.step = "idle" => q = NoCall
BY DEF Held, NoCall, Authorised, Writing, Inviting, Accepting, IsWriter

\* Partial writes, read and made.
LEMMA PartialFacts ==
  ASSUME NEW S
  PROVE  /\ \A P \in SUBSET Person : \A f \in [P -> S] : f \in PartialTo(S)
         /\ \A f \in PartialTo(S) : DOMAIN f \subseteq Person /\ \A p \in DOMAIN f : f[p] \in S
         /\ NoWrites \in PartialTo(S) /\ DOMAIN NoWrites = {}
<1>1. \A P \in SUBSET Person : \A f \in [P -> S] : f \in PartialTo(S)
  BY DEF PartialTo
<1>2. NoWrites \in [{} -> S] /\ DOMAIN NoWrites = {}
  BY DEF NoWrites
<1>3. ASSUME NEW f \in PartialTo(S)
      PROVE  DOMAIN f \subseteq Person /\ \A p \in DOMAIN f : f[p] \in S
  <2>1. PICK P \in SUBSET Person : f \in [P -> S]
    BY DEF PartialTo
  <2> QED
    BY <2>1
<1> QED
  BY <1>1, <1>2, <1>3

\* What a call's writes make of the memberships.
LEMMA AfterType ==
  ASSUME PeopleTypeOK, NEW r \in Call, IsWriter(call[r])
  PROVE  /\ call[r] \in Writing /\ After(r) \in [Person -> Membership]
         /\ \A p \in Person : p \notin DOMAIN call[r].statuses =>
              After(r)[p].status = member[p].status
<1>1. call[r] \in Writing
  BY CallFacts DEF PeopleTypeOK, Held
<1>2. /\ \A p \in DOMAIN call[r].roles : call[r].roles[p] \in Role
      /\ \A p \in DOMAIN call[r].statuses : call[r].statuses[p] \in Status
  BY <1>1, PartialFacts DEF Writing
<1> QED
  BY <1>1, <1>2 DEF After, Membership, PeopleTypeOK

\* Type correctness, for the calls that change what they hold.
LEMMA CallType ==
  ASSUME PeopleTypeOK, NEW r \in Call, NEW c \in Held,
         call' = [call EXCEPT ![r] = c]
  PROVE  call' \in [Call -> Held]
BY DEF PeopleTypeOK, Held

\* An invitation is to somebody once it has been made.
InvitesName == \A i \in Invite : invite[i].state # "none" => invite[i].email \in Person

\* Whose status a call has written was a member when it wrote.
WritesMembers == \A r \in Call : IsWriter(call[r]) =>
  \A p \in DOMAIN call[r].statuses : member[p].status # "none"

\* An invitation that is being accepted is still pending.
HeldInvites == \A r \in Call :
  call[r].step = "accepting" => invite[call[r].invite].state = "pending"

\* And nobody else is accepting it.
HeldOnce == \A r, q \in Call :
  call[r].step = "accepting" /\ call[q].step = "accepting"
    /\ call[r].invite = call[q].invite => r = q

\* Until two calls have been counted at once, only one that has been counted
\* has yet to commit, and it leaves an owner.
CountedOnce == raced \/
  /\ Owners(member) # {}
  /\ \A r \in Call : call[r].step = "checked" =>
       Owners(After(r)) # {} /\ \A q \in Call : call[q].step = "checked" => q = r

\* A pending offer is from somebody to somebody.
OfferNames == transfer # NoTransfer => transfer.from \in Person /\ transfer.to \in Person

PeopleInv ==
  PeopleTypeOK /\ InvitesName /\ OfferNames /\ WritesMembers /\ HeldInvites /\ HeldOnce /\ CountedOnce

-----------------------------------------------------------------------------
(* People: what a handler writes *)

\* The rows of a call are the same rows however the fields are ordered.
LEMMA WritingType ==
  ASSUME NEW f \in PartialTo(Role), NEW g \in PartialTo(Status), NEW b \in BOOLEAN
  PROVE  [step |-> "written", roles |-> f, statuses |-> g, settles |-> b] \in Held
BY DEF Held, Writing

\* What an update may carry for one person.
LEMMA UpdateType ==
  ASSUME NEW p \in Person, NEW S, NEW f \in {NoWrites} \cup [{p} -> S]
  PROVE  f \in PartialTo(S) /\ DOMAIN f \subseteq {p}
<1>1. CASE f = NoWrites
  BY <1>1, PartialFacts
<1>2. CASE f \in [{p} -> S]
  BY <1>2, PartialFacts
<1> QED
  BY <1>1, <1>2

\* The two roles a transfer swaps.
Swap(from, to) == [p \in {from, to} |-> IF p = from THEN "admin" ELSE "owner"]

LEMMA SwapType ==
  ASSUME NEW from \in Person, NEW to \in Person
  PROVE  Swap(from, to) \in PartialTo(Role)
<1>1. Swap(from, to) \in [{from, to} -> Role]
  BY DEF Swap, Role
<1> QED
  BY <1>1, PartialFacts

-----------------------------------------------------------------------------
(* People: steps that leave the memberships alone *)

\* What a call that is counted would leave behind is what it would have left
\* if neither it nor a membership changes.
LEMMA AfterStays ==
  ASSUME NEW r \in Call, member' = member, call'[r] = call[r]
  PROVE  After(r)' = After(r)
BY DEF After

\* The memberships and the history rest, no call comes to be counted, and no
\* invitation passes to or from a call: what the writers have is kept.
LEMMA MembersRest ==
  ASSUME PeopleInv, UNCHANGED <<member, raced>>,
         \A q \in Call : call'[q].step = "checked" => call'[q] = call[q],
         \A q \in Call : call'[q].step = "written" /\ call'[q] # call[q] =>
           \A p \in DOMAIN call'[q].statuses : member[p].status # "none"
  PROVE  WritesMembers' /\ CountedOnce'
<1>1. WritesMembers'
  BY DEF PeopleInv, WritesMembers, IsWriter
<1>2. CASE raced
  BY <1>1, <1>2 DEF CountedOnce
<1>3. CASE ~raced
  <2>1. Owners(member)' # {}
    BY <1>3 DEF PeopleInv, CountedOnce, Owners
  <2>2. ASSUME NEW r \in Call, call'[r].step = "checked"
        PROVE  Owners(After(r))' # {} /\ \A q \in Call : call'[q].step = "checked" => q = r
    <3>1. call'[r] = call[r]
      BY <2>2
    <3>2. After(r)' = After(r)
      BY <3>1, AfterStays
    <3>3. Owners(After(r)) # {}
      BY <1>3, <2>2, <3>1 DEF PeopleInv, CountedOnce
    <3>4. \A q \in Call : call'[q].step = "checked" => q = r
      BY <1>3, <2>2, <3>1 DEF PeopleInv, CountedOnce
    <3> QED
      BY <3>2, <3>3, <3>4 DEF Owners
  <2> QED
    BY <1>1, <1>3, <2>1, <2>2 DEF CountedOnce
<1> QED
  BY <1>2, <1>3

\* One call goes over to what it holds next, and the memberships, the
\* invitations and the history rest.
LEMMA CallStep ==
  ASSUME PeopleInv, NEW r \in Call, NEW c \in Held,
         call' = [call EXCEPT ![r] = c],
         c.step \notin {"checked", "accepting"},
         c.step = "written" => \A p \in DOMAIN c.statuses : member[p].status # "none",
         UNCHANGED <<member, invite, raced>>,
         served' \in 0..MaxServed, transfer' \in Transfer, OfferNames'
  PROVE  PeopleInv'
<1>1. call' \in [Call -> Held]
  BY CallType DEF PeopleInv
<1>2. PeopleTypeOK'
  BY <1>1 DEF PeopleInv, PeopleTypeOK, Held
<1>3. call'[r] = c /\ \A q \in Call : q # r => call'[q] = call[q]
  BY DEF PeopleInv, PeopleTypeOK
<1>4. WritesMembers' /\ CountedOnce'
  BY <1>3, MembersRest
<1>5. InvitesName' /\ HeldInvites' /\ HeldOnce'
  BY <1>3 DEF PeopleInv, InvitesName, HeldInvites, HeldOnce
<1> QED
  BY <1>2, <1>4, <1>5 DEF PeopleInv

\* No call changes, and the memberships and the history rest.
LEMMA NoCallStep ==
  ASSUME PeopleInv, UNCHANGED <<member, call, raced, served>>,
         transfer' \in Transfer, OfferNames',
         invite' \in [Invite -> InviteRow], InvitesName', HeldInvites'
  PROVE  PeopleInv'
<1>1. PeopleTypeOK'
  BY DEF PeopleInv, PeopleTypeOK
<1>2. WritesMembers' /\ CountedOnce'
  BY MembersRest
<1>3. HeldOnce'
  BY DEF PeopleInv, HeldOnce
<1> QED
  BY <1>1, <1>2, <1>3 DEF PeopleInv

-----------------------------------------------------------------------------
(* People: the handlers *)

\* Before the actions: what a call in a given step holds, and that one more may
\* have been served.
LEMMA CallOf ==
  ASSUME PeopleInv, NEW r \in Call
  PROVE  /\ call[r] \in Held /\ NoCall \in Held
         /\ call[r].step = "authorised" => call[r] \in Authorised
         /\ IsWriter(call[r]) => call[r] \in Writing
         /\ call[r].step = "inviting" => call[r] \in Inviting
         /\ call[r].step = "accepting" => call[r] \in Accepting
<1>1. call[r] \in Held /\ NoCall \in Held
  BY DEF PeopleInv, PeopleTypeOK, Held
<1> QED
  BY <1>1, CallFacts

LEMMA Served ==
  ASSUME PeopleAssumption, PeopleInv, NEW r \in Call, BeginCall(r)
  PROVE  served' \in 0..MaxServed
BY DEF PeopleAssumption, PeopleInv, PeopleTypeOK, BeginCall

LEMMA StepAuthorise ==
  ASSUME PeopleAssumption, PeopleInv, NEW r \in Call, NEW p \in Person, Authorise(r, p)
  PROVE  PeopleInv'
<1>1. PICK c \in Held : /\ call' = [call EXCEPT ![r] = c]
                        /\ c.step = "authorised"
  <2>1. member[p].role \in Role
    BY DEF PeopleInv, PeopleTypeOK, Membership
  <2>2. [step |-> "authorised", by |-> p, seen |-> member[p].role] \in Held
    BY <2>1 DEF Held, Authorised
  <2> QED
    BY <2>2 DEF Authorise
<1>2. served' \in 0..MaxServed
  BY Served DEF Authorise
<1>3. transfer' \in Transfer /\ OfferNames'
  BY DEF PeopleInv, PeopleTypeOK, OfferNames, Authorise
<1> QED
  BY <1>1, <1>2, <1>3, CallStep DEF Authorise

LEMMA StepUpdate ==
  ASSUME PeopleAssumption, PeopleInv, NEW r \in Call, NEW p \in Person,
         NEW roles \in {NoWrites} \cup [{p} -> Role],
         NEW statuses \in {NoWrites} \cup [{p} -> Status],
         UpdateMember(r, p, roles, statuses)
  PROVE  PeopleInv'
<1>1. /\ roles \in PartialTo(Role)
      /\ statuses \in PartialTo(Status) /\ DOMAIN statuses \subseteq {p}
  BY UpdateType
<1>2. PICK c \in Held : /\ call' = [call EXCEPT ![r] = c]
                        /\ c.step = "written" /\ c.statuses = statuses
  BY <1>1, WritingType DEF UpdateMember
<1>3. \A q \in DOMAIN c.statuses : member[q].status # "none"
  BY <1>1, <1>2 DEF UpdateMember
<1>4. transfer' \in Transfer /\ OfferNames' /\ served' \in 0..MaxServed
  BY DEF PeopleInv, PeopleTypeOK, OfferNames, UpdateMember
<1> QED
  BY <1>2, <1>3, <1>4, CallStep DEF UpdateMember

LEMMA StepOffer ==
  ASSUME PeopleAssumption, PeopleInv, NEW r \in Call, NEW p \in Person, Offer(r, p)
  PROVE  PeopleInv'
<1>1. call[r].by \in Person
  BY CallOf DEF Offer, Authorised
<1>2. transfer' \in Transfer /\ OfferNames'
  BY <1>1 DEF Offer, Transfer, OfferNames
<1>3. served' \in 0..MaxServed
  BY DEF PeopleInv, PeopleTypeOK, Offer
<1>4. NoCall \in Held /\ NoCall.step = "idle"
  BY DEF Held, NoCall
<1> QED
  BY <1>2, <1>3, <1>4, CallStep DEF Offer

LEMMA StepAcceptOffer ==
  ASSUME PeopleAssumption, PeopleInv, NEW r \in Call, AcceptOffer(r)
  PROVE  PeopleInv'
<1>1. Swap(transfer.from, transfer.to) \in PartialTo(Role)
  BY SwapType DEF PeopleInv, OfferNames, AcceptOffer
<1>2. PICK c \in Held : /\ call' = [call EXCEPT ![r] = c]
                        /\ c.step = "written" /\ c.statuses = NoWrites
  <2>1. call' = [call EXCEPT ![r] = [step |-> "written",
          roles |-> Swap(transfer.from, transfer.to), statuses |-> NoWrites, settles |-> TRUE]]
    BY DEF AcceptOffer, Swap
  <2>2. [step |-> "written", roles |-> Swap(transfer.from, transfer.to),
         statuses |-> NoWrites, settles |-> TRUE] \in Held
    BY <1>1, WritingType, PartialFacts
  <2> QED
    BY <2>1, <2>2
<1>3. transfer' \in Transfer /\ OfferNames'
  BY DEF PeopleInv, PeopleTypeOK, OfferNames, AcceptOffer
<1>4. served' \in 0..MaxServed
  BY Served DEF AcceptOffer
<1>5. DOMAIN NoWrites = {}
  BY PartialFacts
<1> QED
  BY <1>2, <1>3, <1>4, <1>5, CallStep DEF AcceptOffer

LEMMA StepAbort ==
  ASSUME PeopleAssumption, PeopleInv, NEW r \in Call, RollBack(r)
  PROVE  PeopleInv'
<1>1. NoCall \in Held /\ NoCall.step = "idle"
  BY DEF Held, NoCall
<1>2. transfer' \in Transfer /\ OfferNames' /\ served' \in 0..MaxServed
  BY DEF PeopleInv, PeopleTypeOK, OfferNames, RollBack
<1> QED
  BY <1>1, <1>2, CallStep DEF RollBack

LEMMA StepInvitable ==
  ASSUME PeopleAssumption, PeopleInv, NEW r \in Call, NEW p \in Person,
         NEW role \in Role, Invitable(r, p, role)
  PROVE  PeopleInv'
<1>1. PICK c \in Held : /\ call' = [call EXCEPT ![r] = c] /\ c.step = "inviting"
  <2>1. [step |-> "inviting", email |-> p, role |-> role] \in Held
    BY DEF Held, Inviting
  <2> QED
    BY <2>1 DEF Invitable
<1>2. transfer' \in Transfer /\ OfferNames' /\ served' \in 0..MaxServed
  BY DEF PeopleInv, PeopleTypeOK, OfferNames, Invitable
<1> QED
  BY <1>1, <1>2, CallStep DEF Invitable

-----------------------------------------------------------------------------
(* People: the check, the COMMIT and what joins *)

LEMMA StepCheck ==
  ASSUME PeopleAssumption, PeopleInv, NEW r \in Call, Check(r)
  PROVE  PeopleInv'
<1>1. IsWriter(call[r]) /\ call[r] \in Writing
  BY CallOf DEF Check, IsWriter
<1>2. CASE Owners(After(r)) = {}
  <2>1. call' = [call EXCEPT ![r] = NoCall] /\ raced' = raced
    BY <1>2 DEF Check
  <2>2. NoCall \in Held /\ NoCall.step = "idle"
    BY DEF Held, NoCall
  <2>3. transfer' \in Transfer /\ OfferNames' /\ served' \in 0..MaxServed
    BY DEF PeopleInv, PeopleTypeOK, OfferNames, Check
  <2> QED
    BY <2>1, <2>2, <2>3, CallStep DEF Check
<1>3. CASE Owners(After(r)) # {}
  <2>1. /\ call' = [call EXCEPT ![r].step = "checked"]
        /\ raced' = (raced \/ \E q \in Call : call[q].step = "checked")
        /\ UNCHANGED <<member, invite, transfer, served>>
    BY <1>3 DEF Check
  <2>2. /\ call'[r] = [call[r] EXCEPT !.step = "checked"]
        /\ \A q \in Call : q # r => call'[q] = call[q]
    BY <2>1 DEF PeopleInv, PeopleTypeOK
  <2>3. /\ call'[r].roles = call[r].roles /\ call'[r].statuses = call[r].statuses
        /\ call'[r].step = "checked" /\ call'[r] \in Held
    BY <1>1, <2>2 DEF Writing, Held
  <2>4. PeopleTypeOK'
    <3>1. call' \in [Call -> Held]
      BY <2>1, <2>2, <2>3, CallType DEF PeopleInv
    <3>2. raced' \in BOOLEAN
      BY <2>1 DEF PeopleInv, PeopleTypeOK
    <3> QED
      BY <2>1, <3>1, <3>2 DEF PeopleInv, PeopleTypeOK, Held
  <2>5. WritesMembers'
    BY <1>1, <2>1, <2>2, <2>3 DEF PeopleInv, WritesMembers, IsWriter
  <2>6. InvitesName' /\ OfferNames' /\ HeldInvites' /\ HeldOnce'
    BY <2>1, <2>2, <2>3 DEF PeopleInv, InvitesName, OfferNames, HeldInvites, HeldOnce
  <2>7. CountedOnce'
    <3>1. CASE raced'
      BY <3>1 DEF CountedOnce
    <3>2. CASE ~raced'
      <4>1. ~raced /\ \A q \in Call : call[q].step # "checked"
        BY <2>1, <3>2
      <4>2. \A q \in Call : call'[q].step = "checked" => q = r
        BY <2>2, <4>1
      <4>3. Owners(member)' # {}
        BY <2>1, <4>1 DEF PeopleInv, CountedOnce, Owners
      <4>4. After(r)' = After(r)
        BY <2>1, <2>3 DEF After
      <4>5. Owners(After(r))' # {}
        BY <1>3, <4>4 DEF Owners
      <4> QED
        BY <4>2, <4>3, <4>5 DEF CountedOnce
    <3> QED
      BY <3>1, <3>2
  <2> QED
    BY <2>4, <2>5, <2>6, <2>7 DEF PeopleInv
<1> QED
  BY <1>2, <1>3

\* Once a member, always a row.
StaysMember == \A p \in Person : member[p].status # "none" => member'[p].status # "none"

LEMMA StepCommit ==
  ASSUME PeopleAssumption, PeopleInv, NEW r \in Call, CommitRows(r)
  PROVE  /\ PeopleInv'
         /\ \A p \in Person : member[p].status = "none" => member'[p].status = "none"
<1>1. IsWriter(call[r]) /\ call[r] \in Writing /\ After(r) \in [Person -> Membership]
  BY AfterType DEF CommitRows, IsWriter, PeopleInv
<1>2. /\ member' = After(r) /\ UNCHANGED <<invite, raced, served>>
      /\ call' = [call EXCEPT ![r] = NoCall]
      /\ transfer' = transfer \/ transfer' = NoTransfer
  BY DEF CommitRows
<1>3. /\ call'[r] = NoCall /\ \A q \in Call : q # r => call'[q] = call[q]
  BY <1>2 DEF PeopleInv, PeopleTypeOK
<1>4. NoCall \in Held /\ NoCall.step = "idle" /\ NoTransfer \in Transfer
  BY DEF Held, NoCall, NoTransfer, Transfer
<1>5. PeopleTypeOK'
  <2>1. call' \in [Call -> Held]
    BY <1>2, <1>4, CallType DEF PeopleInv
  <2> QED
    BY <1>1, <1>2, <1>4, <2>1 DEF PeopleInv, PeopleTypeOK, Held
<1>6. /\ \A p \in Person : member[p].status = "none" => member'[p].status = "none"
      /\ StaysMember
  <2>1. \A p \in DOMAIN call[r].statuses :
          call[r].statuses[p] \in Status /\ member[p].status # "none"
    BY <1>1, PartialFacts DEF Writing, PeopleInv, WritesMembers
  <2>2. "none" \notin Status
    BY DEF Status
  <2> QED
    BY <1>2, <2>1, <2>2 DEF After, StaysMember
<1>7. WritesMembers'
  <2> SUFFICES ASSUME NEW q \in Call, IsWriter(call'[q]),
                      NEW p \in DOMAIN call'[q].statuses
               PROVE  member'[p].status # "none"
    BY DEF WritesMembers
  <2>1. call'[q] = call[q]
    BY <1>3, <1>4 DEF IsWriter
  <2>2. p \in Person
    BY <2>1, CallOf, PartialFacts DEF Writing
  <2> QED
    BY <1>6, <2>1, <2>2 DEF PeopleInv, WritesMembers, StaysMember
<1>8. InvitesName' /\ OfferNames' /\ HeldInvites' /\ HeldOnce'
  BY <1>2, <1>3, <1>4 DEF PeopleInv, InvitesName, OfferNames, HeldInvites, HeldOnce
<1>9. CountedOnce'
  <2>1. CASE raced
    BY <1>2, <2>1 DEF CountedOnce
  <2>2. CASE ~raced
    <3>1. Owners(After(r)) # {} /\ \A q \in Call : call[q].step = "checked" => q = r
      BY <2>2 DEF PeopleInv, CountedOnce, CommitRows
    <3>2. \A q \in Call : call'[q].step # "checked"
      BY <1>3, <1>4, <3>1
    <3>3. Owners(member)' # {}
      BY <1>2, <3>1 DEF Owners
    <3> QED
      BY <3>2, <3>3 DEF CountedOnce
  <2> QED
    BY <2>1, <2>2
<1> QED
  BY <1>5, <1>6, <1>7, <1>8, <1>9 DEF PeopleInv

\* Someone joins by the invitation the call holds, and by nothing else.
LEMMA StepJoin ==
  ASSUME PeopleAssumption, PeopleInv, NEW r \in Call, Join(r)
  PROVE  /\ PeopleInv'
         /\ \A p \in Person : member[p].status = "none" /\ member'[p].status # "none" =>
              \E i \in Invite :
                /\ invite[i] = [state |-> "pending", email |-> p, role |-> member'[p].role]
                /\ invite'[i].state = "accepted"
<1>1. PICK i \in Invite : i = call[r].invite
  BY CallOf DEF Join, Accepting
<1>2. PICK p : p = invite[i].email
  OBVIOUS
<1>3. /\ call[r].step = "accepting" /\ call[r].invite = i
      /\ invite[i].state = "pending" /\ invite[i] \in InviteRow /\ p \in Person
  BY <1>1, <1>2 DEF Join, PeopleInv, PeopleTypeOK, HeldInvites, InvitesName
<1>4. /\ member[p].status = "none"
      /\ member' = [member EXCEPT ![p] = [status |-> "active", role |-> invite[i].role]]
      /\ invite' = [invite EXCEPT ![i].state = "accepted"]
      /\ call' = [call EXCEPT ![r] = NoCall]
      /\ UNCHANGED <<transfer, raced, served>>
  BY <1>1, <1>2 DEF Join
<1>5. /\ member'[p] = [status |-> "active", role |-> invite[i].role]
      /\ \A o \in Person : o # p => member'[o] = member[o]
      /\ member' \in [Person -> Membership]
  BY <1>3, <1>4 DEF PeopleInv, PeopleTypeOK, Membership, InviteRow, Status
<1>6. /\ invite'[i] = [invite[i] EXCEPT !.state = "accepted"]
      /\ \A j \in Invite : j # i => invite'[j] = invite[j]
  BY <1>4 DEF PeopleInv, PeopleTypeOK
<1>7. /\ call'[r] = NoCall /\ NoCall.step = "idle"
      /\ \A q \in Call : q # r => call'[q] = call[q]
  BY <1>4 DEF PeopleInv, PeopleTypeOK, NoCall
<1>8. PeopleTypeOK'
  <2>1. call' \in [Call -> Held]
    BY <1>4, CallOf, CallType DEF PeopleInv
  <2>2. invite'[i] \in InviteRow
    BY <1>3, <1>6 DEF InviteRow
  <2>3. invite' \in [Invite -> InviteRow]
    BY <1>4, <1>6, <2>2 DEF PeopleInv, PeopleTypeOK
  <2> QED
    BY <1>4, <1>5, <2>1, <2>3 DEF PeopleInv, PeopleTypeOK, Held
<1>9. WritesMembers'
  <2> SUFFICES ASSUME NEW q \in Call, IsWriter(call'[q]),
                      NEW o \in DOMAIN call'[q].statuses
               PROVE  member'[o].status # "none"
    BY DEF WritesMembers
  <2>1. call'[q] = call[q]
    BY <1>7 DEF IsWriter
  <2>2. o \in Person /\ member[o].status # "none"
    BY <2>1, CallOf, PartialFacts DEF Writing, PeopleInv, WritesMembers
  <2> QED
    BY <1>5, <2>2
<1>10. HeldInvites'
  <2> SUFFICES ASSUME NEW q \in Call, call'[q].step = "accepting"
               PROVE  invite'[call'[q].invite].state = "pending"
    BY DEF HeldInvites
  <2>1. q # r /\ call'[q] = call[q]
    BY <1>7
  <2>2. call[q].invite \in Invite /\ call[q].invite # i
    BY <1>3, <2>1, CallOf DEF Accepting, PeopleInv, HeldOnce
  <2> QED
    BY <1>6, <2>1, <2>2 DEF PeopleInv, HeldInvites
<1>11. InvitesName' /\ OfferNames' /\ HeldOnce'
  <2>1. \A j \in Invite : invite'[j].email = invite[j].email
    BY <1>3, <1>6 DEF InviteRow
  <2>2. \A j \in Invite : invite[j].state # "none" => invite[j].email \in Person
    BY DEF PeopleInv, InvitesName
  <2>3. \A j \in Invite : invite'[j].state # "none" => invite'[j].email \in Person
    BY <1>3, <1>6, <2>1, <2>2
  <2>4. InvitesName'
    BY <2>3 DEF InvitesName
  <2> QED
    BY <1>4, <1>7, <2>4 DEF PeopleInv, OfferNames, HeldOnce
<1>12. CountedOnce'
  <2>1. CASE raced
    BY <1>4, <2>1 DEF CountedOnce
  <2>2. CASE ~raced
    <3>1. \A o \in Owners(member) : o # p /\ o \in Owners(member')
      BY <1>4, <1>5 DEF Owners
    <3>2. Owners(member') # {}
      BY <2>2, <3>1 DEF PeopleInv, CountedOnce
    <3>3. ASSUME NEW q \in Call, call'[q].step = "checked"
          PROVE  Owners(After(q)') # {} /\ \A o \in Call : call'[o].step = "checked" => o = q
      <4>1. call'[q] = call[q]
        BY <1>7, <3>3
      <4>2. PICK o \in Owners(After(q)) : TRUE
        BY <2>2, <3>3, <4>1 DEF PeopleInv, CountedOnce
      <4>3. o # p
        <5>1. After(q)[p].status = "none"
          BY <1>3, <1>4, <3>3, <4>1, AfterType DEF IsWriter, PeopleInv, WritesMembers
        <5> QED
          BY <5>1 DEF Owners
      <4>4. o \in Person /\ After(q)'[o] = After(q)[o]
        BY <1>5, <4>1, <4>2, <4>3 DEF After, Owners
      <4>5. o \in Owners(After(q)')
        BY <4>2, <4>4 DEF Owners
      <4> QED
        BY <1>7, <2>2, <3>3, <4>1, <4>5 DEF PeopleInv, CountedOnce
    <3> QED
      BY <3>2, <3>3 DEF CountedOnce, Owners
  <2> QED
    BY <2>1, <2>2
<1>13. \A o \in Person : member[o].status = "none" /\ member'[o].status # "none" =>
         \E j \in Invite :
           /\ invite[j] = [state |-> "pending", email |-> o, role |-> member'[o].role]
           /\ invite'[j].state = "accepted"
  <2>1. invite[i] = [state |-> "pending", email |-> p, role |-> member'[p].role]
    BY <1>2, <1>3, <1>5 DEF InviteRow
  <2>2. invite'[i].state = "accepted"
    BY <1>3, <1>6 DEF InviteRow
  <2> QED
    BY <1>5, <2>1, <2>2
<1> QED
  BY <1>8, <1>9, <1>10, <1>11, <1>12, <1>13 DEF PeopleInv

\* Steps of the invitations that no call holds.
LEMMA StepInvites ==
  ASSUME PeopleAssumption, PeopleInv,
         \/ \E i \in Invite : InviteExpires(i)
         \/ \E r \in Call, i \in Invite : RevokeInvite(r, i)
  PROVE  PeopleInv'
<1>1. PICK i \in Invite, over \in {"expired", "revoked"} :
        /\ invite[i].state = "pending" /\ ~InviteLocked(i)
        /\ invite' = [invite EXCEPT ![i].state = over]
        /\ UNCHANGED <<member, transfer, raced, served>>
        /\ \/ call' = call
           \/ \E r \in Call : call' = [call EXCEPT ![r] = NoCall]
  BY DEF InviteExpires, RevokeInvite
<1>2. /\ invite[i] \in InviteRow /\ invite'[i] = [invite[i] EXCEPT !.state = over]
      /\ \A j \in Invite : j # i => invite'[j] = invite[j]
  BY <1>1 DEF PeopleInv, PeopleTypeOK
<1>3. \A q \in Call : call'[q] = call[q] \/ call'[q] = NoCall
  BY <1>1 DEF PeopleInv, PeopleTypeOK
<1>4. NoCall.step = "idle" /\ NoCall \in Held
  BY DEF NoCall, Held
<1>5. call' \in [Call -> Held]
  BY <1>1, <1>4, CallType DEF PeopleInv, PeopleTypeOK, Held
<1>6. invite' \in [Invite -> InviteRow]
  <2>1. invite'[i] \in InviteRow
    BY <1>2 DEF InviteRow
  <2> QED
    BY <1>1, <1>2, <2>1 DEF PeopleInv, PeopleTypeOK
<1>7. PeopleTypeOK'
  BY <1>1, <1>5, <1>6 DEF PeopleInv, PeopleTypeOK, Held
<1>8. WritesMembers' /\ CountedOnce'
  BY <1>1, <1>3, <1>4, MembersRest
<1>9. HeldInvites' /\ HeldOnce'
  <2>1. \A q \in Call : call'[q].step = "accepting" =>
          call'[q] = call[q] /\ call[q].invite # i /\ call[q].invite \in Invite
    BY <1>1, <1>3, <1>4, CallOf DEF InviteLocked, Accepting
  <2> QED
    BY <1>2, <2>1 DEF PeopleInv, HeldInvites, HeldOnce
<1>10. InvitesName' /\ OfferNames'
  <2>1. invite'[i].email \in Person
    BY <1>1, <1>2 DEF InviteRow, PeopleInv, InvitesName
  <2> QED
    BY <1>1, <1>2, <2>1 DEF PeopleInv, InvitesName, OfferNames
<1> QED
  BY <1>7, <1>8, <1>9, <1>10 DEF PeopleInv

\* A new invitation, and the end of the one before it.
LEMMA StepCreate ==
  ASSUME PeopleAssumption, PeopleInv, NEW r \in Call, NEW i \in Invite, CreateInvite(r, i)
  PROVE  PeopleInv'
<1>1. call[r] \in Inviting /\ call[r].email \in Person /\ call[r].role \in Role
  BY CallOf DEF CreateInvite, Inviting
<1>2. PICK p \in Person : p = call[r].email
  BY <1>1
<1>3. /\ \A j \in Invite : invite'[j] =
           IF j = i THEN [state |-> "pending", email |-> p, role |-> call[r].role]
           ELSE IF j \in PendingFor(p) THEN [invite[j] EXCEPT !.state = "revoked"]
           ELSE invite[j]
      /\ invite' = [j \in Invite |-> invite'[j]]
      /\ invite[i].state = "none" /\ \A j \in PendingFor(p) : ~InviteLocked(j)
      /\ call' = [call EXCEPT ![r] = NoCall]
      /\ UNCHANGED <<member, transfer, raced, served>>
  BY <1>2 DEF CreateInvite
<1>4. /\ call'[r] = NoCall /\ NoCall.step = "idle" /\ NoCall \in Held
      /\ \A q \in Call : q # r => call'[q] = call[q]
  BY <1>3 DEF PeopleInv, PeopleTypeOK, NoCall, Held
<1>5. \A j \in Invite : invite'[j] \in InviteRow
  BY <1>1, <1>3 DEF PeopleInv, PeopleTypeOK, InviteRow
<1>6. PeopleTypeOK'
  <2>1. call' \in [Call -> Held]
    BY <1>3, <1>4, CallType DEF PeopleInv
  <2>2. invite' \in [Invite -> InviteRow]
    BY <1>3, <1>5
  <2> QED
    BY <1>3, <2>1, <2>2 DEF PeopleInv, PeopleTypeOK, Held
<1>7. WritesMembers' /\ CountedOnce'
  BY <1>3, <1>4, MembersRest
<1>8. HeldInvites' /\ HeldOnce'
  <2>1. ASSUME NEW q \in Call, call'[q].step = "accepting"
        PROVE  /\ call'[q] = call[q]
               /\ invite'[call[q].invite].state = "pending"
    <3>1. call'[q] = call[q] /\ call[q].invite \in Invite
      BY <1>4, <2>1, CallOf DEF Accepting
    <3>2. invite[call[q].invite].state = "pending"
      BY <2>1, <3>1 DEF PeopleInv, HeldInvites
    <3>3. call[q].invite \notin PendingFor(p)
      BY <1>3, <2>1, <3>1 DEF InviteLocked, PendingFor
    <3> QED
      BY <1>3, <3>1, <3>2, <3>3
  <2> QED
    BY <2>1 DEF PeopleInv, HeldInvites, HeldOnce
<1>9. InvitesName' /\ OfferNames'
  <2>1. \A j \in Invite : invite'[j].state # "none" => invite'[j].email \in Person
    BY <1>3 DEF PeopleInv, PeopleTypeOK, InviteRow, InvitesName, PendingFor
  <2> QED
    BY <1>3, <2>1 DEF PeopleInv, InvitesName, OfferNames
<1> QED
  BY <1>6, <1>7, <1>8, <1>9 DEF PeopleInv

\* An invitation is taken up by one call at a time, while it is pending.
LEMMA StepResolve ==
  ASSUME PeopleAssumption, PeopleInv, NEW r \in Call, NEW i \in Invite, Resolve(r, i)
  PROVE  PeopleInv'
<1>1. PICK c \in Held : /\ call' = [call EXCEPT ![r] = c]
                        /\ c.step = "accepting" /\ c.invite = i
  <2>1. [step |-> "accepting", invite |-> i] \in Held
    BY DEF Held, Accepting
  <2> QED
    BY <2>1 DEF Resolve
<1>2. /\ call'[r] = c /\ \A q \in Call : q # r => call'[q] = call[q]
      /\ UNCHANGED <<member, invite, transfer, raced>>
      /\ invite[i].state = "pending" /\ ~InviteLocked(i)
  BY <1>1 DEF PeopleInv, PeopleTypeOK, Resolve
<1>3. PeopleTypeOK'
  <2>1. call' \in [Call -> Held]
    BY <1>1, CallType DEF PeopleInv
  <2>2. served' \in 0..MaxServed
    BY Served DEF Resolve
  <2> QED
    BY <1>2, <2>1, <2>2 DEF PeopleInv, PeopleTypeOK, Held
<1>4. WritesMembers' /\ CountedOnce'
  BY <1>1, <1>2, MembersRest
<1>5. HeldInvites' /\ HeldOnce'
  <2>1. \A q \in Call : q # r /\ call'[q].step = "accepting" => call'[q].invite # i
    BY <1>2 DEF InviteLocked
  <2> QED
    BY <1>1, <1>2, <2>1 DEF PeopleInv, HeldInvites, HeldOnce
<1>6. InvitesName' /\ OfferNames'
  BY <1>2 DEF PeopleInv, InvitesName, OfferNames
<1> QED
  BY <1>3, <1>4, <1>5, <1>6 DEF PeopleInv

\* Offers that nobody settles.
LEMMA StepOffersEnd ==
  ASSUME PeopleAssumption, PeopleInv, OfferExpires \/ DropOffer
  PROVE  PeopleInv'
<1>1. transfer' \in Transfer /\ OfferNames'
  <2>1. CASE OfferExpires
    BY <2>1 DEF OfferExpires, PeopleInv, PeopleTypeOK, Transfer, OfferNames
  <2>2. CASE DropOffer
    BY <2>2 DEF DropOffer, NoTransfer, Transfer, OfferNames
  <2> QED
    BY <2>1, <2>2
<1>2. UNCHANGED <<member, invite, call, raced, served>>
  BY DEF OfferExpires, DropOffer
<1>3. invite' \in [Invite -> InviteRow] /\ InvitesName' /\ HeldInvites'
  BY <1>2 DEF PeopleInv, PeopleTypeOK, InvitesName, HeldInvites
<1> QED
  BY <1>1, <1>2, <1>3, NoCallStep

-----------------------------------------------------------------------------
(* People: the theorems *)

\* The door of the invitation, as a step.
JoinsStep == \A p \in Person : member[p].status = "none" /\ member'[p].status # "none" =>
  \E i \in Invite :
    /\ invite[i] = [state |-> "pending", email |-> p, role |-> member'[p].role]
    /\ invite'[i].state = "accepted"

LEMMA PeopleNextOK ==
  ASSUME PeopleAssumption, PeopleInv, [PeopleNext]_peopleVars
  PROVE  PeopleInv' /\ JoinsStep
<1>1. CASE UNCHANGED peopleVars
  <2>1. PeopleTypeOK' /\ InvitesName' /\ OfferNames' /\ HeldInvites' /\ HeldOnce'
    BY <1>1 DEF peopleVars, PeopleInv, PeopleTypeOK, InvitesName, OfferNames, HeldInvites, HeldOnce
  <2>2. WritesMembers' /\ CountedOnce'
    BY <1>1, MembersRest DEF peopleVars
  <2> QED
    BY <1>1, <2>1, <2>2 DEF peopleVars, PeopleInv, JoinsStep
<1>2. CASE OfferExpires \/ DropOffer
  BY <1>2, StepOffersEnd DEF OfferExpires, DropOffer, JoinsStep
<1>3. CASE \E i \in Invite : InviteExpires(i)
  BY <1>3, StepInvites DEF InviteExpires, JoinsStep
<1>4. ASSUME NEW r \in Call, NEW p \in Person,
             \/ Authorise(r, p)
             \/ Offer(r, p)
             \/ \E role \in Role : Invitable(r, p, role)
      PROVE  PeopleInv' /\ JoinsStep
  <2>1. PeopleInv'
    BY <1>4, StepAuthorise, StepOffer, StepInvitable
  <2>2. member' = member
    BY <1>4 DEF Authorise, Offer, Invitable
  <2> QED
    BY <2>1, <2>2 DEF JoinsStep
<1>5. ASSUME NEW r \in Call, NEW p \in Person,
             NEW roles \in {NoWrites} \cup [{p} -> Role],
             NEW statuses \in {NoWrites} \cup [{p} -> Status],
             UpdateMember(r, p, roles, statuses)
      PROVE  PeopleInv' /\ JoinsStep
  BY <1>5, StepUpdate DEF UpdateMember, JoinsStep
<1>6. ASSUME NEW r \in Call, NEW i \in Invite,
             CreateInvite(r, i) \/ RevokeInvite(r, i) \/ Resolve(r, i)
      PROVE  PeopleInv' /\ JoinsStep
  <2>1. PeopleInv'
    BY <1>6, StepCreate, StepInvites, StepResolve
  <2>2. member' = member
    BY <1>6 DEF CreateInvite, RevokeInvite, Resolve
  <2> QED
    BY <2>1, <2>2 DEF JoinsStep
<1>7. ASSUME NEW r \in Call, Join(r)
      PROVE  PeopleInv' /\ JoinsStep
  BY <1>7, StepJoin DEF JoinsStep
<1>8. ASSUME NEW r \in Call, CommitRows(r)
      PROVE  PeopleInv' /\ JoinsStep
  BY <1>8, StepCommit DEF JoinsStep
<1>9. ASSUME NEW r \in Call, AcceptOffer(r) \/ Check(r) \/ RollBack(r)
      PROVE  PeopleInv' /\ JoinsStep
  <2>1. PeopleInv'
    BY <1>9, StepAcceptOffer, StepCheck, StepAbort
  <2>2. member' = member
    BY <1>9 DEF AcceptOffer, Check, RollBack
  <2> QED
    BY <2>1, <2>2 DEF JoinsStep
<1> QED
  BY <1>1, <1>2, <1>3, <1>4, <1>5, <1>6, <1>7, <1>8, <1>9 DEF PeopleNext

LEMMA PeopleInitOK ==
  ASSUME PeopleAssumption, PeopleInit
  PROVE  PeopleInv
<1>1. member \in [Person -> Membership]
  BY DEF PeopleInit, Membership, Status, Role
<1>2. invite \in [Invite -> InviteRow]
  BY DEF PeopleInit, InviteRow, Role
<1>3. transfer = NoTransfer /\ NoTransfer \in Transfer
  BY DEF PeopleInit, NoTransfer, Transfer
<1>4. call \in [Call -> Held] /\ \A r \in Call : call[r].step = "idle"
  BY DEF PeopleInit, NoCall, Held
<1>5. raced = FALSE /\ served \in 0..MaxServed
  BY SMT DEF PeopleInit, PeopleAssumption
<1>6. PeopleTypeOK
  BY <1>1, <1>2, <1>3, <1>4, <1>5, FALSE \in BOOLEAN DEF PeopleTypeOK, Held
<1>7. InvitesName /\ OfferNames /\ WritesMembers /\ HeldInvites /\ HeldOnce
  BY <1>3, <1>4 DEF PeopleInit, InvitesName, OfferNames, WritesMembers, IsWriter, HeldInvites, HeldOnce
<1>8. Owners(member) # {}
  BY DEF PeopleInit, PeopleAssumption, Owners
<1> QED
  BY <1>4, <1>6, <1>7, <1>8 DEF PeopleInv, CountedOnce

\* Whatever is asked of the company's memberships, by however many calls at
\* once, they are what the service writes: the types, and an invitation is
\* taken up by one call at a time while it is pending.
THEOREM PeopleKeptRight ==
  ASSUME PeopleAssumption
  PROVE  PeopleSpec => []PeopleInv
<1>1. PeopleInit => PeopleInv
  BY PeopleInitOK
<1>2. PeopleInv /\ [PeopleNext]_peopleVars => PeopleInv'
  BY PeopleNextOK
<1> QED
  BY <1>1, <1>2, PTL DEF PeopleSpec

\* Only two changes whose owners were counted at the same time can leave the
\* company without an active owner, for any number of people and calls
\* (people.service.ts and the deferred trigger of 0007_role_matrix.sql).
THEOREM OwnedUnlessRaced ==
  ASSUME PeopleAssumption
  PROVE  PeopleSpec => []AnOwnerUnlessRaced
<1>1. PeopleInv => AnOwnerUnlessRaced
  <2> SUFFICES ASSUME PeopleInv, ~raced
               PROVE  \E p \in Person : member[p] = [status |-> "active", role |-> "owner"]
    BY DEF AnOwnerUnlessRaced
  <2>1. PICK p \in Owners(member) : TRUE
    BY DEF PeopleInv, CountedOnce
  <2> QED
    BY <2>1 DEF Owners, PeopleInv, PeopleTypeOK, Membership
<1> QED
  BY <1>1, PeopleKeptRight, PTL

\* Nobody becomes a member but by an invitation to them that stands, with the
\* role it names (invitation.service.ts, accept).
THEOREM InvitedOrNotIn ==
  ASSUME PeopleAssumption
  PROVE  PeopleSpec => JoinsByInvitation
<1>1. PeopleInv /\ [PeopleNext]_peopleVars => [JoinsStep]_peopleVars
  BY PeopleNextOK
<1>2. [][JoinsStep]_peopleVars => JoinsByInvitation
  BY PTL DEF JoinsStep, JoinsByInvitation
<1> QED
  BY <1>1, <1>2, PeopleKeptRight, PTL DEF PeopleSpec

-----------------------------------------------------------------------------
(* Devices: what a worker holds of them *)

\* A device that is enabled has a subscription.
EnabledIsReachable == \A d \in Device : device[d].enabled => device[d].endpoint \in Endpoint

\* What a worker holds is the device's subscription, or the device is crossed,
\* and if the worker was told it is gone then it is.
HeldIsCurrent == \A w \in Pusher :
  pusher[w].step \in {"sending", "told"} =>
    /\ pusher[w].row[2] \notin crossed => pusher[w].endpoint = device[pusher[w].row[2]].endpoint
    /\ pusher[w].step = "told" /\ pusher[w].answer = "gone" => pusher[w].endpoint \in gone

PushInv == PushTypeOK /\ EnabledIsReachable /\ HeldIsCurrent /\ OffForAReason

-----------------------------------------------------------------------------
LEMMA Rows ==
  ASSUME NEW p \in Push
  PROVE  p[1] \in Notice /\ p[2] \in Device
BY DEF Push

LEMMA Hands ==
  ASSUME PushTypeOK, NEW w \in Pusher
  PROVE  /\ pusher[w].step = "claimed" => pusher[w] \in Taken
         /\ pusher[w].step = "sending" => pusher[w] \in Sending
         /\ pusher[w].step \in {"told", "revoked"} => pusher[w] \in Told
         /\ pusher[w].step \in {"idle", "claimed", "sending", "told", "revoked"}
BY DEF PushTypeOK, Free, Taken, Sending, Told

\* What settles or postpones a row leaves it a row.
LEMMA SettledRow ==
  ASSUME NEW p \in Push, NEW r \in PushRow, NEW state \in {"sent", "failed", "skipped"}
  PROVE  /\ (IF r.state # "pending" THEN r ELSE [r EXCEPT !.state = state, !.lease = "null"]) \in PushRow
         /\ (IF r.state # "pending" THEN r ELSE [r EXCEPT !.due = FALSE, !.lease = "null"]) \in PushRow
BY DEF PushRow

LEMMA QueueTyped ==
  ASSUME push \in [Push -> PushRow], NEW p \in Push,
         Postpone(p) \/ \E state \in {"sent", "failed", "skipped"} : Settle(p, state)
  PROVE  push' \in [Push -> PushRow]
<1>1. push[p] \in PushRow
  OBVIOUS
<1>2. PICK r \in PushRow : push' = [push EXCEPT ![p] = r]
  BY Zenon, <1>1, SettledRow DEF Postpone, Settle
<1>3. QED BY <1>2

-----------------------------------------------------------------------------
(* Devices: steps that leave them alone *)

\* Nothing about a device changes; who holds a subscription held it before, or
\* reads it from the device now.
LEMMA DevicesRest ==
  ASSUME PushInv, UNCHANGED <<device, crossed>>, gone \subseteq gone', PushTypeOK',
         \A w \in Pusher :
           \/ pusher'[w] = pusher[w]
           \/ pusher'[w].step \notin {"sending", "told"}
           \/ /\ pusher'[w].step = "sending"
              /\ pusher'[w].endpoint = device[pusher'[w].row[2]].endpoint
           \/ /\ pusher[w].step = "sending" /\ pusher'[w].step = "told"
              /\ pusher'[w].row = pusher[w].row /\ pusher'[w].endpoint = pusher[w].endpoint
              /\ pusher'[w].answer = "gone" => pusher'[w].endpoint \in gone
  PROVE  PushInv'
<1>1. EnabledIsReachable'
  BY DEF PushInv, EnabledIsReachable
<1>2. HeldIsCurrent'
  BY DEF PushInv, HeldIsCurrent
<1>3. OffForAReason'
  BY DEF PushInv, OffForAReason
<1>4. QED BY <1>1, <1>2, <1>3 DEF PushInv

LEMMA NoticeStep ==
  ASSUME PushAssumption, PushInv,
         \/ \E e \in Endpoint : Expire(e)
         \/ \E n \in Notice : Notify(n) \/ MarkRead(n)
         \/ \E p \in Push : DelayEnds(p) \/ LeaseRunsOut(p)
  PROVE  PushInv'
<1>1. PushTypeOK
  BY DEF PushInv
<1>2. UNCHANGED <<device, crossed, pusher>> /\ gone \subseteq gone'
  BY DEF Expire, Notify, MarkRead, DelayEnds, LeaseRunsOut
<1>3. PushTypeOK'
  <2>1. CASE \E e \in Endpoint : Expire(e)
    BY <1>1, <2>1 DEF PushTypeOK, Expire
  <2>2. ASSUME NEW n \in Notice, Notify(n) PROVE PushTypeOK'
    <3>1. \A p \in Push : [push[p] EXCEPT !.state = "pending"] \in PushRow
      BY <1>1 DEF PushTypeOK, PushRow
    <3>2. push' \in [Push -> PushRow]
      BY <1>1, <2>2, <3>1 DEF PushTypeOK, Notify
    <3>3. QED BY <1>1, <2>2, <3>2 DEF PushTypeOK, Notify
  <2>3. ASSUME NEW n \in Notice, MarkRead(n) PROVE PushTypeOK'
    BY <1>1, <2>3 DEF PushTypeOK, MarkRead
  <2>4. ASSUME NEW p \in Push, DelayEnds(p) \/ LeaseRunsOut(p) PROVE PushTypeOK'
    <3>1. /\ [push[p] EXCEPT !.due = TRUE] \in PushRow
          /\ [push[p] EXCEPT !.lease = "over"] \in PushRow
      BY <1>1 DEF PushTypeOK, PushRow
    <3>2. PICK r \in PushRow : push' = [push EXCEPT ![p] = r]
      BY <2>4, <3>1 DEF DelayEnds, LeaseRunsOut
    <3>3. push' \in [Push -> PushRow]
      BY <1>1, <3>2 DEF PushTypeOK
    <3>4. lapses' \in 0..MaxLapses
      BY <1>1, <2>4 DEF PushTypeOK, PushAssumption, DelayEnds, LeaseRunsOut
    <3>5. QED BY <1>1, <2>4, <3>3, <3>4 DEF PushTypeOK, DelayEnds, LeaseRunsOut
  <2>5. QED BY <2>1, <2>2, <2>3, <2>4
<1>4. QED BY <1>2, <1>3, DevicesRest

LEMMA WorkerStep ==
  ASSUME PushAssumption, PushInv, NEW w \in Pusher,
         \/ \E p \in Push : Take(w, p)
         \/ \E answer \in PushAnswer : Send(w, answer)
         \/ Look(w) \/ Record(w) \/ PusherDies(w)
  PROVE  PushInv'
<1>1. PushTypeOK /\ EnabledIsReachable /\ HeldIsCurrent
  BY DEF PushInv
<1>2. /\ UNCHANGED <<device, crossed, gone, notice, registrations>>
      /\ pusher \in [Pusher -> {Free} \cup Taken \cup Sending \cup Told]
      /\ push \in [Push -> PushRow] /\ lapses \in 0..MaxLapses /\ device \in [Device -> DeviceRow]
  BY <1>1 DEF PushTypeOK, Take, Send, Look, Record, PusherDies
<1>3. ASSUME NEW hand \in {Free} \cup Taken \cup Sending \cup Told,
             pusher' = [pusher EXCEPT ![w] = hand],
             push' \in [Push -> PushRow], lapses' \in 0..MaxLapses,
             \/ hand.step \notin {"sending", "told"}
             \/ hand.step = "sending" /\ hand.endpoint = device[hand.row[2]].endpoint
             \/ /\ pusher[w].step = "sending" /\ hand.step = "told"
                /\ hand.row = pusher[w].row /\ hand.endpoint = pusher[w].endpoint
                /\ hand.answer = "gone" => hand.endpoint \in gone
      PROVE  PushInv'
  <2>1. \A v \in Pusher : pusher'[v] = IF v = w THEN hand ELSE pusher[v]
    BY <1>2, <1>3
  <2>2. PushTypeOK'
    <3>1. pusher' \in [Pusher -> {Free} \cup Taken \cup Sending \cup Told]
      BY <1>2, <1>3
    <3>2. QED BY <1>1, <1>2, <1>3, <3>1 DEF PushTypeOK
  <2>3. QED BY <1>2, <1>3, <2>1, <2>2, DevicesRest
<1>4. Free.step = "idle"
  BY DEF Free
<1>5. ASSUME NEW p \in Push, Take(w, p) PROVE PushInv'
  <2>1. push[p].attempts \in Nat /\ push[p].attempts + 1 \in Nat
    BY <1>2 DEF PushRow
  <2> DEFINE row == [push[p] EXCEPT !.attempts = @ + 1, !.lease = "running"]
             hand == [step |-> "claimed", row |-> p, attempt |-> push[p].attempts + 1]
  <2>2. row \in PushRow
    BY <1>2, <2>1 DEF PushRow
  <2>3. hand \in Taken /\ hand.step = "claimed"
    BY <2>1 DEF Taken
  <2>4. pusher' = [pusher EXCEPT ![w] = hand] /\ lapses' = lapses
    BY <1>5 DEF Take
  <2>5. push' = [push EXCEPT ![p] = row]
    BY <1>5 DEF Take
  <2> HIDE DEF row, hand
  <2>6. push' \in [Push -> PushRow]
    BY <1>2, <2>2, <2>5
  <2>7. QED BY <1>2, <1>3, <2>3, <2>4, <2>6
<1>6. ASSUME NEW answer \in PushAnswer, Send(w, answer) PROVE PushInv'
  <2>1. pusher[w] \in Sending
    BY <1>1, <1>6, Hands DEF Send
  <2> DEFINE hand == [step |-> "told", row |-> pusher[w].row, attempt |-> pusher[w].attempt,
                      answer |-> answer, endpoint |-> pusher[w].endpoint]
  <2>2. pusher' = [pusher EXCEPT ![w] = hand] /\ UNCHANGED <<push, lapses>>
    BY <1>6 DEF Send
  <2>3. hand \in Told
    BY <2>1 DEF Sending, Told
  <2>4. /\ pusher[w].step = "sending" /\ hand.step = "told"
        /\ hand.row = pusher[w].row /\ hand.endpoint = pusher[w].endpoint
        /\ hand.answer = "gone" => hand.endpoint \in gone
    BY <1>6 DEF Send
  <2> HIDE DEF hand
  <2>5. QED BY <1>2, <1>3, <2>2, <2>3, <2>4
<1>7. CASE Look(w)
  <2>1. pusher[w] \in Taken
    BY <1>1, <1>7, Hands DEF Look
  <2> DEFINE p == pusher[w].row
             hand == [step |-> "sending", row |-> p, attempt |-> pusher[w].attempt,
                      endpoint |-> device[p[2]].endpoint]
  <2>2. p \in Push /\ p[2] \in Device /\ pusher[w].attempt \in Nat
    BY <2>1, Rows DEF Taken
  <2>3. lapses' = lapses
    BY <1>7 DEF Look
  <2>4. CASE Enabled(p[2]) /\ push' = push /\ pusher' = [pusher EXCEPT ![w] = hand]
    <3>1. device[p[2]].endpoint \in Endpoint
      BY <1>1, <2>2, <2>4 DEF EnabledIsReachable, Enabled
    <3>2. hand \in Sending
      BY <2>2, <3>1 DEF Sending
    <3>3. hand.step = "sending" /\ hand.endpoint = device[hand.row[2]].endpoint
      OBVIOUS
    <3> HIDE DEF hand
    <3>4. QED BY <1>2, <1>3, <2>3, <2>4, <3>2, <3>3
  <2>5. CASE pusher' = [pusher EXCEPT ![w] = Free] /\ Settle(p, "skipped")
    <3>1. push' \in [Push -> PushRow]
      BY <1>2, <2>2, <2>5, QueueTyped
    <3>2. QED BY <1>2, <1>3, <1>4, <2>3, <2>5, <3>1
  <2>6. QED BY <1>7, <2>4, <2>5 DEF Look
<1>8. CASE Record(w)
  <2>1. pusher[w] \in Told
    BY <1>1, <1>8, Hands DEF Record
  <2> DEFINE p == pusher[w].row
  <2>2. p \in Push
    BY <2>1 DEF Told
  <2>3. Postpone(p) \/ \E state \in {"sent", "failed", "skipped"} : Settle(p, state)
    BY <1>8 DEF Record
  <2>4. push' \in [Push -> PushRow]
    BY <1>2, <2>2, <2>3, QueueTyped
  <2>5. pusher' = [pusher EXCEPT ![w] = Free] /\ lapses' = lapses
    BY <1>8 DEF Record
  <2>6. QED BY <1>2, <1>3, <1>4, <2>4, <2>5
<1>9. CASE PusherDies(w)
  <2>1. lapses' \in 0..MaxLapses
    BY <1>2, <1>9 DEF PusherDies, PushAssumption
  <2>2. pusher' = [pusher EXCEPT ![w] = Free] /\ push' = push
    BY <1>9 DEF PusherDies
  <2>3. QED BY <1>2, <1>3, <1>4, <2>1, <2>2
<1>10. QED BY <1>5, <1>6, <1>7, <1>8, <1>9

-----------------------------------------------------------------------------
(* Devices: steps that change one *)

LEMMA RegisterStep ==
  ASSUME PushAssumption, PushInv, NEW d \in Device, NEW e \in Endpoint, Register(d, e)
  PROVE  PushInv'
<1>1. PushTypeOK /\ EnabledIsReachable /\ HeldIsCurrent /\ OffForAReason
  BY DEF PushInv
<1>2. device \in [Device -> DeviceRow] /\ UNCHANGED <<gone, notice, push, pusher, lapses>>
  BY <1>1 DEF PushTypeOK, Register
<1> DEFINE new == [enabled |-> TRUE, endpoint |-> e, dropped |-> FALSE]
           Moved(r) == [r EXCEPT !.enabled = FALSE, !.dropped = TRUE]
<1>3. new \in DeviceRow /\ new.enabled = TRUE /\ new.endpoint = e
  BY DEF DeviceRow
<1>4. \A r \in DeviceRow : /\ Moved(r) \in DeviceRow /\ Moved(r).endpoint = r.endpoint
                           /\ Moved(r).enabled = FALSE /\ Moved(r).dropped = TRUE
  BY DEF DeviceRow
<1>5. \A x \in Device : device'[x] = IF x = d THEN new
                                     ELSE IF Enabled(x) /\ device[x].endpoint = e
                                          THEN Moved(device[x]) ELSE device[x]
  BY DEF Register
<1> HIDE DEF new, Moved
<1>6. device' \in [Device -> DeviceRow]
  BY <1>2, <1>3, <1>4, <1>5 DEF Register, new, Moved
<1>7. \A x \in Device \ {d} :
        \/ device'[x] = device[x]
        \/ /\ device'[x].endpoint = device[x].endpoint
           /\ device'[x].enabled = FALSE /\ device'[x].dropped = TRUE
  BY <1>2, <1>4, <1>5
<1>8. device'[d].enabled = TRUE /\ device'[d].endpoint = e
  BY <1>3, <1>5
<1>9. crossed \subseteq crossed' /\ crossed' \subseteq Device
      /\ \A w \in Pusher : pusher[w].step \in {"sending", "told"} /\ pusher[w].row[2] = d => d \in crossed'
  BY <1>1 DEF PushTypeOK, Register, Knows
<1>10. PushTypeOK'
  <2>1. /\ registrations \in 0..MaxRegistrations /\ MaxRegistrations \in Nat
        /\ registrations < MaxRegistrations /\ registrations' = registrations + 1
    BY <1>1 DEF PushTypeOK, Register, PushAssumption
  <2>2. registrations' \in 0..MaxRegistrations
    BY <2>1
  <2>3. QED BY <1>1, <1>2, <1>6, <1>9, <2>2 DEF PushTypeOK
<1>11. EnabledIsReachable'
  BY <1>1, <1>7, <1>8 DEF EnabledIsReachable
<1>12. HeldIsCurrent'
  <2> SUFFICES ASSUME NEW w \in Pusher, pusher[w].step \in {"sending", "told"}
               PROVE  /\ pusher[w].row[2] \notin crossed' =>
                           pusher[w].endpoint = device'[pusher[w].row[2]].endpoint
                      /\ pusher[w].step = "told" /\ pusher[w].answer = "gone" =>
                           pusher[w].endpoint \in gone
    BY <1>2 DEF HeldIsCurrent
  <2>1. pusher[w].row \in Push
    BY <1>1, Hands DEF Sending, Told
  <2>2. pusher[w].row[2] \in Device
    BY <2>1, Rows
  <2>3. QED BY <1>1, <1>7, <1>9, <2>2 DEF HeldIsCurrent
<1>13. OffForAReason'
  BY <1>1, <1>2, <1>7, <1>8, <1>9 DEF OffForAReason
<1>14. QED BY <1>10, <1>11, <1>12, <1>13 DEF PushInv

\* A device is switched off by its member, or by a worker that was told so.
LEMMA OffStep ==
  ASSUME PushInv, (\E d \in Device : SwitchOff(d)) \/ (\E w \in Pusher : RevokeDevice(w))
  PROVE  PushInv'
<1>1. PushTypeOK /\ EnabledIsReachable /\ HeldIsCurrent /\ OffForAReason
  BY DEF PushInv
<1>2. device \in [Device -> DeviceRow] /\ UNCHANGED <<gone, crossed, notice, push, registrations, lapses>>
  BY <1>1 DEF PushTypeOK, SwitchOff, RevokeDevice
<1>3. PICK d \in Device, row \in DeviceRow :
        /\ device' = [device EXCEPT ![d] = row] /\ row.enabled = FALSE
        /\ row.endpoint = device[d].endpoint
        /\ row.dropped \/ d \in crossed \/ device[d].endpoint \in gone
  <2>1. ASSUME NEW d \in Device, SwitchOff(d)
        PROVE  device' = [device EXCEPT ![d] = [device[d] EXCEPT !.enabled = FALSE, !.dropped = TRUE]]
    BY <1>2, <2>1 DEF SwitchOff
  <2>2. \A r \in DeviceRow : LET off == [r EXCEPT !.enabled = FALSE, !.dropped = TRUE]
                             IN /\ off \in DeviceRow /\ off.enabled = FALSE /\ off.dropped
                                /\ off.endpoint = r.endpoint
    BY DEF DeviceRow
  <2>3. \A r \in DeviceRow : LET off == [r EXCEPT !.enabled = FALSE]
                             IN /\ off \in DeviceRow /\ off.enabled = FALSE
                                /\ off.endpoint = r.endpoint
    BY DEF DeviceRow
  <2>4. ASSUME NEW w \in Pusher, RevokeDevice(w)
        PROVE  LET d == pusher[w].row[2]
               IN /\ d \in Device /\ device' = [device EXCEPT ![d] = [device[d] EXCEPT !.enabled = FALSE]]
                  /\ d \in crossed \/ device[d].endpoint \in gone
    <3>1. pusher[w] \in Told /\ pusher[w].step = "told" /\ pusher[w].answer = "gone"
      BY <1>1, <2>4, Hands DEF RevokeDevice, Revokes
    <3>2. pusher[w].row[2] \in Device
      BY <3>1, Rows DEF Told
    <3>3. pusher[w].row[2] \in crossed \/ device[pusher[w].row[2]].endpoint \in gone
      BY <1>1, <3>1 DEF HeldIsCurrent
    <3>4. QED BY <2>4, <3>2, <3>3 DEF RevokeDevice
  <2>5. ASSUME NEW d \in Device, SwitchOff(d)
        PROVE  \E row \in DeviceRow :
                 /\ device' = [device EXCEPT ![d] = row] /\ row.enabled = FALSE
                 /\ row.endpoint = device[d].endpoint /\ row.dropped
    BY <1>2, <2>1, <2>2, <2>5
  <2>6. ASSUME NEW w \in Pusher, RevokeDevice(w)
        PROVE  \E d \in Device, row \in DeviceRow :
                 /\ device' = [device EXCEPT ![d] = row] /\ row.enabled = FALSE
                 /\ row.endpoint = device[d].endpoint
                 /\ d \in crossed \/ device[d].endpoint \in gone
    BY ZenonT(30), <1>2, <2>3, <2>4, <2>6
  <2>7. QED BY <2>5, <2>6
<1>4. \A x \in Device : device'[x] = IF x = d THEN row ELSE device[x]
  BY <1>2, <1>3
<1>5. device' \in [Device -> DeviceRow]
  BY <1>2, <1>3
<1>6. \A w \in Pusher : pusher'[w] = pusher[w] \/ (pusher'[w].step = "revoked" /\ pusher'[w] \in Told)
  <2>1. CASE UNCHANGED pusher
    BY <2>1
  <2>2. ASSUME NEW v \in Pusher, RevokeDevice(v)
        PROVE  \A w \in Pusher : pusher'[w] = pusher[w] \/ (pusher'[w].step = "revoked" /\ pusher'[w] \in Told)
    <3>1. pusher[v] \in Told
      BY <1>1, <2>2, Hands DEF RevokeDevice
    <3>2. \A r \in Told : [r EXCEPT !.step = "revoked"] \in Told /\ [r EXCEPT !.step = "revoked"].step = "revoked"
      BY DEF Told
    <3>3. pusher' = [pusher EXCEPT ![v] = [pusher[v] EXCEPT !.step = "revoked"]]
      BY <1>1, <2>2 DEF RevokeDevice, PushTypeOK
    <3>4. QED BY <1>1, <3>1, <3>2, <3>3 DEF PushTypeOK
  <2>3. QED BY <2>1, <2>2 DEF SwitchOff
<1>7. PushTypeOK'
  <2>1. pusher' \in [Pusher -> {Free} \cup Taken \cup Sending \cup Told]
    BY <1>1, <1>6 DEF PushTypeOK, SwitchOff, RevokeDevice
  <2>2. QED BY <1>1, <1>2, <1>5, <2>1 DEF PushTypeOK
<1>8. EnabledIsReachable'
  BY <1>1, <1>3, <1>4 DEF EnabledIsReachable
<1>9. HeldIsCurrent'
  BY <1>1, <1>2, <1>3, <1>4, <1>6 DEF HeldIsCurrent
<1>10. OffForAReason'
  BY <1>1, <1>2, <1>3, <1>4 DEF OffForAReason
<1>11. QED BY <1>7, <1>8, <1>9, <1>10 DEF PushInv

-----------------------------------------------------------------------------
(* Devices: the theorems *)

LEMMA PushInitOK ==
  ASSUME PushAssumption, PushInit
  PROVE  PushInv
<1>1. Unregistered \in DeviceRow /\ Unregistered.enabled = FALSE /\ Unregistered.dropped = TRUE
  BY DEF Unregistered, DeviceRow
<1>2. [state |-> "absent", attempts |-> 0, due |-> TRUE, lease |-> "null"] \in PushRow
  BY DEF PushRow
<1>3. PushTypeOK
  BY <1>1, <1>2 DEF PushInit, PushTypeOK, PushAssumption
<1>4. EnabledIsReachable /\ OffForAReason
  BY <1>1 DEF PushInit, EnabledIsReachable, OffForAReason
<1>5. HeldIsCurrent
  BY DEF PushInit, HeldIsCurrent, Free
<1>6. QED BY <1>3, <1>4, <1>5 DEF PushInv

LEMMA PushNextOK ==
  ASSUME PushAssumption, PushInv, [PushNext]_pushVars
  PROVE  PushInv'
<1>1. CASE UNCHANGED pushVars
  BY <1>1 DEF pushVars, PushInv, PushTypeOK, EnabledIsReachable, HeldIsCurrent, OffForAReason
<1>2. CASE PushNext
  BY <1>2, NoticeStep, WorkerStep, RegisterStep, OffStep DEF PushNext
<1>3. QED BY <1>1, <1>2

\* Whatever workers hold is worth what the devices they read it from are.
THEOREM DevicesKeptRight ==
  ASSUME PushAssumption
  PROVE  PushSpec => []PushInv
BY PushInitOK, PushNextOK, PTL DEF PushSpec

\* The variables have their declared types, and a device goes quiet only for a
\* reason its member or its subscription gave, but for those that were
\* registered again under a worker's eyes (push-outbox.service.ts).
THEOREM QuietForAReason ==
  ASSUME PushAssumption
  PROVE  PushSpec => []PushTypeOK /\ []OffForAReason
<1>1. PushInv => PushTypeOK /\ OffForAReason
  BY DEF PushInv
<1>2. QED BY <1>1, DevicesKeptRight, PTL

-----------------------------------------------------------------------------
(* Sessions: the properties are about what a transaction read before it     *)
(* commits, so the invariant is about transactions on their way: whose rows  *)
(* they hold, and that nothing they left out escapes what they will write.   *)


\* One transaction at a time holds the users row, and it has room to write.
OneReplacement ==
  /\ \A r, q \in In("user") \cup In("swept") : r = q
  /\ UserLocked => password < MaxPassword

\* A session that a sweep has not reached is the one that proved the change,
\* or was made while the sweep was under way.
SweptAll == \A r \in In("swept") :
  Live \subseteq request[r].sessions \cup request[r].keeps \cup overlap

\* Nothing is swept before the sweep, and a completion sweeps its own link.
SweptInTurn == \A r \in Request :
  /\ request[r].step \in {"authenticated", "claimed", "user"} => request[r].links = {}
  /\ request[r].step = "swept" /\ request[r].link \in Link =>
       request[r].link \in request[r].links

\* A challenge somebody holds is open, and nobody else holds it.
HeldIsOpen == \A l \in Link :
  /\ Holder(l) # {} => link[l] = "open"
  /\ \A r, q \in Holder(l) : r = q

SessionsInv ==
  /\ SessionsTypeOK
  /\ OneReplacement
  /\ SweptAll
  /\ SweptInTurn
  /\ HeldIsOpen
  /\ LinkSpentOnce
  /\ OnlyOverlapOutlives

-----------------------------------------------------------------------------
(* Every step keeps it *)

\* What a call holds is told apart by its step.
LEMMA RequestFacts ==
  ASSUME SessionsTypeOK, NEW r \in Request
  PROVE  /\ request[r].step \in {"authenticated", "claimed", "user", "swept"} =>
              request[r] \in Change \cup Completion
         /\ request[r].step \in {"authenticated", "claimed", "user", "swept"} =>
              /\ request[r].keeps \subseteq Session
              /\ request[r].sessions \subseteq Session
              /\ request[r].links \subseteq Link
              /\ request[r].link \in Link \cup {NoLink}
         /\ request[r].step = "authenticated" => request[r].link = NoLink
         /\ request[r].step = "claimed" => request[r].link \in Link
BY DEF SessionsTypeOK, Idle, Verified, Change, Completion

\* Moving on to the users row changes nothing else a transaction holds.
LEMMA ToUser ==
  ASSUME NEW held \in Change \cup Completion
  PROVE  /\ [held EXCEPT !.step = "user"].step = "user"
         /\ [held EXCEPT !.step = "user"].links = held.links
<1>1. CASE held \in Change
  BY <1>1 DEF Change
<1>2. CASE held \in Completion
  BY <1>2 DEF Completion
<1>3. QED BY <1>1, <1>2

LEMMA InitOK ==
  ASSUME SessionsAssumption, Init
  PROVE  SessionsInv
<1>1. SessionsTypeOK
  BY DEF SessionsAssumption, Init, SessionsTypeOK, Password, Row, LinkState
<1>2. \A r \in Request : request[r] = Idle
  BY DEF Init
<1>3. QED
  BY <1>1, <1>2 DEF Init, SessionsInv, OneReplacement, SweptAll, SweptInTurn, HeldIsOpen,
     LinkSpentOnce, OnlyOverlapOutlives, UserLocked, In, Holder, Live, Idle

\* Type correctness; a replacement commits only while there is room for it.
LEMMA TypeStep ==
  ASSUME SessionsAssumption, SessionsInv, [Next]_vars
  PROVE  SessionsTypeOK'
<1> USE DEF SessionsInv
<1>1. CASE WindowEnds
  BY <1>1 DEF WindowEnds, SessionsTypeOK, SessionsAssumption
<1>2. ASSUME NEW s \in Session, Revoke(s) PROVE SessionsTypeOK'
  BY <1>2 DEF Revoke, SessionsTypeOK, Row
<1>3. ASSUME NEW l \in Link, StartRecovery(l) \/ LinkExpires(l) PROVE SessionsTypeOK'
  BY <1>3 DEF StartRecovery, LinkExpires, SessionsTypeOK, LinkState
<1>4. ASSUME NEW r \in Request, NEW typed \in Password, Verify(r, typed) PROVE SessionsTypeOK'
  <2>1. request' \in [Request -> {Idle} \cup Verified \cup Change \cup Completion]
    BY <1>4 DEF Verify, SessionsTypeOK, Verified
  <2>2. attempts' \in 0..MaxAttempts + 1
    BY <1>4 DEF Verify, SessionsTypeOK, SessionsAssumption
  <2>3. QED BY <1>4, <2>1, <2>2 DEF Verify, SessionsTypeOK
<1>5. ASSUME NEW r \in Request, NEW typed \in Password, LockUser(r, typed) PROVE SessionsTypeOK'
  <2>1. request[r] \in Change \cup Completion
    BY <1>5, RequestFacts DEF LockUser
  <2>2. [request[r] EXCEPT !.step = "user"] \in Change \cup Completion
    BY <2>1 DEF Change, Completion
  <2>3. QED BY <1>5, <2>2 DEF LockUser, SessionsTypeOK
<1>6. ASSUME NEW r \in Request, NEW s \in Session, SignIn(r, s) PROVE SessionsTypeOK'
  BY <1>6 DEF SignIn, SessionsTypeOK, SessionsAssumption, Row, Verified
<1>7. ASSUME NEW r \in Request, NEW s \in Session, BeginChange(r, s) PROVE SessionsTypeOK'
  BY <1>7 DEF BeginChange, SessionsTypeOK, Change
<1>8. ASSUME NEW r \in Request, NEW l \in Link, ClaimLink(r, l) PROVE SessionsTypeOK'
  BY <1>8 DEF ClaimLink, SessionsTypeOK, Completion
<1>9. ASSUME NEW r \in Request, Sweep(r) PROVE SessionsTypeOK'
  <2>1. request[r] \in Change \cup Completion
    BY <1>9, RequestFacts DEF Sweep
  <2>2. SweptSessions(r) \subseteq Session /\ SweptLinks(r) \subseteq Link
    BY DEF SweptSessions, SweptLinks, Live, OpenLinks
  <2>3. [request[r] EXCEPT !.step = "swept", !.sessions = SweptSessions(r),
                            !.links = SweptLinks(r)] \in Change \cup Completion
    BY <2>1, <2>2 DEF Change, Completion
  <2>4. request' = [request EXCEPT ![r] = [request[r] EXCEPT !.step = "swept",
                      !.sessions = SweptSessions(r), !.links = SweptLinks(r)]]
    BY <1>9, <2>1 DEF Sweep, SessionsTypeOK
  <2>5. QED BY <1>9, <2>3, <2>4 DEF Sweep, SessionsTypeOK
<1>10. ASSUME NEW r \in Request, Commit(r) PROVE SessionsTypeOK'
  <2>1. password + 1 \in Password
    BY <1>10 DEF Commit, OneReplacement, UserLocked, In, SessionsTypeOK, Password, SessionsAssumption
  <2>2. session' \in [Session -> Row]
    BY <1>10, <2>1 DEF Commit, SessionsTypeOK, Row
  <2>3. link' \in [Link -> LinkState] /\ spent' \in [Link -> Nat]
    BY <1>10 DEF Commit, SessionsTypeOK, LinkState
  <2>4. QED BY <1>10, <2>1, <2>2, <2>3 DEF Commit, SessionsTypeOK
<1>11. ASSUME NEW r \in Request, Abort(r) PROVE SessionsTypeOK'
  BY <1>11 DEF Abort, SessionsTypeOK
<1>12. CASE UNCHANGED vars
  BY <1>12 DEF vars, SessionsTypeOK
<1>13. QED
  BY <1>1, <1>2, <1>3, <1>4, <1>5, <1>6, <1>7, <1>8, <1>9, <1>10, <1>11, <1>12 DEF Next

\* Only LockUser takes the users row, and nobody else holds it then.
LEMMA OneReplacementStep ==
  ASSUME SessionsAssumption, SessionsInv, [Next]_vars
  PROVE  OneReplacement'
<1> USE DEF SessionsInv, SessionsTypeOK
<1> DEFINE Replacing == In("user") \cup In("swept")
<1>1. ASSUME NEW r \in Request, NEW typed \in Password, LockUser(r, typed)
      PROVE  OneReplacement'
  <2>1. Replacing' \subseteq {r}
    BY <1>1 DEF LockUser, UserLocked, In, Idle
  <2>2. password' = password /\ password < MaxPassword
    BY <1>1 DEF LockUser
  <2>3. QED BY <2>1, <2>2 DEF OneReplacement, UserLocked
<1>2. ASSUME NEW r \in Request, Commit(r) PROVE OneReplacement'
  BY <1>2 DEF Commit, OneReplacement, UserLocked, In, Idle
<1>3. ASSUME NEW r \in Request, NEW typed \in Password, Verify(r, typed) PROVE OneReplacement'
  BY <1>3 DEF Verify, OneReplacement, UserLocked, In, Idle
<1>4. ASSUME NEW r \in Request, NEW s \in Session, SignIn(r, s) \/ BeginChange(r, s)
      PROVE  OneReplacement'
  BY <1>4 DEF SignIn, BeginChange, OneReplacement, UserLocked, In, Idle
<1>5. ASSUME NEW r \in Request, NEW l \in Link, ClaimLink(r, l) PROVE OneReplacement'
  BY <1>5 DEF ClaimLink, OneReplacement, UserLocked, In, Idle
<1>6. ASSUME NEW r \in Request, Sweep(r) \/ Abort(r) PROVE OneReplacement'
  <2>1. Replacing' \subseteq Replacing /\ password' = password
    BY <1>6, RequestFacts DEF Sweep, Abort, In, Idle
  <2>2. QED BY <2>1 DEF OneReplacement, UserLocked
<1>7. CASE UNCHANGED <<password, request>>
  BY <1>7 DEF OneReplacement, UserLocked, In
<1>8. QED
  BY <1>1, <1>2, <1>3, <1>4, <1>5, <1>6, <1>7
  DEF Next, vars, WindowEnds, Revoke, StartRecovery, LinkExpires

\* What a replacement leaves live is its own session or one made meanwhile;
\* so what stays live after its commit is accounted for.
LEMMA OverlapStep ==
  ASSUME SessionsAssumption, SessionsInv, [Next]_vars
  PROVE  SweptAll' /\ OnlyOverlapOutlives'
<1> USE DEF SessionsInv, SessionsTypeOK
<1>1. ASSUME NEW r \in Request, NEW s \in Session, SignIn(r, s)
      PROVE  SweptAll' /\ OnlyOverlapOutlives'
  <2>1. In("swept")' \subseteq In("swept")
        /\ \A q \in In("swept")' : request'[q] = request[q]
    BY <1>1 DEF SignIn, In, Idle
  <2>2. Live' \subseteq Live \cup {s} /\ overlap \subseteq overlap'
    BY <1>1 DEF SignIn, Live
  <2>3. In("swept") # {} => s \in overlap'
    BY <1>1 DEF SignIn, UnderWay
  <2>4. SweptAll'
    BY <2>1, <2>2, <2>3 DEF SweptAll
  <2>5. \A t \in Live' : session'[t].proof = password' \/ t \in overlap'
    <3> TAKE t \in Live'
    <3>1. CASE t = s
      BY <1>1, <3>1 DEF SignIn, Verified, Live
    <3>2. CASE t # s
      BY <1>1, <3>2 DEF SignIn, Live, OnlyOverlapOutlives
    <3>3. QED BY <3>1, <3>2
  <2>6. QED BY <2>4, <2>5 DEF OnlyOverlapOutlives
<1>2. ASSUME NEW r \in Request, Sweep(r) PROVE SweptAll' /\ OnlyOverlapOutlives'
  <2>1. /\ request'[r].keeps = request[r].keeps /\ request'[r].sessions = Live \ request[r].keeps
        /\ In("swept")' = In("swept") \cup {r}
        /\ \A q \in Request \ {r} : request'[q] = request[q]
    BY <1>2, RequestFacts DEF Sweep, SweptSessions, In, Change, Completion
  <2>2. Live' = Live /\ UNCHANGED <<password, session, overlap>>
    BY <1>2 DEF Sweep, Live
  <2>3. SweptAll'
    BY <2>1, <2>2 DEF SweptAll, In
  <2>4. QED BY <2>2, <2>3 DEF OnlyOverlapOutlives
<1>3. ASSUME NEW r \in Request, Commit(r) PROVE SweptAll' /\ OnlyOverlapOutlives'
  <2>1. In("swept")' = {}
    BY <1>3 DEF Commit, OneReplacement, In, Idle
  <2>2. r \in In("swept") /\ Live \subseteq request[r].sessions \cup request[r].keeps \cup overlap
    BY <1>3 DEF Commit, In, SweptAll
  <2>3. \A t \in Live' : t \in Live /\ t \notin request[r].sessions
    BY <1>3 DEF Commit, Live, Row
  <2>4. \A t \in Live' : session'[t].proof = password' \/ t \in overlap'
    <3> TAKE t \in Live'
    <3>1. CASE t \in request[r].keeps
      BY <1>3, <2>3, <3>1 DEF Commit, Row, Live
    <3>2. CASE t \notin request[r].keeps
      BY <1>3, <2>2, <2>3, <3>2 DEF Commit
    <3>3. QED BY <3>1, <3>2
  <2>5. QED BY <2>1, <2>4 DEF SweptAll, OnlyOverlapOutlives
<1>4. ASSUME NEW s \in Session, Revoke(s) PROVE SweptAll' /\ OnlyOverlapOutlives'
  <2>1. Live' \subseteq Live /\ \A t \in Live' : session'[t].proof = session[t].proof
    BY <1>4 DEF Revoke, Live, Row
  <2>2. QED BY <1>4, <2>1 DEF Revoke, SweptAll, OnlyOverlapOutlives, In
<1>5. CASE /\ UNCHANGED <<password, session>> /\ overlap \subseteq overlap'
           /\ \A r \in In("swept")' : r \in In("swept") /\ request'[r] = request[r]
  BY <1>5 DEF SweptAll, OnlyOverlapOutlives, Live
<1>6. ASSUME NEW r \in Request, NEW typed \in Password, Verify(r, typed) \/ LockUser(r, typed)
      PROVE  SweptAll' /\ OnlyOverlapOutlives'
  <2>1. CASE Verify(r, typed)
    BY <1>5, <2>1 DEF Verify, In, Idle
  <2>2. CASE LockUser(r, typed)
    <3>1. request[r] \in Change \cup Completion
      BY <2>2, RequestFacts DEF LockUser
    <3>2. request'[r].step # "swept" /\ \A q \in Request \ {r} : request'[q] = request[q]
      BY <2>2, <3>1 DEF LockUser, Idle, Change, Completion
    <3>3. QED BY <1>5, <2>2, <3>2 DEF LockUser, In
  <2>3. QED BY <1>6, <2>1, <2>2
<1>7. ASSUME NEW r \in Request, NEW s \in Session, BeginChange(r, s)
      PROVE  SweptAll' /\ OnlyOverlapOutlives'
  BY <1>5, <1>7 DEF BeginChange, In
<1>8. ASSUME NEW r \in Request, NEW l \in Link, ClaimLink(r, l)
      PROVE  SweptAll' /\ OnlyOverlapOutlives'
  BY <1>5, <1>8 DEF ClaimLink, In
<1>9. ASSUME NEW r \in Request, Abort(r) PROVE SweptAll' /\ OnlyOverlapOutlives'
  BY <1>5, <1>9 DEF Abort, In, Idle
<1>10. ASSUME NEW l \in Link, StartRecovery(l) \/ LinkExpires(l)
       PROVE  SweptAll' /\ OnlyOverlapOutlives'
  BY <1>5, <1>10 DEF StartRecovery, LinkExpires, In
<1>11. CASE WindowEnds \/ UNCHANGED vars
  BY <1>5, <1>11 DEF WindowEnds, vars, In
<1>12. QED
  BY <1>1, <1>2, <1>3, <1>4, <1>6, <1>7, <1>8, <1>9, <1>10, <1>11 DEF Next

\* A sweep is the only step that names links, and a completion's own is open.
LEMMA SweptInTurnStep ==
  ASSUME SessionsAssumption, SessionsInv, [Next]_vars
  PROVE  SweptInTurn'
<1> USE DEF SessionsInv, SessionsTypeOK
<1>1. ASSUME NEW r \in Request, Sweep(r) PROVE SweptInTurn'
  <2>1. /\ request'[r].step = "swept" /\ request'[r].link = request[r].link
        /\ request'[r].links = SweptLinks(r)
        /\ \A q \in Request \ {r} : request'[q] = request[q]
    BY <1>1, RequestFacts DEF Sweep, Change, Completion
  <2>2. request[r].link \in Link => request[r].link \in SweptLinks(r)
    BY <1>1, SessionsAssumption
    DEF SessionsAssumption, Sweep, SweptLinks, OpenLinks, HeldIsOpen, Holder, In
  <2>3. QED BY <2>1, <2>2 DEF SweptInTurn
<1>2. ASSUME NEW r \in Request, NEW typed \in Password, LockUser(r, typed) PROVE SweptInTurn'
  <2>1. request[r] \in Change \cup Completion
    BY <1>2, RequestFacts DEF LockUser
  <2>2. request'[r] = Idle \/ request'[r] = [request[r] EXCEPT !.step = "user"]
    BY <1>2 DEF LockUser
  <2>3. \/ request'[r] = Idle
        \/ request'[r].step = "user" /\ request'[r].links = request[r].links
    BY <2>1, <2>2, ToUser
  <2>4. request[r].links = {} /\ \A q \in Request \ {r} : request'[q] = request[q]
    BY <1>2 DEF LockUser, SweptInTurn
  <2>5. ASSUME NEW q \in Request
        PROVE  /\ request'[q].step \in {"authenticated", "claimed", "user"} => request'[q].links = {}
               /\ request'[q].step = "swept" /\ request'[q].link \in Link =>
                    request'[q].link \in request'[q].links
    <3>1. CASE q = r
      BY <2>3, <2>4, <3>1 DEF Idle
    <3>2. CASE q # r
      BY <2>4, <3>2 DEF SweptInTurn
    <3>3. QED BY <3>1, <3>2
  <2>6. QED BY <2>5 DEF SweptInTurn
<1>3. ASSUME NEW r \in Request, NEW typed \in Password, Verify(r, typed) PROVE SweptInTurn'
  BY <1>3 DEF Verify, SweptInTurn
<1>4. ASSUME NEW r \in Request, NEW s \in Session, SignIn(r, s) \/ BeginChange(r, s)
      PROVE  SweptInTurn'
  BY <1>4 DEF SignIn, BeginChange, SweptInTurn, Idle
<1>5. ASSUME NEW r \in Request, NEW l \in Link, ClaimLink(r, l) PROVE SweptInTurn'
  BY <1>5 DEF ClaimLink, SweptInTurn
<1>6. ASSUME NEW r \in Request, Commit(r) \/ Abort(r) PROVE SweptInTurn'
  BY <1>6 DEF Commit, Abort, SweptInTurn, Idle
<1>7. CASE UNCHANGED request
  BY <1>7 DEF SweptInTurn
<1>8. QED
  BY <1>1, <1>2, <1>3, <1>4, <1>5, <1>6, <1>7
  DEF Next, vars, WindowEnds, Revoke, StartRecovery, LinkExpires

\* Nobody takes a challenge another holds, and none closes under its holder.
LEMMA HeldStep ==
  ASSUME SessionsAssumption, SessionsInv, [Next]_vars, NEW l \in Link
  PROVE  (Holder(l) # {} => link[l] = "open")' /\ \A r, q \in Holder(l)' : r = q
<1> USE DEF SessionsInv, SessionsTypeOK
<1> DEFINE Kept == (Holder(l) # {} => link[l] = "open")' /\ \A r, q \in Holder(l)' : r = q
<1>1. CASE Holder(l)' \subseteq Holder(l) /\ link'[l] = link[l]
  BY <1>1 DEF HeldIsOpen
<1>2. ASSUME NEW r \in Request, NEW k \in Link, ClaimLink(r, k) PROVE Kept
  <2>1. Holder(l)' \subseteq (IF l = k THEN {r} ELSE Holder(l))
    BY <1>2 DEF ClaimLink, Holder, In
  <2>2. QED BY <1>1, <1>2, <2>1 DEF ClaimLink
<1>3. ASSUME NEW r \in Request, Sweep(r) PROVE Kept
  <2>1. /\ request'[r].link = request[r].link /\ request'[r].links = SweptLinks(r)
        /\ \A q \in Request \ {r} : request'[q] = request[q]
    BY <1>3, RequestFacts DEF Sweep, Change, Completion
  <2>2. CASE l \in SweptLinks(r)
    <3>1. Holder(l)' \subseteq {r}
      BY <1>3, <2>1, <2>2 DEF Sweep, Holder, In
    <3>2. link[l] = "open"
      BY <2>2 DEF SweptLinks, OpenLinks
    <3>3. QED BY <1>3, <3>1, <3>2 DEF Sweep
  <2>3. CASE l \notin SweptLinks(r)
    <3>1. Holder(l)' \subseteq Holder(l)
      BY <1>3, <2>1, <2>3 DEF Sweep, Holder, In
    <3>2. QED BY <1>1, <1>3, <3>1 DEF Sweep
  <2>4. QED BY <2>2, <2>3
<1>4. ASSUME NEW r \in Request, Commit(r) PROVE Kept
  <2>1. Holder(l)' \subseteq Holder(l) \ {r}
    BY <1>4 DEF Commit, Holder, In, Idle
  <2>2. CASE l \in request[r].links
    <3>1. r \in Holder(l)
      BY <1>4, <2>2 DEF Commit, Holder, In
    <3>2. QED BY <2>1, <3>1 DEF HeldIsOpen
  <2>3. CASE l \notin request[r].links
    BY <1>1, <1>4, <2>1, <2>3 DEF Commit
  <2>4. QED BY <2>2, <2>3
<1>5. ASSUME NEW r \in Request, NEW typed \in Password, LockUser(r, typed) PROVE Kept
  <2>1. request[r] \in Change \cup Completion
    BY <1>5, RequestFacts DEF LockUser
  <2>2. request[r].links = {} /\ (request[r].link = l => request[r].step = "claimed")
    BY <1>5, RequestFacts DEF LockUser, SweptInTurn, SessionsAssumption
  <2>3. request'[r] = Idle \/ (/\ request'[r].link = request[r].link
                               /\ request'[r].links = request[r].links)
    BY <1>5, <2>1 DEF LockUser, Idle, Change, Completion
  <2>4. Holder(l)' \subseteq Holder(l)
    BY <1>5, <2>2, <2>3 DEF LockUser, Holder, In, Idle
  <2>5. QED BY <1>1, <1>5, <2>4 DEF LockUser
<1>6. ASSUME NEW r \in Request, NEW typed \in Password, Verify(r, typed) PROVE Kept
  BY <1>1, <1>6 DEF Verify, Holder, In
<1>7. ASSUME NEW r \in Request, NEW s \in Session, SignIn(r, s) \/ BeginChange(r, s) PROVE Kept
  BY <1>1, <1>7 DEF SignIn, BeginChange, Holder, In, Idle
<1>8. ASSUME NEW r \in Request, Abort(r) PROVE Kept
  BY <1>1, <1>8 DEF Abort, Holder, In, Idle
<1>9. ASSUME NEW k \in Link, StartRecovery(k) \/ LinkExpires(k) PROVE Kept
  <2>1. Holder(l)' = Holder(l)
    BY <1>9 DEF StartRecovery, LinkExpires, Holder, In
  <2>2. QED BY <1>9, <2>1 DEF StartRecovery, LinkExpires, HeldIsOpen
<1>10. CASE UNCHANGED <<request, link>>
  BY <1>1, <1>10 DEF Holder, In
<1>11. QED
  BY <1>2, <1>3, <1>4, <1>5, <1>6, <1>7, <1>8, <1>9, <1>10
  DEF Next, vars, WindowEnds, Revoke

\* A completion closes the link it spends, which was open until then.
LEMMA SpentStep ==
  ASSUME SessionsAssumption, SessionsInv, [Next]_vars
  PROVE  LinkSpentOnce'
<1> USE DEF SessionsInv, SessionsTypeOK
<1>1. ASSUME NEW r \in Request, Commit(r), NEW l \in Link
      PROVE  spent'[l] <= 1 /\ (spent'[l] = 1 => link'[l] = "used")
  <2>1. CASE l = request[r].link
    <3>1. l \in request[r].links /\ link[l] = "open"
      BY <1>1, <2>1 DEF Commit, SweptInTurn, HeldIsOpen, Holder, In
    <3>2. spent[l] \in Nat /\ spent[l] <= 1 /\ spent[l] # 1
      BY <3>1 DEF LinkSpentOnce
    <3>3. spent'[l] = spent[l] + 1 /\ link'[l] = "used"
      BY <1>1, <2>1, <3>1 DEF Commit
    <3>4. QED BY <3>2, <3>3
  <2>2. CASE l # request[r].link
    BY <1>1, <2>2 DEF Commit, LinkSpentOnce
  <2>3. QED BY <2>1, <2>2
<1>2. ASSUME NEW k \in Link, StartRecovery(k) \/ LinkExpires(k) PROVE LinkSpentOnce'
  BY <1>2 DEF StartRecovery, LinkExpires, LinkSpentOnce
<1>3. CASE UNCHANGED <<link, spent>>
  BY <1>3 DEF LinkSpentOnce
<1>4. QED
  BY <1>1, <1>2, <1>3
  DEF LinkSpentOnce, Next, vars, WindowEnds, Revoke, Verify, LockUser, SignIn, BeginChange,
      ClaimLink, Sweep, Abort

LEMMA InvStep ==
  ASSUME SessionsAssumption, SessionsInv, [Next]_vars
  PROVE  SessionsInv'
<1>1. HeldIsOpen'
  BY HeldStep DEF HeldIsOpen
<1>2. QED
  BY <1>1, TypeStep, OneReplacementStep, OverlapStep, SweptInTurnStep, SpentStep DEF SessionsInv

-----------------------------------------------------------------------------
(* Theorems *)

\* The invariant holds in every reachable state of the account.
THEOREM SessionsKeptRight ==
  ASSUME SessionsAssumption
  PROVE  SessionsSpec => []SessionsInv
<1>1. Init => SessionsInv
  BY InitOK
<1>2. SessionsInv /\ [Next]_vars => SessionsInv'
  BY InvStep
<1>3. QED
  BY <1>1, <1>2, PTL DEF SessionsSpec

\* A recovery link replaces at most one password and is used up by it, however
\* many completions read it at once (recovery.service.ts, complete).
THEOREM ALinkIsSpentOnce ==
  ASSUME SessionsAssumption
  PROVE  SessionsSpec => []LinkSpentOnce
<1>1. SessionsInv => LinkSpentOnce
  BY DEF SessionsInv
<1>2. QED
  BY <1>1, SessionsKeptRight, PTL

\* No session of a replaced password stays live but those made while it was
\* being replaced (auth.service.ts changePassword, recovery.service.ts complete).
THEOREM OnlyTheOverlapOutlives ==
  ASSUME SessionsAssumption
  PROVE  SessionsSpec => []OnlyOverlapOutlives
<1>1. SessionsInv => OnlyOverlapOutlives
  BY DEF SessionsInv
<1>2. QED
  BY <1>1, SessionsKeptRight, PTL
=============================================================================
