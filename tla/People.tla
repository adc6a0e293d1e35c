------------------------------- MODULE People -------------------------------
(***************************************************************************)
(* The memberships of one company: changes of role and status, the offer   *)
(* of ownership, invitations (apps/api/src/people).  Every call is a       *)
(* transaction under READ COMMITTED: what authorised it was read at its    *)
(* beginning, its writes are seen by others at its COMMIT, and until then  *)
(* the rows it wrote are locked.  The trigger that keeps an owner is       *)
(* deferred: it counts when the COMMIT begins.                             *)
(*                                                                         *)
(* Grants are told apart only as far as the built-in roles owner, admin    *)
(* and agent do, since no custom role may carry member.manage.             *)
(***************************************************************************)
EXTENDS Naturals, FiniteSets

CONSTANTS
  Person,   \* users, with or without a membership here
  Founder,  \* those who are owners to begin with
  Invite,   \* rows of invitations
  Call,  \* calls that can be served at once
  MaxServed, \* bound: calls served in all
  Nobody

PeopleAssumption ==
  /\ Founder \subseteq Person /\ Founder # {}
  /\ Nobody \notin Person
  /\ MaxServed \in Nat

VARIABLES
  member,    \* memberships: status and role of each person
  invite,    \* invitations: whom, what role, in which state
  transfer,  \* the pending ownership_transfers row, if there is one
  call,   \* what each call has read and written
  raced,     \* history: two transactions have had their owners counted at once
  served     \* how many calls have begun

peopleVars == <<member, invite, transfer, call, raced, served>>

Role == {"owner", "admin", "agent"}
Status == {"active", "suspended", "revoked"}
Membership == [status : Status \cup {"none"}, role : Role]
InviteRow == [state : {"none", "pending", "accepted", "revoked", "expired"},
              email : Person \cup {Nobody}, role : Role]
Transfer == [from : Person \cup {Nobody}, to : Person \cup {Nobody}, expired : BOOLEAN]
NoTransfer == [from |-> Nobody, to |-> Nobody, expired |-> FALSE]
PartialTo(S) == UNION {[P -> S] : P \in SUBSET Person}
NoWrites == [p \in {} |-> p]

\* What a call holds: the principal it was authorised as; the rows it has
\* written and whether the pending transfer goes with them; whom it is to
\* invite; or the invitation it has locked.
NoCall == [step |-> "idle"]
Authorised == [step : {"authorised"}, by : Person, seen : Role]
Writing == [step : {"written", "checked"}, roles : PartialTo(Role),
            statuses : PartialTo(Status), settles : BOOLEAN]
Inviting == [step : {"inviting"}, email : Person, role : Role]
Accepting == [step : {"accepting"}, invite : Invite]

PeopleTypeOK ==
  /\ member \in [Person -> Membership]
  /\ invite \in [Invite -> InviteRow]
  /\ transfer \in Transfer
  /\ call \in [Call -> {NoCall} \cup Authorised \cup Writing \cup Inviting \cup Accepting]
  /\ raced \in BOOLEAN
  /\ served \in 0..MaxServed

PeopleInit ==
  /\ member = [p \in Person |-> [status |-> IF p \in Founder THEN "active" ELSE "none",
                                 role |-> IF p \in Founder THEN "owner" ELSE "agent"]]
  /\ invite = [i \in Invite |-> [state |-> "none", email |-> Nobody, role |-> "agent"]]
  /\ transfer = NoTransfer
  /\ call = [r \in Call |-> NoCall]
  /\ raced = FALSE
  /\ served = 0

\* canAssignRole: every grant of the role is one the actor holds.
MayAssign(held, role) == held = "owner" \/ (held = "admin" /\ role # "owner")
Manages(role) == role \in {"owner", "admin"}

Writers == {r \in Call : call[r].step \in {"written", "checked"}}
Locked(p) == \E r \in Writers : p \in DOMAIN call[r].roles \cup DOMAIN call[r].statuses
TransferLocked == \E r \in Writers : call[r].settles

\* Slip: accept looks the invitation up without FOR UPDATE.
NeverLocked(i) == FALSE
InviteLocked(i) == \E r \in Call : call[r].step = "accepting" /\ call[r].invite = i

\* A call begins.
BeginCall(r) == call[r] = NoCall /\ served < MaxServed /\ served' = served + 1

-----------------------------------------------------------------------------
(* Authorisation: the principal is loaded, and must be active and allowed.  *)

Authorise(r, p) ==
  /\ BeginCall(r)
  /\ member[p].status = "active"
  /\ Manages(member[p].role)
  /\ call' = [call EXCEPT ![r] =
       [step |-> "authorised", by |-> p, seen |-> member[p].role]]
  /\ UNCHANGED <<member, invite, transfer, raced>>

\* updateMembership: a role, a status, or both; the target's own role is not
\* asked about, the ceiling is on the role it gets.
UpdateMember(r, p, roles, statuses) ==
  /\ call[r].step = "authorised"
  /\ member[p].status # "none"
  /\ DOMAIN roles \cup DOMAIN statuses = {p}
  /\ \A q \in DOMAIN roles : MayAssign(call[r].seen, roles[q])
  /\ \A q \in DOMAIN statuses : q = call[r].by => statuses[q] = "active"
  /\ ~Locked(p)
  /\ call' = [call EXCEPT ![r] =
       [step |-> "written", roles |-> roles, statuses |-> statuses, settles |-> FALSE]]
  /\ UNCHANGED <<member, invite, transfer, raced, served>>

\* offerOwnership: one pending row for the company.  An offer that has expired
\* is still pending, and nobody can settle it any more.
Offer(r, p) ==
  /\ call[r].step = "authorised"
  /\ call[r].seen = "owner"
  /\ p # call[r].by
  /\ member[p].status = "active"
  /\ transfer = NoTransfer
  /\ transfer' = [from |-> call[r].by, to |-> p, expired |-> FALSE]
  /\ call' = [call EXCEPT ![r] = NoCall]
  /\ UNCHANGED <<member, invite, raced, served>>

OfferExpires ==
  /\ transfer # NoTransfer
  /\ ~transfer.expired
  /\ ~TransferLocked
  /\ transfer' = [transfer EXCEPT !.expired = TRUE]
  /\ UNCHANGED <<member, invite, call, raced, served>>

\* settleOwnership needs a membership and nothing else, whatever its status:
\* withPrincipal loads the caller and authorises nothing.
AcceptOffer(r) ==
  /\ BeginCall(r)
  /\ transfer # NoTransfer
  /\ ~transfer.expired
  /\ ~TransferLocked
  /\ ~Locked(transfer.from) /\ ~Locked(transfer.to)
  /\ call' = [call EXCEPT ![r] = [step |-> "written",
       roles |-> [p \in {transfer.from, transfer.to} |->
                    IF p = transfer.from THEN "admin" ELSE "owner"],
       statuses |-> NoWrites, settles |-> TRUE]]
  /\ UNCHANGED <<member, invite, transfer, raced>>

\* Declined by the one, or cancelled by the other.
DropOffer ==
  /\ transfer # NoTransfer
  /\ ~transfer.expired
  /\ ~TransferLocked
  /\ transfer' = NoTransfer
  /\ UNCHANGED <<member, invite, call, raced, served>>

-----------------------------------------------------------------------------
(* COMMIT: the deferred trigger, and then what others can see.              *)

After(r) == [p \in Person |->
  [status |-> IF p \in DOMAIN call[r].statuses THEN call[r].statuses[p]
              ELSE member[p].status,
   role |-> IF p \in DOMAIN call[r].roles THEN call[r].roles[p] ELSE member[p].role]]

\* Slip: the trigger counts whoever has the role, whatever the status.
OwnersOfAnyStatus(rows) == {p \in Person : rows[p].status # "none" /\ rows[p].role = "owner"}
Owners(rows) == {p \in Person : rows[p].status = "active" /\ rows[p].role = "owner"}

\* assert_tenant_has_active_owner: what is committed, and its own writes.
Check(r) ==
  /\ call[r].step = "written"
  /\ IF Owners(After(r)) = {}
     THEN /\ call' = [call EXCEPT ![r] = NoCall]
          /\ UNCHANGED raced
     ELSE /\ call' = [call EXCEPT ![r].step = "checked"]
          /\ raced' = (raced \/ \E q \in Call : call[q].step = "checked")
  /\ UNCHANGED <<member, invite, transfer, served>>

CommitRows(r) ==
  /\ call[r].step = "checked"
  /\ member' = After(r)
  /\ transfer' = IF call[r].settles THEN NoTransfer ELSE transfer
  /\ call' = [call EXCEPT ![r] = NoCall]
  /\ UNCHANGED <<invite, raced, served>>

\* A refusal, an error or a lost connection: ROLLBACK.
RollBack(r) ==
  /\ call[r] # NoCall
  /\ call' = [call EXCEPT ![r] = NoCall]
  /\ UNCHANGED <<member, invite, transfer, raced, served>>

-----------------------------------------------------------------------------
(* Invitations.                                                             *)

PendingFor(p) == {i \in Invite : invite[i].state = "pending" /\ invite[i].email = p}

\* create: refused to a member who is not revoked, as read now.
Invitable(r, p, role) ==
  /\ call[r].step = "authorised"
  /\ MayAssign(call[r].seen, role)
  /\ member[p].status \in {"none", "revoked"}
  /\ call' = [call EXCEPT ![r] = [step |-> "inviting", email |-> p, role |-> role]]
  /\ UNCHANGED <<member, invite, transfer, raced, served>>

\* It supersedes the pending invitation of the address, and waits for whoever
\* is accepting that one: by then the address may be a member's.
CreateInvite(r, i) ==
  /\ call[r].step = "inviting"
  /\ invite[i].state = "none"
  /\ LET p == call[r].email
     IN /\ \A j \in PendingFor(p) : ~InviteLocked(j)
        /\ invite' = [j \in Invite |->
             IF j = i THEN [state |-> "pending", email |-> p, role |-> call[r].role]
             ELSE IF j \in PendingFor(p) THEN [invite[j] EXCEPT !.state = "revoked"]
             ELSE invite[j]]
  /\ call' = [call EXCEPT ![r] = NoCall]
  /\ UNCHANGED <<member, transfer, raced, served>>

RevokeInvite(r, i) ==
  /\ call[r].step = "authorised"
  /\ invite[i].state = "pending"
  /\ ~InviteLocked(i)
  /\ invite' = [invite EXCEPT ![i].state = "revoked"]
  /\ call' = [call EXCEPT ![r] = NoCall]
  /\ UNCHANGED <<member, transfer, raced, served>>

InviteExpires(i) ==
  /\ invite[i].state = "pending"
  /\ ~InviteLocked(i)
  /\ invite' = [invite EXCEPT ![i].state = "expired"]
  /\ UNCHANGED <<member, transfer, call, raced, served>>

\* accept: the token's row is locked while it is still pending.
Resolve(r, i) ==
  /\ BeginCall(r)
  /\ invite[i].state = "pending"
  /\ ~InviteLocked(i)
  /\ call' = [call EXCEPT ![r] = [step |-> "accepting", invite |-> i]]
  /\ UNCHANGED <<member, invite, transfer, raced>>

\* The membership, with the role the invitation names, and the invitation's
\* end.  A membership that was revoked is still a row of this user, which
\* memberships_tenant_user_uq rejects: then the call fails (RollBack).
Join(r) ==
  /\ call[r].step = "accepting"
  /\ LET i == call[r].invite
         p == invite[i].email
     IN /\ member[p].status = "none"
        /\ member' = [member EXCEPT ![p] = [status |-> "active", role |-> invite[i].role]]
        /\ invite' = [invite EXCEPT ![i].state = "accepted"]
  /\ call' = [call EXCEPT ![r] = NoCall]
  /\ UNCHANGED <<transfer, raced, served>>

-----------------------------------------------------------------------------
PeopleNext ==
  \/ OfferExpires \/ DropOffer
  \/ \E i \in Invite : InviteExpires(i)
  \/ \E r \in Call :
       \/ \E p \in Person :
            \/ Authorise(r, p)
            \/ Offer(r, p)
            \/ \E roles \in {NoWrites} \cup [{p} -> Role] :
                 \E statuses \in {NoWrites} \cup [{p} -> Status] : UpdateMember(r, p, roles, statuses)
            \/ \E role \in Role : Invitable(r, p, role)
       \/ \E i \in Invite : CreateInvite(r, i) \/ RevokeInvite(r, i) \/ Resolve(r, i)
       \/ Join(r) \/ AcceptOffer(r) \/ Check(r) \/ CommitRows(r) \/ RollBack(r)

PeopleSpec == PeopleInit /\ [][PeopleNext]_peopleVars

-----------------------------------------------------------------------------
(* Properties.                                                              *)

\* Only two transactions whose owners were counted at the same time can leave
\* the company without an active owner; no sequence of changes, offers and
\* acceptances does.
AnOwnerUnlessRaced ==
  raced \/ \E p \in Person : member[p] = [status |-> "active", role |-> "owner"]

\* Whoever becomes a member does so by an invitation to them that nobody has
\* taken up, revoked or superseded and that has not run out, and gets the role
\* it names.
JoinsByInvitation ==
  [][\A p \in Person : member[p].status = "none" /\ member'[p].status # "none" =>
       \E i \in Invite :
         /\ invite[i] = [state |-> "pending", email |-> p, role |-> member'[p].role]
         /\ invite'[i].state = "accepted"]_peopleVars

\* docs/requirements/traceability.md:338: "Last active Owner cannot be deleted,
\* suspended or demoted".
AnOwnerRemains == \E p \in Person : member[p] = [status |-> "active", role |-> "owner"]
=============================================================================
