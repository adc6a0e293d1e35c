------------------------------ MODULE Drafting ------------------------------
(***************************************************************************)
(* A broadcast before it runs: the handlers that draft, validate, approve  *)
(* and launch it (campaign.service.ts), the import of its lead sheet       *)
(* (campaign-lead-import.service.ts), and the wizard that calls them one   *)
(* after the other (live/broadcast.ts) over a connection that may drop at  *)
(* any of them, while colleagues call the same handlers.                   *)
(*                                                                         *)
(* A handler locks the campaign's row first, and is one action.  What a    *)
(* revision hash covers is told apart by the audience; the rest of the     *)
(* form never changes.                                                     *)
(***************************************************************************)
EXTENDS Naturals, FiniteSets

CONSTANTS
  Campaign,     \* rows of campaigns
  Sheet,        \* lead sheets, and the contacts an import of each one names
  NoSheet,
  NoCampaign,
  Shared,       \* bound: the campaigns colleagues work on
  MaxVersion,   \* bound: colleagues leave a campaign alone from this version on
  MaxTries      \* bound: how often the operator confirms the wizard

DraftingAssumption ==
  /\ NoSheet \notin Sheet /\ NoCampaign \notin Campaign /\ Shared \subseteq Campaign
  /\ Sheet \cap {"all", "nobody"} = {}
  /\ MaxVersion \in Nat /\ MaxTries \in Nat

VARIABLES
  campaigns,  \* campaigns with their current revision and their leads
  approvals,  \* campaign_approvals
  frozen,     \* audience_snapshots
  launches,   \* campaign_executions
  wizard,     \* the dialog and the request it waits for
  sent,       \* requests of the wizard the server has not taken
  tries

draftVars == <<campaigns, approvals, frozen, launches, wizard, sent, tries>>
tables == <<campaigns, approvals, frozen, launches>>

\* "all" and "nobody" (an id no contact has) stand for the filters of a form.
Audience == {"all", "nobody"} \cup Sheet

CampaignRow ==
  [state : {"none", "draft", "ready", "launched"}, version : Nat, revision : Nat,
   audience : Audience, sheet : Sheet \cup {NoSheet}]
NoRow == [state |-> "none", version |-> 0, revision |-> 0,
          audience |-> "all", sheet |-> NoSheet]

Operation == {"create", "update", "import", "validate", "approve", "launch"}
WizardRequest ==
  [op : Operation, on : Campaign \cup {NoCampaign}, audience : Audience,
   version : Nat, sheet : Sheet \cup {NoSheet}, try : Nat]

\* What a handler refuses with, or the connection's failure, or nothing.
Refused ==
  {"", "network", "campaign_edit_locked", "version_conflict", "imported_audience_mismatch",
   "campaign_not_draft", "campaign_leads_already_imported", "invalid_campaign_transition",
   "campaign_not_ready", "campaign_already_approved", "approval_required", "audience_required"}

\* on is the campaign of the dialog, view what the last answer said of it.
Wizard ==
  [at : {"form", "stopped", "done"} \cup Operation, on : Campaign \cup {NoCampaign},
   view : [row : CampaignRow, approved : BOOLEAN], imported : BOOLEAN,
   sheet : Sheet \cup {NoSheet}, refusal : Refused]
NoView == [row |-> NoRow, approved |-> FALSE]

DraftingTypeOK ==
  /\ campaigns \in [Campaign -> CampaignRow]
  /\ approvals \subseteq [on : Campaign, revision : Nat, audience : Audience]
  /\ frozen \subseteq [on : Campaign, revision : Nat, audience : Audience]
  /\ launches \subseteq [on : Campaign, revision : Nat, audience : Audience, wizard : BOOLEAN]
  /\ wizard \in Wizard
  /\ sent \subseteq WizardRequest
  /\ tries \in Nat

DraftingInit ==
  /\ campaigns = [c \in Campaign |-> NoRow]
  /\ approvals = {} /\ frozen = {} /\ launches = {}
  /\ \E s \in Sheet \cup {NoSheet} :
       wizard = [at |-> "form", on |-> NoCampaign, view |-> NoView,
                 imported |-> FALSE, sheet |-> s, refusal |-> ""]
  /\ sent = {} /\ tries = 0

-----------------------------------------------------------------------------
(* The handlers: what each refuses, and what it does otherwise *)

Unused == {c \in Campaign : campaigns[c].state = "none"}

\* A revision, as approvals and snapshots name it.
RevisionOf(c) == [on |-> c, revision |-> campaigns[c].revision,
                  audience |-> campaigns[c].audience]

Approved(c) == RevisionOf(c) \in approvals

\* Slip: the approval of any revision of the campaign will do.
ApprovedOnce(c) == \E a \in approvals : a.on = c

\* revision_id and revision_hash of a live approval.
LaunchApproved(c) == Approved(c)

Snapshots(c) == {f \in frozen : f.on = c /\ f.revision = campaigns[c].revision}

\* requireImportedAudience
Mismatched(c, audience) ==
  campaigns[c].sheet # NoSheet /\ audience # campaigns[c].sheet

UpdateRefusal(q) ==
  CASE campaigns[q.on].state = "launched" -> "campaign_edit_locked"
    [] campaigns[q.on].version # q.version -> "version_conflict"
    [] Mismatched(q.on, q.audience) -> "imported_audience_mismatch"
    [] OTHER -> ""

ImportRefusal(q) ==
  CASE campaigns[q.on].state # "draft" -> "campaign_not_draft"
    [] campaigns[q.on].sheet \notin {NoSheet, q.sheet} -> "campaign_leads_already_imported"
    [] OTHER -> ""

ValidateRefusal(q) ==
  CASE campaigns[q.on].state # "draft" -> "invalid_campaign_transition"
    [] Mismatched(q.on, campaigns[q.on].audience) -> "imported_audience_mismatch"
    [] OTHER -> ""

ApproveRefusal(q) ==
  CASE campaigns[q.on].state # "ready" -> "campaign_not_ready"
    [] Approved(q.on) -> "campaign_already_approved"
    [] OTHER -> ""

\* The transition is refused for a launched campaign before its unique
\* execution could be.
LaunchRefusal(q) ==
  CASE ~LaunchApproved(q.on) -> "approval_required"
    [] Snapshots(q.on) = {} -> "audience_required"
    [] campaigns[q.on].state # "ready" -> "invalid_campaign_transition"
    [] OTHER -> ""

Refusal(q) ==
  CASE q.op = "create" -> ""
    [] q.op = "update" -> UpdateRefusal(q)
    [] q.op = "import" -> ImportRefusal(q)
    [] q.op = "validate" -> ValidateRefusal(q)
    [] q.op = "approve" -> ApproveRefusal(q)
    [] q.op = "launch" -> LaunchRefusal(q)

Create(c, audience) ==
  /\ c \in Unused
  /\ campaigns' = [campaigns EXCEPT ![c] =
       [NoRow EXCEPT !.state = "draft", !.version = 1, !.revision = 1,
                     !.audience = audience]]
  /\ UNCHANGED <<approvals, frozen, launches>>

\* The same hash keeps the revision and what was decided about it.
Revised(r, audience) ==
  IF audience = r.audience THEN [r EXCEPT !.version = @ + 1]
  ELSE [r EXCEPT !.version = @ + 1, !.revision = @ + 1,
                 !.audience = audience, !.state = "draft"]

Update(q) ==
  /\ campaigns' = [campaigns EXCEPT ![q.on] = Revised(@, q.audience)]
  /\ UNCHANGED <<approvals, frozen, launches>>

\* The same sheet again changes nothing.
WithSheet(r, sheet) == [r EXCEPT !.sheet = sheet]

Import(q) ==
  /\ campaigns' = [campaigns EXCEPT ![q.on] = WithSheet(@, q.sheet)]
  /\ UNCHANGED <<approvals, frozen, launches>>

\* validate, validation_passed and freezeAudience.
Readied(r) == [r EXCEPT !.state = "ready", !.version = @ + 2]

Validate(q) ==
  /\ campaigns' = [campaigns EXCEPT ![q.on] = Readied(@)]
  /\ frozen' = frozen \cup {RevisionOf(q.on)}
  /\ UNCHANGED <<approvals, launches>>

Approve(q) ==
  /\ approvals' = approvals \cup {RevisionOf(q.on)}
  /\ UNCHANGED <<campaigns, frozen, launches>>

\* The execution is of the current revision and of its snapshot.
Launched(r) == [r EXCEPT !.state = "launched", !.version = @ + 1]

Launch(q, byWizard) ==
  /\ campaigns' = [campaigns EXCEPT ![q.on] = Launched(@)]
  /\ launches' = launches \cup
       {[on |-> q.on, revision |-> campaigns[q.on].revision,
         audience |-> f.audience, wizard |-> byWizard] : f \in Snapshots(q.on)}
  /\ UNCHANGED <<approvals, frozen>>

Handle(q, byWizard) ==
  \/ q.op = "update" /\ Update(q)
  \/ q.op = "import" /\ Import(q)
  \/ q.op = "validate" /\ Validate(q)
  \/ q.op = "approve" /\ Approve(q)
  \/ q.op = "launch" /\ Launch(q, byWizard)

-----------------------------------------------------------------------------
(* The wizard *)

Waits == wizard.at \in Operation

\* What the form sends: nobody until the sheet is imported.
FormAudiences ==
  IF wizard.sheet # NoSheet THEN {"nobody"}
  ELSE {"all"} \cup IF wizard.on = NoCampaign THEN {} ELSE {wizard.view.row.audience}

Asks(w, op, audience) ==
  [op |-> op, on |-> w.on, audience |-> audience, version |-> w.view.row.version,
   sheet |-> w.sheet, try |-> tries]

\* submitBroadcast: the save.
Submit ==
  /\ wizard.at = "form" /\ tries < MaxTries
  /\ tries' = tries + 1
  /\ \E audience \in FormAudiences :
       LET op == IF wizard.on = NoCampaign THEN "create" ELSE "update"
       IN /\ sent' = sent \cup {[Asks(wizard, op, audience) EXCEPT !.try = tries']}
          /\ wizard' = [wizard EXCEPT !.at = op, !.imported = FALSE, !.refusal = ""]
  /\ UNCHANGED tables

\* The operator picks a sheet or removes it.
ChangeSheet ==
  /\ wizard.at = "form"
  /\ \E s \in (Sheet \cup {NoSheet}) \ {wizard.sheet} :
       wizard' = [wizard EXCEPT !.sheet = s, !.refusal = ""]
  /\ UNCHANGED <<tables, sent, tries>>

\* The step after the one answered, by what the answer says of the campaign.
NextStep(w) ==
  CASE w.sheet # NoSheet /\ ~w.imported -> "import"
    [] w.at = "import" -> "update"
    [] w.view.row.state = "draft" -> "validate"
    [] w.view.row.state = "ready" /\ ~w.view.approved -> "approve"
    [] w.view.row.state = "ready" -> "launch"
    [] OTHER -> "done"

\* Saved is enough in the mode `draft`, and where a permission is missing.
MayFinish(w) == w.at # "import" /\ (w.sheet = NoSheet \/ w.imported)

\* The answer is taken and the next step asked for, in one turn.
Proceed(w, q) ==
  \E step \in {NextStep(w)} \cup IF MayFinish(w) THEN {"done"} ELSE {} :
    /\ wizard' = [w EXCEPT !.at = step]
    /\ sent' = (sent \ {q}) \cup
         IF step = "done" THEN {}
         ELSE {Asks(w, step, IF step = "update" THEN w.sheet ELSE w.view.row.audience)}

\* Slip: the wizard reopens on no campaign.
Forgotten(w) == NoCampaign

\* stop: the wizard reopens on the campaign the steps before saved.
Kept(w) == w.on

\* After the first save that is the dialog as it was; after a later step the
\* campaigns are listed again first.
Stopped(w, refusal) ==
  IF w.at \in {"create", "update"} /\ ~w.imported
  THEN [w EXCEPT !.at = "form", !.refusal = refusal]
  ELSE [w EXCEPT !.at = "stopped", !.refusal = refusal, !.on = Kept(w)]

\* What an answer says of campaign c; that to an import says nothing.
Answered(c) ==
  IF wizard.at = "import" THEN [wizard EXCEPT !.imported = TRUE]
  ELSE [wizard EXCEPT !.on = c,
          !.view = [row |-> campaigns[c], approved |-> Approved(c)]']

\* The wizard is there for the answer, or its connection dropped before.
Awaited(q) == Waits /\ q.try = tries

Accepted(q, c) ==
  IF Awaited(q) THEN Proceed(Answered(c), q)
  ELSE sent' = sent \ {q} /\ UNCHANGED wizard

Serve(q) ==
  /\ \/ q.op = "create" /\ \E c \in Unused : Create(c, q.audience) /\ Accepted(q, c)
     \/ q.op # "create" /\ Refusal(q) = "" /\ Handle(q, TRUE) /\ Accepted(q, q.on)
     \/ /\ q.op # "create" /\ Refusal(q) # ""
        /\ wizard' = IF Awaited(q) THEN Stopped(wizard, Refusal(q)) ELSE wizard
        /\ sent' = sent \ {q} /\ UNCHANGED tables
  /\ UNCHANGED tries

\* The connection drops; what was sent may arrive late or never.
Drop ==
  /\ Waits
  /\ wizard' = Stopped(wizard, "network")
  /\ UNCHANGED <<tables, sent, tries>>

\* loadCampaignsScreen; until then the dialog offers nothing but to close
\* (broadcastWizard).
Reload ==
  /\ wizard.at = "stopped"
  /\ wizard' = [wizard EXCEPT !.at = "form", !.view =
       IF wizard.on = NoCampaign THEN NoView
       ELSE [row |-> campaigns[wizard.on], approved |-> Approved(wizard.on)]]
  /\ UNCHANGED <<tables, sent, tries>>

-----------------------------------------------------------------------------
(* Colleagues, whose screens are fresh: a stale one is refused *)

ColleagueAsks(c) ==
  [op : Operation \ {"create"}, on : {c}, audience : Audience,
   version : {campaigns[c].version}, sheet : Sheet]

Colleague ==
  /\ \E c \in Shared :
       /\ campaigns[c].state # "none" /\ campaigns[c].version < MaxVersion
       /\ \E q \in ColleagueAsks(c) : Refusal(q) = "" /\ Handle(q, FALSE)
  /\ UNCHANGED <<wizard, sent, tries>>

\* clone: the definition, and nothing that was decided or imported.
Clone ==
  /\ \E c \in Shared, d \in Unused :
       /\ campaigns[c].state # "none"
       /\ Create(d, campaigns[c].audience)
  /\ UNCHANGED <<wizard, sent, tries>>

DraftingNext ==
  \/ Submit \/ ChangeSheet \/ (\E q \in sent : Serve(q)) \/ Drop \/ Reload
  \/ Colleague \/ Clone

DraftingSpec == DraftingInit /\ [][DraftingNext]_draftVars

-----------------------------------------------------------------------------
(* Properties *)

\* What is launched was approved: the very revision an execution is of, with
\* the audience that was frozen for it, and where a sheet was imported nobody
\* but the people of the sheet, however edits, imports, approvals and late
\* requests interleave (launch, requireImportedAudience).
LaunchedAsApproved ==
  \A l \in launches :
    /\ [on |-> l.on, revision |-> l.revision, audience |-> l.audience] \in approvals
    /\ campaigns[l.on].sheet \in {NoSheet, l.audience}

\* "nothing is sent twice by a retry" (submitBroadcast): whatever answers the
\* wizard misses, its session launches one broadcast, though it may have left
\* a draft behind.
NothingSentTwice == Cardinality({l \in launches : l.wizard}) <= 1

\* "trying again edits that campaign" (stop): the wizard is not refused as
\* addressing people outside the sheet of its campaign when that sheet is the
\* one it holds.
RetryEditsIt ==
  wizard.refusal = "imported_audience_mismatch" =>
    campaigns[wizard.on].sheet # wizard.sheet
=============================================================================
