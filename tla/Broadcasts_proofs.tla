------------------------- MODULE Broadcasts_proofs -------------------------
(***************************************************************************)
(* Broadcasts before their launch and after it: what the wizard, its       *)
(* colleagues and lost answers keep of a draft, and what drains, sweeps    *)
(* and answers keep of the receipts that come back, for any number of      *)
(* each.                                                                   *)
(*                                                                         *)
(* Drafts: the first half of the invariant is about the tables: a snapshot *)
(* of the current revision has its audience, and what passed validation    *)
(* stays within its sheet.  The second is about the wizard: whatever it    *)
(* still asks for is about the one campaign it knows.                      *)
(*                                                                         *)
(* Receipts: whatever is believed of a message, in its row, in a reading   *)
(* that a sweep still holds and in its recipient, was said of it; and      *)
(* nothing is believed before its provider id is known.                    *)
(***************************************************************************)
EXTENDS Drafting, Receipts, FiniteSetTheorems, WellFoundedInduction, TLAPS

Decided == [on : Campaign, revision : Nat, audience : Audience]
Execution == [on : Campaign, revision : Nat, audience : Audience, wizard : BOOLEAN]

TablesTyped ==
  /\ campaigns \in [Campaign -> CampaignRow]
  /\ approvals \subseteq Decided
  /\ frozen \subseteq Decided
  /\ launches \subseteq Execution

\* A snapshot is of a revision up to the current one, and of its audience.
FrozenIsCurrent == \A f \in frozen :
  /\ f.revision <= campaigns[f.on].revision
  /\ f.revision = campaigns[f.on].revision => f.audience = campaigns[f.on].audience

\* What passed validation addresses nobody outside the sheet.
WithinSheet(r) ==
  r.state \in {"ready", "launched"} => r.sheet \in {NoSheet, r.audience}
ReadyIsWithin == \A c \in Campaign : WithinSheet(campaigns[c])

\* A campaign is launched once, and nothing about it changes then.
LaunchIsOver ==
  /\ \A l \in launches : campaigns[l.on].state = "launched"
  /\ \A l, m \in launches : l.on = m.on => l = m

UnusedIsBlank == \A c \in Campaign : campaigns[c].state = "none" => campaigns[c].revision = 0

TablesInv ==
  /\ TablesTyped /\ FrozenIsCurrent /\ ReadyIsWithin /\ LaunchIsOver /\ UnusedIsBlank
  /\ LaunchedAsApproved

-----------------------------------------------------------------------------
(* Rows *)

\* What a handler may make of a row.
Follows(s, r) ==
  /\ s \in CampaignRow /\ s.state # "none"
  /\ WithinSheet(s)
  /\ \/ s.revision = r.revision /\ s.audience = r.audience
     \/ s.revision = r.revision + 1 /\ r.state # "launched"
  /\ r.state = "launched" => s.state = "launched" /\ s.sheet = r.sheet

LEMMA RowTypes ==
  ASSUME NEW r \in CampaignRow
  PROVE  /\ r.revision \in Nat /\ r.version \in Nat /\ r.audience \in Audience
         /\ r.sheet \in Sheet \cup {NoSheet}
         /\ r.state \in {"none", "draft", "ready", "launched"}
BY DEF CampaignRow

LEMMA RevisedFollows ==
  ASSUME NEW r \in CampaignRow, NEW audience \in Audience,
         r.state \in {"draft", "ready"}, WithinSheet(r)
  PROVE  Follows(Revised(r, audience), r)
<1>1. r.version + 1 \in Nat /\ r.revision + 1 \in Nat
  BY DEF CampaignRow
<1>2. CASE audience = r.audience
  BY <1>1, <1>2 DEF Revised, CampaignRow, Follows, WithinSheet
<1>3. CASE audience # r.audience
  BY <1>1, <1>3 DEF Revised, CampaignRow, Follows, WithinSheet
<1>4. QED BY <1>2, <1>3

LEMMA SheetFollows ==
  ASSUME NEW r \in CampaignRow, NEW sheet \in Sheet \cup {NoSheet}, r.state = "draft"
  PROVE  Follows(WithSheet(r, sheet), r)
BY DEF WithSheet, CampaignRow, Follows, WithinSheet

LEMMA ReadiedFollows ==
  ASSUME NEW r \in CampaignRow, r.state = "draft", r.sheet \in {NoSheet, r.audience}
  PROVE  /\ Follows(Readied(r), r)
         /\ Readied(r).revision = r.revision /\ Readied(r).audience = r.audience
<1>1. r.version + 2 \in Nat
  BY DEF CampaignRow
<1>2. QED BY <1>1 DEF Readied, CampaignRow, Follows, WithinSheet

LEMMA LaunchedFollows ==
  ASSUME NEW r \in CampaignRow, r.state = "ready", WithinSheet(r)
  PROVE  /\ Follows(Launched(r), r) /\ Launched(r).state = "launched"
         /\ Launched(r).revision = r.revision /\ Launched(r).audience = r.audience
<1>1. r.version + 1 \in Nat
  BY DEF CampaignRow
<1>2. QED BY <1>1 DEF Launched, CampaignRow, Follows, WithinSheet

LEMMA CreatedFollows ==
  ASSUME DraftingAssumption, NEW audience \in Audience, NEW s,
         s = [NoRow EXCEPT !.state = "draft", !.version = 1, !.revision = 1,
                           !.audience = audience]
  PROVE  s \in CampaignRow /\ s.state = "draft" /\ s.revision = 1 /\ s.sheet = NoSheet
BY DEF NoRow, CampaignRow, Audience

-----------------------------------------------------------------------------
(* Tables *)

\* The execution that a launch makes of a row.
ExecutionOf(c, r, w) ==
  [on |-> c, revision |-> r.revision, audience |-> r.audience, wizard |-> w]

\* One row moves; a snapshot, if any, is of it, and so is an execution, if any,
\* which was approved.
RowMoves(c, s, w) ==
  /\ campaigns' = [campaigns EXCEPT ![c] = s]
  /\ Follows(s, campaigns[c])
  /\ approvals \subseteq approvals' /\ approvals' \subseteq Decided
  /\ \A f \in frozen' : \/ f \in frozen
                        \/ f = [on |-> c, revision |-> s.revision, audience |-> s.audience]
  /\ \A l \in launches' :
       \/ l \in launches
       \/ /\ l = ExecutionOf(c, s, w)
          /\ s.state = "launched" /\ campaigns[c].state # "launched"
          /\ [on |-> c, revision |-> s.revision, audience |-> s.audience] \in approvals

LEMMA TablesFollow ==
  ASSUME TablesInv, NEW c \in Campaign, NEW s, NEW w \in BOOLEAN, RowMoves(c, s, w)
  PROVE  TablesInv'
<1> DEFINE r == campaigns[c]
           d == [on |-> c, revision |-> s.revision, audience |-> s.audience]
           e == ExecutionOf(c, s, w)
<1>1. r \in CampaignRow /\ s \in CampaignRow
  BY DEF TablesInv, TablesTyped, RowMoves, Follows
<1>2. /\ campaigns' \in [Campaign -> CampaignRow] /\ campaigns'[c] = s
      /\ \A x \in Campaign \ {c} : campaigns'[x] = campaigns[x]
  BY <1>1 DEF TablesInv, TablesTyped, RowMoves
<1>3. d \in Decided /\ d.on = c /\ d.revision = s.revision /\ d.audience = s.audience
  BY <1>1, RowTypes DEF Decided
<1>4. e \in Execution /\ e.on = c /\ e.revision = s.revision /\ e.audience = s.audience
  BY <1>1, RowTypes DEF Execution, ExecutionOf
<1>5. /\ \A f \in frozen' : f \in frozen \/ f = d
      /\ approvals \subseteq approvals' /\ approvals' \subseteq Decided
      /\ \A l \in launches' :
           \/ l \in launches
           \/ l = e /\ s.state = "launched" /\ r.state # "launched" /\ d \in approvals
  BY DEF RowMoves
<1>6. /\ s.state # "none" /\ WithinSheet(s)
      /\ \/ s.revision = r.revision /\ s.audience = r.audience
         \/ s.revision = r.revision + 1 /\ r.state # "launched"
      /\ r.state = "launched" => s.state = "launched" /\ s.sheet = r.sheet
  BY DEF RowMoves, Follows
<1>7. r.revision \in Nat /\ s.revision \in Nat
  BY <1>1, RowTypes
<1> HIDE DEF d, e, r
<1>8. TablesTyped'
  BY <1>2, <1>3, <1>4, <1>5 DEF TablesInv, TablesTyped
<1>9. \A f \in frozen : f.on \in Campaign /\ f.revision \in Nat
  BY DEF TablesInv, TablesTyped, Decided
<1>10. \A l \in launches : l.on \in Campaign
  BY DEF TablesInv, TablesTyped, Execution
<1>11. FrozenIsCurrent'
  BY <1>2, <1>3, <1>5, <1>6, <1>7, <1>9 DEF TablesInv, FrozenIsCurrent, r
<1>12. ReadyIsWithin' /\ UnusedIsBlank'
  BY <1>2, <1>6 DEF TablesInv, ReadyIsWithin, UnusedIsBlank
<1>13. LaunchIsOver'
  BY <1>2, <1>4, <1>5, <1>6, <1>10 DEF TablesInv, LaunchIsOver, r
<1>14. LaunchedAsApproved'
  <2> SUFFICES ASSUME NEW l \in launches'
               PROVE  /\ [on |-> l.on, revision |-> l.revision, audience |-> l.audience] \in approvals'
                      /\ campaigns'[l.on].sheet \in {NoSheet, l.audience}
    BY DEF LaunchedAsApproved
  <2>1. CASE l \in launches
    BY <2>1, <1>2, <1>5, <1>6, <1>10 DEF TablesInv, LaunchedAsApproved, LaunchIsOver, r
  <2>2. CASE l = e /\ s.state = "launched" /\ d \in approvals
    <3>1. d = [on |-> l.on, revision |-> l.revision, audience |-> l.audience]
      BY <2>2, <1>4 DEF d
    <3>2. QED BY <3>1, <2>2, <1>2, <1>4, <1>5, <1>6 DEF WithinSheet
  <2>3. QED BY <2>1, <2>2, <1>5
<1>15. QED BY <1>8, <1>11, <1>12, <1>13, <1>14 DEF TablesInv

\* Nothing of it moves.
LEMMA TablesRest ==
  ASSUME TablesInv, UNCHANGED tables
  PROVE  TablesInv'
BY DEF tables, TablesInv, TablesTyped, FrozenIsCurrent, ReadyIsWithin, WithinSheet, LaunchIsOver,
   UnusedIsBlank, LaunchedAsApproved

-----------------------------------------------------------------------------
(* Handlers *)

\* What a handler that goes on has not refused.
LEMMA Unrefused ==
  ASSUME NEW q, Refusal(q) = ""
  PROVE  /\ q.op = "update" => campaigns[q.on].state # "launched" /\ ~Mismatched(q.on, q.audience)
         /\ q.op = "import" => campaigns[q.on].state = "draft"
         /\ q.op = "validate" => /\ campaigns[q.on].state = "draft"
                                 /\ ~Mismatched(q.on, campaigns[q.on].audience)
         /\ q.op = "launch" => Approved(q.on) /\ campaigns[q.on].state = "ready"
BY DEF Refusal, UpdateRefusal, ImportRefusal, ValidateRefusal, LaunchRefusal, LaunchApproved

LEMMA HandleMoves ==
  ASSUME TablesInv, NEW q, q.on \in Campaign, q.audience \in Audience,
         q.sheet \in Sheet \cup {NoSheet}, campaigns[q.on].state # "none", Refusal(q) = "",
         NEW w \in BOOLEAN, Handle(q, w)
  PROVE  \E s : RowMoves(q.on, s, w)
<1> DEFINE r == campaigns[q.on]
<1>1. r \in CampaignRow
  BY DEF TablesInv, TablesTyped
<1>2. WithinSheet(r)
  BY DEF TablesInv, ReadyIsWithin
<1>3. approvals \subseteq Decided
  BY DEF TablesInv, TablesTyped
<1>4. r.state \in {"draft", "ready", "launched"}
  BY <1>1, RowTypes
<1>5. CASE q.op = "update" /\ Update(q)
  <2>1. r.state # "launched" /\ r.sheet \in {NoSheet, q.audience}
    BY <1>5, Unrefused DEF Mismatched
  <2>2. Follows(Revised(r, q.audience), r)
    BY <1>1, <1>2, <1>4, <2>1, RevisedFollows
  <2>3. RowMoves(q.on, Revised(r, q.audience), w)
    BY <1>3, <1>5, <2>2 DEF Update, RowMoves
  <2>4. QED BY <2>3
<1>6. CASE q.op = "import" /\ Import(q)
  <2>1. r.state = "draft"
    BY <1>6, Unrefused
  <2>2. Follows(WithSheet(r, q.sheet), r)
    BY <1>1, <2>1, SheetFollows
  <2>3. RowMoves(q.on, WithSheet(r, q.sheet), w)
    BY <1>3, <1>6, <2>2 DEF Import, RowMoves
  <2>4. QED BY <2>3
<1>7. CASE q.op = "validate" /\ Validate(q)
  <2>1. r.state = "draft" /\ r.sheet \in {NoSheet, r.audience}
    BY <1>7, Unrefused DEF Mismatched
  <2>2. /\ Follows(Readied(r), r)
        /\ Readied(r).revision = r.revision /\ Readied(r).audience = r.audience
    BY <1>1, <2>1, ReadiedFollows
  <2>3. RowMoves(q.on, Readied(r), w)
    BY <1>3, <1>7, <2>2 DEF Validate, RevisionOf, RowMoves
  <2>4. QED BY <2>3
<1>8. CASE q.op = "approve" /\ Approve(q)
  <2>1. RevisionOf(q.on) \in Decided
    BY <1>1, RowTypes DEF RevisionOf, Decided
  <2>2. Follows(r, r)
    BY <1>1, <1>2, <1>4 DEF Follows
  <2>3. campaigns' = [campaigns EXCEPT ![q.on] = r]
    BY <1>8 DEF Approve, TablesInv, TablesTyped
  <2>4. RowMoves(q.on, r, w)
    BY <1>3, <1>8, <2>1, <2>2, <2>3 DEF Approve, RowMoves
  <2>5. QED BY <2>4
<1>9. CASE q.op = "launch" /\ Launch(q, w)
  <2>1. r.state = "ready" /\ RevisionOf(q.on) \in approvals
    BY <1>9, Unrefused DEF Approved
  <2>2. /\ Follows(Launched(r), r) /\ Launched(r).state = "launched"
        /\ Launched(r).revision = r.revision /\ Launched(r).audience = r.audience
    BY <1>1, <1>2, <2>1, LaunchedFollows
  <2>3. \A f \in Snapshots(q.on) : f.audience = r.audience
    BY DEF Snapshots, TablesInv, FrozenIsCurrent
  <2>4. \A l \in launches' : l \in launches \/ l = ExecutionOf(q.on, Launched(r), w)
    BY <1>9, <2>2, <2>3 DEF Launch, ExecutionOf
  <2>5. RowMoves(q.on, Launched(r), w)
    BY <1>3, <1>9, <2>1, <2>2, <2>4 DEF Launch, RevisionOf, RowMoves
  <2>6. QED BY <2>5
<1>10. QED BY <1>5, <1>6, <1>7, <1>8, <1>9 DEF Handle

LEMMA CreateMoves ==
  ASSUME DraftingAssumption, TablesInv, NEW c \in Unused, NEW audience \in Audience,
         Create(c, audience), NEW w \in BOOLEAN
  PROVE  \E s : RowMoves(c, s, w)
<1>1. PICK s : /\ s = [NoRow EXCEPT !.state = "draft", !.version = 1, !.revision = 1,
                                    !.audience = audience]
               /\ campaigns' = [campaigns EXCEPT ![c] = s]
  BY DEF Create
<1>2. s \in CampaignRow /\ s.state = "draft" /\ s.revision = 1 /\ s.sheet = NoSheet
  BY <1>1, CreatedFollows
<1>3. c \in Campaign /\ campaigns[c].state = "none" /\ campaigns[c].revision = 0
  BY DEF Unused, TablesInv, UnusedIsBlank
<1>4. Follows(s, campaigns[c])
  BY <1>2, <1>3 DEF Follows, WithinSheet
<1>5. approvals \subseteq Decided
  BY DEF TablesInv, TablesTyped
<1>6. RowMoves(c, s, w)
  BY <1>1, <1>4, <1>5 DEF Create, RowMoves
<1>7. QED BY <1>6

-----------------------------------------------------------------------------
(* The wizard *)

WizardTyped == wizard \in Wizard /\ sent \subseteq WizardRequest /\ tries \in Nat

\* The campaign the wizard knows is there, and all it asks for, and all it
\* launched, is about that one.
AsksForItsOwn ==
  /\ wizard.on \in Campaign => campaigns[wizard.on].state # "none"
  /\ \A q \in sent : q.op # "create" => q.on = wizard.on /\ q.on \in Campaign
  /\ \A l \in launches : l.wizard => l.on = wizard.on

\* A confirmation asks for one campaign at most, and for none where the wizard
\* has one already.
CreatesOnce ==
  /\ \A q \in sent : q.try <= tries
  /\ \A p, q \in sent :
       /\ p.op = "create" /\ p.try = tries
       /\ q.op = "create" /\ q.try = tries
       => p = q /\ wizard.on = NoCampaign

ImportsASheet == wizard.at = "import" => wizard.sheet # NoSheet /\ wizard.on \in Campaign

WizardInv == WizardTyped /\ AsksForItsOwn /\ CreatesOnce /\ ImportsASheet

DraftingInv == TablesInv /\ WizardInv

LEMMA WizardTypes ==
  ASSUME NEW w \in Wizard
  PROVE  /\ w.at \in {"form", "stopped", "done"} \cup Operation
         /\ w.on \in Campaign \cup {NoCampaign}
         /\ w.view.row \in CampaignRow /\ w.view.row.version \in Nat
         /\ w.view.row.audience \in Audience
         /\ w.sheet \in Sheet \cup {NoSheet}
<1>1. w.view \in [row : CampaignRow, approved : BOOLEAN]
  BY DEF Wizard
<1>2. w.view.row \in CampaignRow
  BY <1>1
<1>3. QED BY <1>2, RowTypes DEF Wizard

LEMMA RefusalHasCode ==
  ASSUME NEW q, q.op \in Operation
  PROVE  Refusal(q) \in Refused
<1>1. UpdateRefusal(q) \in Refused
  BY DEF UpdateRefusal, Refused
<1>2. ImportRefusal(q) \in Refused
  BY DEF ImportRefusal, Refused
<1>3. ValidateRefusal(q) \in Refused
  BY DEF ValidateRefusal, Refused
<1>4. ApproveRefusal(q) \in Refused
  BY DEF ApproveRefusal, Refused
<1>5. LaunchRefusal(q) \in Refused
  BY DEF LaunchRefusal, Refused
<1>6. "" \in Refused
  BY DEF Refused
<1>7. Refusal(q) \in {"", UpdateRefusal(q), ImportRefusal(q), ValidateRefusal(q), ApproveRefusal(q),
                     LaunchRefusal(q)}
  BY DEF Operation, Refusal
<1>8. QED BY <1>1, <1>2, <1>3, <1>4, <1>5, <1>6, <1>7

LEMMA StoppedDialog ==
  ASSUME NEW w \in Wizard, NEW refusal \in Refused
  PROVE  /\ Stopped(w, refusal) \in Wizard /\ Stopped(w, refusal).on = w.on
         /\ Stopped(w, refusal).at \in {"form", "stopped"}
BY DEF Stopped, Kept, Wizard

LEMMA AskedRequest ==
  ASSUME NEW w \in Wizard, NEW op \in Operation, NEW audience \in Audience, tries \in Nat
  PROVE  /\ Asks(w, op, audience) \in WizardRequest
         /\ Asks(w, op, audience).op = op /\ Asks(w, op, audience).on = w.on
         /\ Asks(w, op, audience).try = tries
BY WizardTypes DEF Asks, WizardRequest

LEMMA NextStepIs ==
  ASSUME NEW w
  PROVE  /\ NextStep(w) \in {"import", "update", "validate", "approve", "launch", "done"}
         /\ NextStep(w) = "import" => w.sheet # NoSheet
         /\ NextStep(w) = "update" => w.at = "import"
BY DEF NextStep

\* The wizard that goes on asks about the campaign it knows.
LEMMA ProceedStep ==
  ASSUME DraftingAssumption, NEW w \in Wizard, NEW q, tries \in Nat,
         w.at = "import" => w.sheet # NoSheet, Proceed(w, q)
  PROVE  /\ wizard' \in Wizard /\ wizard'.on = w.on
         /\ wizard'.at = "import" => wizard'.sheet # NoSheet
         /\ \A p \in sent' :
              \/ p \in sent \ {q}
              \/ p \in WizardRequest /\ p.op # "create" /\ p.on = w.on /\ p.try = tries
<1>1. PICK step \in {NextStep(w)} \cup IF MayFinish(w) THEN {"done"} ELSE {} :
        /\ wizard' = [w EXCEPT !.at = step]
        /\ sent' = (sent \ {q}) \cup
             IF step = "done" THEN {}
             ELSE {Asks(w, step, IF step = "update" THEN w.sheet ELSE w.view.row.audience)}
  BY DEF Proceed
<1>2. /\ step \in {"import", "update", "validate", "approve", "launch", "done"}
      /\ step = "import" => w.sheet # NoSheet
      /\ step = "update" => w.at = "import"
  BY <1>1, NextStepIs
<1>3. step \in {"done"} \cup Operation
  BY <1>2 DEF Operation
<1>4. wizard' \in Wizard /\ wizard'.on = w.on /\ wizard'.at = step /\ wizard'.sheet = w.sheet
  BY <1>1, <1>3 DEF Wizard
<1> DEFINE audience == IF step = "update" THEN w.sheet ELSE w.view.row.audience
<1>5. audience \in Audience
  BY <1>2, WizardTypes DEF Audience
<1> HIDE DEF audience
<1>6. CASE step = "done"
  BY <1>1, <1>2, <1>4, <1>6
<1>7. CASE step # "done"
  <2>1. step \in Operation /\ step # "create"
    BY <1>2, <1>7 DEF Operation
  <2>2. sent' = (sent \ {q}) \cup {Asks(w, step, audience)}
    BY <1>1, <1>7 DEF audience
  <2>3. QED BY <1>2, <1>4, <1>5, <2>1, <2>2, AskedRequest
<1>8. QED BY <1>6, <1>7

LEMMA AnsweredDialog ==
  ASSUME NEW c \in Campaign, wizard \in Wizard, TablesInv'
  PROVE  /\ Answered(c) \in Wizard /\ Answered(c).at = wizard.at
         /\ Answered(c).sheet = wizard.sheet
         /\ Answered(c).on = IF wizard.at = "import" THEN wizard.on ELSE c
<1>1. campaigns'[c] \in CampaignRow
  BY DEF TablesInv, TablesTyped
<1>2. Approved(c)' \in BOOLEAN
  BY DEF Approved
<1> DEFINE v == [row |-> campaigns[c], approved |-> Approved(c)]'
<1>3. v \in [row : CampaignRow, approved : BOOLEAN]
  BY <1>1, <1>2
<1>4. Answered(c) = IF wizard.at = "import" THEN [wizard EXCEPT !.imported = TRUE]
                    ELSE [wizard EXCEPT !.on = c, !.view = v]
  BY DEF Answered
<1> HIDE DEF v
<1>5. QED BY ZenonT(30), <1>3, <1>4 DEF Wizard

-----------------------------------------------------------------------------
(* Steps *)

\* What the tables tell the wizard when they move: its campaign stays, and new
\* executions are of that row and this caller.
LEMMA MovesTell ==
  ASSUME TablesInv, NEW c \in Campaign, NEW s, NEW w \in BOOLEAN, RowMoves(c, s, w)
  PROVE  /\ campaigns'[c].state # "none"
         /\ \A d \in Campaign : campaigns[d].state # "none" => campaigns'[d].state # "none"
         /\ \A l \in launches' : l \in launches \/ (l.on = c /\ l.wizard = w)
<1>1. /\ campaigns \in [Campaign -> CampaignRow] /\ s.state # "none"
      /\ campaigns' = [campaigns EXCEPT ![c] = s]
  BY DEF TablesInv, TablesTyped, RowMoves, Follows
<1>2. \A l \in launches' : l \in launches \/ l = ExecutionOf(c, s, w)
  BY DEF RowMoves
<1>3. ExecutionOf(c, s, w).on = c /\ ExecutionOf(c, s, w).wizard = w
  BY DEF ExecutionOf
<1>4. \A d \in Campaign : campaigns'[d] = IF d = c THEN s ELSE campaigns[d]
  BY <1>1
<1>5. \A l \in launches' : l \in launches \/ (l.on = c /\ l.wizard = w)
  BY <1>2, <1>3
<1>6. campaigns'[c].state # "none"
  BY <1>1, <1>4
<1>7. \A d \in Campaign : campaigns[d].state # "none" => campaigns'[d].state # "none"
  BY <1>1, <1>4
<1>8. QED BY <1>5, <1>6, <1>7

\* The dialog stays on its campaign, and asks for nothing new.
LEMMA DialogRests ==
  ASSUME DraftingInv, wizard' \in Wizard, wizard'.on = wizard.on,
         wizard'.at = "import" => wizard'.sheet # NoSheet /\ wizard'.on \in Campaign,
         sent' \subseteq sent, tries' = tries,
         \A d \in Campaign : campaigns[d].state # "none" => campaigns'[d].state # "none",
         \A l \in launches' : l \in launches \/ (l.wizard => l.on = wizard.on)
  PROVE  WizardInv'
<1>1. WizardTyped'
  BY DEF DraftingInv, WizardInv, WizardTyped
<1>2. AsksForItsOwn'
  BY DEF DraftingInv, WizardInv, AsksForItsOwn
<1>3. CreatesOnce'
  BY DEF DraftingInv, WizardInv, CreatesOnce
<1>4. ImportsASheet'
  BY DEF ImportsASheet
<1>5. QED BY <1>1, <1>2, <1>3, <1>4 DEF WizardInv

LEMMA SubmitStep ==
  ASSUME DraftingAssumption, DraftingInv, Submit
  PROVE  DraftingInv'
<1>1. PICK audience \in FormAudiences :
        LET op == IF wizard.on = NoCampaign THEN "create" ELSE "update"
        IN /\ sent' = sent \cup {[Asks(wizard, op, audience) EXCEPT !.try = tries']}
           /\ wizard' = [wizard EXCEPT !.at = op, !.imported = FALSE, !.refusal = ""]
  BY DEF Submit
<1> DEFINE op == IF wizard.on = NoCampaign THEN "create" ELSE "update"
           q == [Asks(wizard, op, audience) EXCEPT !.try = tries']
<1>2. sent' = sent \cup {q} /\ wizard' = [wizard EXCEPT !.at = op, !.imported = FALSE, !.refusal = ""]
  BY <1>1
<1>3. /\ wizard \in Wizard /\ sent \subseteq WizardRequest /\ tries \in Nat
      /\ tries' = tries + 1 /\ tries' \in Nat /\ UNCHANGED tables
  BY DEF DraftingInv, WizardInv, WizardTyped, Submit
<1>4. op \in Operation /\ op # "import" /\ (op = "create" <=> wizard.on = NoCampaign)
  BY DEF Operation
<1>5. audience \in Audience
  BY <1>3, WizardTypes DEF FormAudiences, Audience
<1> HIDE DEF op
<1>6. q \in WizardRequest /\ q.op = op /\ q.on = wizard.on /\ q.try = tries'
  BY <1>3, <1>4, <1>5, AskedRequest DEF WizardRequest
<1> HIDE DEF q
<1>7. wizard' \in Wizard /\ wizard'.on = wizard.on /\ wizard'.at = op
  BY <1>2, <1>3, <1>4 DEF Wizard, Refused
<1>8. UNCHANGED <<campaigns, launches>>
  BY <1>3 DEF tables
<1>9. WizardTyped'
  BY <1>2, <1>3, <1>6, <1>7 DEF WizardTyped
<1>10. wizard.on \in Campaign \cup {NoCampaign}
  BY <1>3, WizardTypes
<1>11. AsksForItsOwn'
  BY <1>2, <1>4, <1>6, <1>7, <1>8, <1>10 DEF AsksForItsOwn, DraftingInv, WizardInv
<1>12. \A p \in sent : p.try \in Nat /\ p.try <= tries
  BY <1>3 DEF DraftingInv, WizardInv, CreatesOnce, WizardRequest
<1>13. CreatesOnce'
  BY <1>2, <1>3, <1>4, <1>6, <1>7, <1>12 DEF CreatesOnce
<1>14. ImportsASheet'
  BY <1>4, <1>7 DEF ImportsASheet
<1>15. TablesInv'
  BY <1>3, TablesRest DEF DraftingInv
<1>16. QED BY <1>9, <1>11, <1>13, <1>14, <1>15 DEF DraftingInv, WizardInv

LEMMA DialogStep ==
  ASSUME DraftingInv, ChangeSheet \/ Drop \/ Reload
  PROVE  DraftingInv'
<1>1. /\ wizard \in Wizard /\ TablesInv /\ campaigns \in [Campaign -> CampaignRow]
      /\ UNCHANGED <<tables, sent, tries>>
  BY DEF DraftingInv, WizardInv, WizardTyped, TablesInv, TablesTyped, ChangeSheet, Drop, Reload
<1>2. UNCHANGED <<campaigns, launches>> /\ TablesInv'
  BY <1>1, TablesRest DEF tables
<1>3. wizard' \in Wizard /\ wizard'.on = wizard.on /\ wizard'.at # "import"
  <2>1. CASE ChangeSheet
    BY <2>1, <1>1 DEF ChangeSheet, Wizard, Refused
  <2>2. CASE Drop
    <3>1. wizard' = Stopped(wizard, "network")
      BY <2>2 DEF Drop
    <3>2. "network" \in Refused
      BY DEF Refused
    <3>3. QED BY <3>1, <3>2, <1>1, StoppedDialog
  <2>3. CASE Reload
    <3> DEFINE view == IF wizard.on = NoCampaign THEN NoView
                       ELSE [row |-> campaigns[wizard.on], approved |-> Approved(wizard.on)]
    <3>1. NoView \in [row : CampaignRow, approved : BOOLEAN]
      BY DEF NoView, NoRow, CampaignRow, Audience
    <3>2. Approved(wizard.on) \in BOOLEAN
      BY DEF Approved
    <3>3. wizard.on \in Campaign \cup {NoCampaign}
      BY <1>1, WizardTypes
    <3>4. view \in [row : CampaignRow, approved : BOOLEAN]
      BY <1>1, <3>1, <3>2, <3>3
    <3>5. wizard' = [wizard EXCEPT !.at = "form", !.view = view]
      BY <2>3 DEF Reload
    <3> HIDE DEF view
    <3>6. QED BY <1>1, <3>4, <3>5 DEF Wizard
  <2>4. QED BY <2>1, <2>2, <2>3
<1>4. WizardInv'
  BY <1>1, <1>2, <1>3, DialogRests
<1>5. QED BY <1>2, <1>4 DEF DraftingInv

\* The dialog takes an answer about campaign w.on, and asks for the next step.
LEMMA DialogGoesOn ==
  ASSUME DraftingAssumption, DraftingInv, NEW q, NEW w \in Wizard, w.on \in Campaign,
         w.at = "import" => w.sheet # NoSheet, Proceed(w, q), tries' = tries,
         campaigns'[w.on].state # "none",
         \A l \in launches' : l.wizard => l.on = w.on,
         \A p \in sent \ {q} : IF p.op = "create" THEN p.try # tries ELSE p.on = w.on
  PROVE  WizardInv'
<1>1. tries \in Nat /\ sent \subseteq WizardRequest /\ \A p \in sent : p.try <= tries
  BY DEF DraftingInv, WizardInv, WizardTyped, CreatesOnce
<1>2. /\ wizard' \in Wizard /\ wizard'.on = w.on
      /\ wizard'.at = "import" => wizard'.sheet # NoSheet
      /\ \A p \in sent' :
           \/ p \in sent \ {q}
           \/ p \in WizardRequest /\ p.op # "create" /\ p.on = w.on /\ p.try = tries
  BY <1>1, ProceedStep
<1>3. WizardTyped'
  BY <1>1, <1>2 DEF WizardTyped
<1>4. AsksForItsOwn'
  BY <1>2 DEF AsksForItsOwn
<1>5. CreatesOnce'
  BY <1>1, <1>2 DEF CreatesOnce
<1>6. ImportsASheet'
  BY <1>2 DEF ImportsASheet
<1>7. QED BY <1>3, <1>4, <1>5, <1>6 DEF WizardInv

LEMMA ServeStep ==
  ASSUME DraftingAssumption, DraftingInv, NEW q \in sent, Serve(q)
  PROVE  DraftingInv'
<1>1. /\ TablesInv /\ wizard \in Wizard /\ q \in WizardRequest /\ tries' = tries
      /\ NoCampaign \notin Campaign /\ \A l \in launches : l.on \in Campaign
  BY DEF DraftingInv, WizardInv, WizardTyped, Serve, DraftingAssumption, TablesInv, TablesTyped,
     Execution
<1>2. /\ q.op \in Operation /\ q.audience \in Audience /\ q.sheet \in Sheet \cup {NoSheet}
  BY <1>1 DEF WizardRequest
<1>3. AsksForItsOwn /\ CreatesOnce /\ ImportsASheet
  BY DEF DraftingInv, WizardInv
<1>4. ASSUME NEW c \in Campaign, NEW s, RowMoves(c, s, TRUE), Accepted(q, c), TablesInv',
             q.op = "create" \/ c = wizard.on,
             q.op = "create" => launches' = launches
      PROVE  WizardInv'
  <2>1. /\ campaigns'[c].state # "none"
        /\ \A d \in Campaign : campaigns[d].state # "none" => campaigns'[d].state # "none"
        /\ \A l \in launches' : l \in launches \/ (l.on = c /\ l.wizard = TRUE)
    BY <1>1, <1>4, MovesTell
  <2>2. CASE ~Awaited(q)
    <3>1. wizard' = wizard /\ sent' \subseteq sent
      BY <1>4, <2>2 DEF Accepted
    <3>2. \A l \in launches' : l \in launches \/ (l.wizard => l.on = wizard.on)
      BY <1>4, <2>1
    <3>3. QED BY <1>1, <1>3, <2>1, <3>1, <3>2, DialogRests DEF ImportsASheet
  <2>3. CASE Awaited(q)
    <3> DEFINE w == Answered(c)
    <3>1. q.try = tries /\ Proceed(w, q)
      BY <1>4, <2>3 DEF Accepted, Awaited
    <3>2. q.op = "create" => wizard.on = NoCampaign
      BY <1>3, <3>1 DEF CreatesOnce
    <3>3. wizard.at = "import" => wizard.on \in Campaign /\ wizard.sheet # NoSheet
      BY <1>3 DEF ImportsASheet
    <3>4. w \in Wizard /\ w.at = wizard.at /\ w.sheet = wizard.sheet /\ w.on = c
      BY <1>1, <1>4, <3>2, <3>3, AnsweredDialog
    <3>5. \A l \in launches' : l.wizard => l.on = c
      BY <1>1, <1>3, <1>4, <2>1, <3>2 DEF AsksForItsOwn
    <3>6. \A p \in sent \ {q} : IF p.op = "create" THEN p.try # tries ELSE p.on = c
      BY <1>1, <1>3, <1>4, <3>1, <3>2 DEF AsksForItsOwn, CreatesOnce
    <3> HIDE DEF w
    <3>7. QED BY <1>1, <1>4, <2>1, <3>1, <3>3, <3>4, <3>5, <3>6, DialogGoesOn
  <2>4. QED BY <2>2, <2>3
<1>5. CASE q.op = "create" /\ \E c \in Unused : Create(c, q.audience) /\ Accepted(q, c)
  <2>1. PICK c \in Unused : Create(c, q.audience) /\ Accepted(q, c)
    BY <1>5
  <2>2. PICK s : RowMoves(c, s, TRUE)
    BY <1>1, <1>2, <2>1, CreateMoves
  <2>3. c \in Campaign /\ launches' = launches
    BY <2>1 DEF Unused, Create
  <2>4. TablesInv'
    BY <1>1, <2>2, <2>3, TablesFollow
  <2>5. WizardInv'
    BY <1>4, <1>5, <2>1, <2>2, <2>3, <2>4
  <2>6. QED BY <2>4, <2>5 DEF DraftingInv
<1>6. CASE q.op # "create" /\ Refusal(q) = "" /\ Handle(q, TRUE) /\ Accepted(q, q.on)
  <2>1. q.on \in Campaign /\ q.on = wizard.on /\ campaigns[q.on].state # "none"
    BY <1>3, <1>6 DEF AsksForItsOwn
  <2>2. PICK s : RowMoves(q.on, s, TRUE)
    BY <1>1, <1>2, <1>6, <2>1, HandleMoves
  <2>3. TablesInv'
    BY <1>1, <2>1, <2>2, TablesFollow
  <2>4. WizardInv'
    BY <1>4, <1>6, <2>1, <2>2, <2>3
  <2>5. QED BY <2>3, <2>4 DEF DraftingInv
<1>7. CASE /\ wizard' = IF Awaited(q) THEN Stopped(wizard, Refusal(q)) ELSE wizard
           /\ sent' = sent \ {q} /\ UNCHANGED tables
  <2>1. TablesInv' /\ UNCHANGED <<campaigns, launches>>
    BY <1>1, <1>7, TablesRest DEF tables
  <2>2. /\ wizard' \in Wizard /\ wizard'.on = wizard.on
        /\ wizard'.at = "import" => wizard'.sheet # NoSheet /\ wizard'.on \in Campaign
    <3>1. CASE Awaited(q)
      <4>1. wizard' = Stopped(wizard, Refusal(q)) /\ Refusal(q) \in Refused
        BY <1>2, <1>7, <3>1, RefusalHasCode
      <4>2. QED BY <1>1, <4>1, StoppedDialog
    <3>2. CASE ~Awaited(q)
      BY <1>1, <1>3, <1>7, <3>2 DEF ImportsASheet
    <3>3. QED BY <3>1, <3>2
  <2>3. WizardInv'
    BY <1>1, <1>7, <2>1, <2>2, DialogRests
  <2>4. QED BY <2>1, <2>3 DEF DraftingInv
<1>8. QED BY <1>5, <1>6, <1>7 DEF Serve

LEMMA OthersStep ==
  ASSUME DraftingAssumption, DraftingInv, Colleague \/ Clone
  PROVE  DraftingInv'
<1>1. TablesInv /\ Shared \subseteq Campaign /\ campaigns \in [Campaign -> CampaignRow]
  BY DEF DraftingInv, DraftingAssumption, TablesInv, TablesTyped
<1>2. \E c \in Campaign : \E s : RowMoves(c, s, FALSE)
  <2>1. CASE Colleague
    <3>1. PICK c \in Shared : /\ campaigns[c].state # "none"
                              /\ \E q \in ColleagueAsks(c) : Refusal(q) = "" /\ Handle(q, FALSE)
      BY <2>1 DEF Colleague
    <3>2. PICK q \in ColleagueAsks(c) : Refusal(q) = "" /\ Handle(q, FALSE)
      BY <3>1
    <3>3. q.on = c /\ q.audience \in Audience /\ q.sheet \in Sheet \cup {NoSheet}
      BY <3>2 DEF ColleagueAsks
    <3>4. \E s : RowMoves(c, s, FALSE)
      BY <1>1, <3>1, <3>2, <3>3, HandleMoves
    <3>5. QED BY <1>1, <3>4
  <2>2. CASE Clone
    <3>1. PICK c \in Shared, d \in Unused : Create(d, campaigns[c].audience)
      BY <2>2 DEF Clone
    <3>2. campaigns[c].audience \in Audience
      BY <1>1, RowTypes
    <3>3. \E s : RowMoves(d, s, FALSE)
      BY <1>1, <3>1, <3>2, CreateMoves
    <3>4. QED BY <3>3 DEF Unused
  <2>3. QED BY <2>1, <2>2
<1> PICK c \in Campaign : \E s : RowMoves(c, s, FALSE)
  BY <1>2
<1> PICK s : RowMoves(c, s, FALSE)
  OBVIOUS
<1>3. TablesInv'
  BY <1>1, TablesFollow
<1>4. UNCHANGED <<wizard, sent, tries>>
  BY DEF Colleague, Clone
<1>5. /\ \A d \in Campaign : campaigns[d].state # "none" => campaigns'[d].state # "none"
      /\ \A l \in launches' : l \in launches \/ (l.on = c /\ l.wizard = FALSE)
  BY <1>1, MovesTell
<1>6. \A l \in launches' : l \in launches \/ (l.wizard => l.on = wizard.on)
  BY <1>5
<1>7. wizard \in Wizard /\ ImportsASheet
  BY DEF DraftingInv, WizardInv, WizardTyped
<1>8. WizardInv'
  BY <1>4, <1>5, <1>6, <1>7, DialogRests DEF ImportsASheet
<1>9. QED BY <1>3, <1>8 DEF DraftingInv

-----------------------------------------------------------------------------
(* Theorems *)

LEMMA DraftingInitOK ==
  ASSUME DraftingAssumption, DraftingInit
  PROVE  DraftingInv
<1>1. NoRow \in CampaignRow /\ NoRow.state = "none" /\ NoRow.revision = 0
  BY DEF NoRow, CampaignRow, Audience
<1>2. TablesInv
  BY <1>1 DEF DraftingInit, TablesInv, TablesTyped, FrozenIsCurrent, ReadyIsWithin, WithinSheet,
     LaunchIsOver, UnusedIsBlank, LaunchedAsApproved
<1>3. NoView \in [row : CampaignRow, approved : BOOLEAN]
  BY <1>1 DEF NoView
<1>4. PICK s \in Sheet \cup {NoSheet} :
        wizard = [at |-> "form", on |-> NoCampaign, view |-> NoView,
                  imported |-> FALSE, sheet |-> s, refusal |-> ""]
  BY DEF DraftingInit
<1>5. wizard \in Wizard /\ wizard.at = "form" /\ wizard.on = NoCampaign
  BY <1>3, <1>4 DEF Wizard, Refused
<1>6. WizardInv
  BY <1>5 DEF DraftingInit, DraftingAssumption, WizardInv, WizardTyped, AsksForItsOwn, CreatesOnce,
     ImportsASheet
<1>7. QED BY <1>2, <1>6 DEF DraftingInv

LEMMA DraftingNextOK ==
  ASSUME DraftingAssumption, DraftingInv, [DraftingNext]_draftVars
  PROVE  DraftingInv'
<1>1. CASE UNCHANGED draftVars
  <2>1. TablesInv'
    BY <1>1, TablesRest DEF DraftingInv, draftVars, tables
  <2>2. WizardInv'
    BY <1>1 DEF draftVars, DraftingInv, WizardInv, WizardTyped, AsksForItsOwn, CreatesOnce,
       ImportsASheet
  <2>3. QED BY <2>1, <2>2 DEF DraftingInv
<1>2. CASE DraftingNext
  BY <1>2, SubmitStep, DialogStep, ServeStep, OthersStep DEF DraftingNext
<1>3. QED BY <1>1, <1>2

\* Whatever is lost, late or done by colleagues, the tables and the wizard
\* agree on what was approved and what is asked for.
THEOREM DraftsKeptRight ==
  ASSUME DraftingAssumption
  PROVE  DraftingSpec => []DraftingInv
BY DraftingInitOK, DraftingNextOK, PTL DEF DraftingSpec

\* The variables have their declared types, and what is launched was approved
\* and frozen, and stays within its sheet (launch, requireImportedAudience).
THEOREM LaunchesAreApproved ==
  ASSUME DraftingAssumption
  PROVE  DraftingSpec => []DraftingTypeOK /\ []LaunchedAsApproved
<1>1. DraftingInv => DraftingTypeOK /\ LaunchedAsApproved
  BY DEF DraftingInv, TablesInv, TablesTyped, WizardInv, WizardTyped, DraftingTypeOK, Decided,
     Execution
<1>2. QED BY <1>1, DraftsKeptRight, PTL

\* A session of the wizard launches one broadcast at most, whatever answers it
\* misses (submitBroadcast, stop).
THEOREM ASessionLaunchesOnce ==
  ASSUME DraftingAssumption
  PROVE  DraftingSpec => []NothingSentTwice
<1>1. DraftingInv => NothingSentTwice
  <2> SUFFICES ASSUME DraftingInv PROVE NothingSentTwice
    OBVIOUS
  <2> DEFINE mine == {l \in launches : l.wizard}
  <2>1. \A l, m \in mine : l = m
    BY DEF DraftingInv, TablesInv, LaunchIsOver, WizardInv, AsksForItsOwn
  <2>2. CASE mine = {}
    BY <2>2, FS_EmptySet DEF NothingSentTwice
  <2>3. CASE mine # {}
    <3>1. PICK l \in mine : mine = {l}
      BY <2>1, <2>3
    <3>2. Cardinality(mine) = 1
      BY <3>1, FS_Singleton
    <3>3. QED BY <3>2 DEF NothingSentTwice
  <2>4. QED BY <2>2, <2>3
<1>2. QED BY <1>1, DraftsKeptRight, PTL

-----------------------------------------------------------------------------
(* Receipts: what folding does *)

\* The states that receipts have said of a message.
Told(m) == {state \in DeliveryState : \E e \in Receipt : Says(e, m, state)}

\* What is believed of a message was said of it.
Believes(d, said) == {d.state, d.anomaly[1], d.anomaly[2]} \subseteq said \cup {"none"}

LEMMA RankOf ==
  /\ Rank["none"] = 0 /\ Rank["sent"] = 1 /\ Rank["failed"] = 2
  /\ Rank["delivered"] = 3 /\ Rank["read"] = 4
BY DEF Rank

LEMMA RecipientRankOf ==
  /\ RecipientRank["in_flight"] = 0 /\ RecipientRank["accepted"] = 1
  /\ RecipientRank["failed"] = 2 /\ RecipientRank["delivered"] = 3
  /\ RecipientRank["read"] = 4
BY DEF RecipientRank

\* A receipt only raises what is believed, and by what it says.
LEMMA FoldRaises ==
  ASSUME NEW d \in Delivery, NEW says \in DeliveryState
  PROVE  /\ foldDelivery(d, says) \in Delivery
         /\ Rank[d.state] <= Rank[foldDelivery(d, says).state]
         /\ foldDelivery(d, says).state \in DeliveryState
         /\ \A said \in SUBSET DeliveryState :
              says \in said /\ Believes(d, said) => Believes(foldDelivery(d, says), said)
<1>1. /\ d.state \in DeliveryState \cup {"none"} /\ d.anomaly \in Anomaly
      /\ d = [state |-> d.state, anomaly |-> d.anomaly]
  BY DEF Delivery
<1>2. CASE d.state = "none"
  <2>1. foldDelivery(d, says) = [state |-> says, anomaly |-> NoAnomaly]
    BY <1>2 DEF foldDelivery
  <2> QED
    BY <1>2, <2>1, RankOf DEF Delivery, Anomaly, NoAnomaly, DeliveryState, Believes
<1>3. CASE d.state # "none" /\ Rank[says] > Rank[d.state]
  <2>1. foldDelivery(d, says) = [d EXCEPT !.state = says]
    BY <1>3 DEF foldDelivery
  <2>2. foldDelivery(d, says) = [state |-> says, anomaly |-> d.anomaly]
    BY <1>1, <2>1
  <2> QED
    BY <1>1, <1>3, <2>2, RankOf DEF Delivery, DeliveryState, Believes
<1>4. CASE d.state # "none" /\ ~(Rank[says] > Rank[d.state]) /\ says = d.state
  <2>1. foldDelivery(d, says) = d
    BY <1>4 DEF foldDelivery
  <2> QED
    BY <1>1, <1>4, <2>1, RankOf DEF DeliveryState
<1>5. CASE d.state # "none" /\ ~(Rank[says] > Rank[d.state]) /\ says # d.state
  <2>1. foldDelivery(d, says) = [d EXCEPT !.anomaly = <<says, d.state>>]
    BY <1>5 DEF foldDelivery
  <2>2. foldDelivery(d, says) = [state |-> d.state, anomaly |-> <<says, d.state>>]
    BY <1>1, <2>1
  <2>3. <<says, d.state>> \in Anomaly
    BY <1>1, <1>5 DEF Anomaly
  <2> QED
    BY <1>1, <1>5, <2>2, <2>3, RankOf DEF Delivery, DeliveryState, Believes
<1> QED
  BY <1>2, <1>3, <1>4, <1>5

\* And a recipient follows it upwards or stays.
LEMMA SettleRaises ==
  ASSUME NEW state \in RecipientState, NEW says \in DeliveryState
  PROVE  /\ settleRecipient(state, says) \in RecipientState
         /\ settleRecipient(state, says) \in {state, says}
         /\ RecipientRank[state] <= RecipientRank[settleRecipient(state, says)]
BY RecipientRankOf DEF settleRecipient, RecipientState, DeliveryState

-----------------------------------------------------------------------------
(* Receipts: the highest of a set, and folds over the stored ones *)

LEMMA Least ==
  ASSUME NEW S, S \subseteq Nat, S # {}
  PROVE  \E m \in S : \A n \in S : m <= n
<1> DEFINE R == OpToRel(<, Nat)
<1>1. IsWellFoundedOn(R, Nat)
  BY NatLessThanWellFounded
<1>2. \A i, j \in Nat : i < j => <<i, j>> \in R
  BY DEF OpToRel
<1> HIDE DEF R
<1>3. PICK m \in S : \A n \in S : ~(<<n, m>> \in R)
  BY <1>1, WFMin, Zenon
<1>4. \A n \in S : n \in Nat /\ m \in Nat /\ ~(n < m)
  BY <1>2, <1>3
<1> QED
  BY <1>4

LEMMA HighestOf ==
  ASSUME NEW n \in Nat, NEW S, S \subseteq 0..n, S # {}
  PROVE  Highest(S) \in S /\ \A i \in S : i <= Highest(S)
<1> DEFINE Below == {n - i : i \in S}
<1>1. Below \subseteq Nat /\ Below # {}
  <2>1. PICK i : i \in S
    OBVIOUS
  <2>2. n - i \in Below
    BY <2>1
  <2>3. \A k \in S : n - k \in Nat
    OBVIOUS
  <2> QED
    BY <2>2, <2>3
<1>2. PICK low \in Below : \A k \in Below : low <= k
  <2> HIDE DEF Below
  <2> QED
    BY <1>1, Least
<1>3. PICK top \in S : low = n - top
  OBVIOUS
<1>4. \A i \in S : i <= top
  <2> SUFFICES ASSUME NEW i \in S PROVE i <= top
    OBVIOUS
  <2>1. n - top <= n - i
    BY <1>2, <1>3
  <2>2. i \in 0..n /\ top \in 0..n
    OBVIOUS
  <2> QED
    BY <2>1, <2>2
<1> HIDE DEF Below
<1> QED
  BY <1>4 DEF Highest

\* What holds at the beginning and is handed on holds as far as that goes.
LEMMA HandedOn ==
  ASSUME NEW n \in Nat, NEW Good, 0 \in Good,
         \A k \in 1..n : k - 1 \in Good => k \in Good
  PROVE  0..n \subseteq Good
<1> DEFINE Bad == {k \in 0..n : k \notin Good}
<1>1. SUFFICES ASSUME Bad # {} PROVE FALSE
  OBVIOUS
<1>2. PICK k \in Bad : \A i \in Bad : k <= i
  <2>1. Bad \subseteq Nat
    OBVIOUS
  <2> HIDE DEF Bad
  <2> QED
    BY <1>1, <2>1, Least
<1>3. k \in 1..n /\ k - 1 \in 0..n /\ ~(k <= k - 1)
  OBVIOUS
<1>4. k - 1 \in Good
  BY <1>2, <1>3
<1> QED
  BY <1>3, <1>4

\* A fold in n steps over S, from its first value; there is always one.
FoldsOver(f, n, S, first, step) ==
  /\ f \in [0..n -> S] /\ f[0] = first
  /\ \A k \in 1..n : f[k] = step[<<k, f[k - 1]>>]

LEMMA Stepwise ==
  ASSUME NEW n \in Nat, NEW S, NEW first \in S, NEW step \in [(1..n) \X S -> S]
  PROVE  \E f : FoldsOver(f, n, S, first, step)
<1> DEFINE Fold(m, f) == FoldsOver(f, m, S, first, step)
           Good == {m \in 0..n : \E f : Fold(m, f)}
<1>1. 0 \in Good
  <2>1. Fold(0, [k \in 0..0 |-> first])
    BY DEF FoldsOver
  <2>2. \E f : Fold(0, f)
    BY <2>1
  <2>3. 0 \in 0..n
    OBVIOUS
  <2> HIDE DEF Fold
  <2> QED
    BY <2>2, <2>3
<1>2. ASSUME NEW m \in 1..n, m - 1 \in Good
      PROVE  m \in Good
  <2>1. PICK f : Fold(m - 1, f)
    BY <1>2
  <2>2. PICK x : x = step[<<m, f[m - 1]>>]
    OBVIOUS
  <2>3. PICK g : g = [k \in 0..m |-> IF k = m THEN x ELSE f[k]]
    OBVIOUS
  <2>4. f[m - 1] \in S /\ x \in S
    <3>1. m - 1 \in 0..m - 1
      OBVIOUS
    <3>2. f[m - 1] \in S
      BY <2>1, <3>1 DEF FoldsOver
    <3>3. <<m, f[m - 1]>> \in (1..n) \X S
      BY <3>2
    <3> QED
      BY <2>2, <3>2, <3>3
  <2>5. g \in [0..m -> S] /\ g[0] = first /\ g[m] = x /\ g[m - 1] = f[m - 1]
    BY <2>1, <2>3, <2>4 DEF FoldsOver
  <2>6. \A k \in 1..m - 1 : g[k] = step[<<k, g[k - 1]>>]
    BY <2>1, <2>3 DEF FoldsOver
  <2>7. \A k \in 1..m : g[k] = step[<<k, g[k - 1]>>]
    BY SMTT(30), <2>2, <2>5, <2>6
  <2>8. Fold(m, g)
    BY <2>5, <2>7 DEF FoldsOver
  <2> QED
    BY <2>8
<1>3. n \in Good
  <2>1. n \in 0..n
    OBVIOUS
  <2> HIDE DEF Good
  <2> QED
    BY <1>1, <1>2, <2>1, HandedOn
<1> QED
  BY <1>3

-----------------------------------------------------------------------------
(* Receipts: the two folds of the model *)

\* What is held of a message, receipt by receipt.
LEMMA HeldIsTold ==
  ASSUME ReceiptAssumption, NEW m \in Message
  PROVE  Held(m) \in Delivery /\ Believes(Held(m), Told(m))
<1> DEFINE Move(d, k) == IF k \in Stored /\ AboutOf[k] = m THEN foldDelivery(d, StateOf[k]) ELSE d
           After(f) == f = [k \in 0..LastReceipt |->
                             IF k = 0 THEN Unheard
                             ELSE IF k \in Stored /\ AboutOf[k] = m
                                  THEN foldDelivery(f[k - 1], StateOf[k])
                             ELSE f[k - 1]]
<1>1. LastReceipt \in Nat /\ \A k \in Receipt : StateOf[k] \in DeliveryState
  BY DEF ReceiptAssumption
<1>2. Unheard \in Delivery /\ Believes(Unheard, Told(m))
  BY DEF Unheard, Delivery, Anomaly, NoAnomaly, Believes
<1>3. ASSUME NEW d \in Delivery, NEW k \in 1..LastReceipt
      PROVE  Move(d, k) \in Delivery /\ (Believes(d, Told(m)) => Believes(Move(d, k), Told(m)))
  <2>1. CASE k \in Stored /\ AboutOf[k] = m
    <3>1. StateOf[k] \in Told(m) /\ StateOf[k] \in DeliveryState
      BY <1>1, <2>1 DEF Told, Says, Receipt
    <3>2. Told(m) \in SUBSET DeliveryState
      BY DEF Told
    <3> QED
      BY <2>1, <3>1, <3>2, FoldRaises
  <2>2. CASE ~(k \in Stored /\ AboutOf[k] = m)
    BY <2>2
  <2> QED
    BY <2>1, <2>2
<1>4. \E f : After(f)
  <2>1. PICK step : step = [p \in (1..LastReceipt) \X Delivery |-> Move(p[2], p[1])]
    OBVIOUS
  <2>2. step \in [(1..LastReceipt) \X Delivery -> Delivery]
    BY <1>3, <2>1
  <2>3. PICK f : FoldsOver(f, LastReceipt, Delivery, Unheard, step)
    BY <1>1, <1>2, <2>2, Stepwise, Zenon
  <2>4. \A k \in 1..LastReceipt : f[k] = Move(f[k - 1], k)
    <3>1. \A k \in 1..LastReceipt : f[k - 1] \in Delivery
      BY <1>1, <2>3 DEF FoldsOver
    <3> QED
      BY <2>1, <2>3, <3>1 DEF FoldsOver
  <2>5. \A k \in 0..LastReceipt : f[k] =
          IF k = 0 THEN Unheard
          ELSE IF k \in Stored /\ AboutOf[k] = m THEN foldDelivery(f[k - 1], StateOf[k])
          ELSE f[k - 1]
    BY <1>1, <2>3, <2>4 DEF FoldsOver
  <2>6. f = [k \in 0..LastReceipt |-> f[k]]
    BY <2>3 DEF FoldsOver
  <2>7. After(f)
    BY <2>5, <2>6
  <2> HIDE DEF After
  <2> QED
    BY <2>7
<1>5. PICK f : f = CHOOSE g : After(g)
  OBVIOUS
<1>6. Held(m) = f[LastReceipt]
  BY <1>5, Zenon DEF Held
<1>7. After(f)
  <2> HIDE DEF After
  <2> QED
    BY <1>4, <1>5
<1>8. f[0] = Unheard /\ \A k \in 1..LastReceipt : f[k] = Move(f[k - 1], k)
  BY <1>1, <1>7
<1> DEFINE Good == {k \in 0..LastReceipt : f[k] \in Delivery /\ Believes(f[k], Told(m))}
<1>9. 0 \in Good
  BY <1>1, <1>2, <1>8
<1>10. ASSUME NEW k \in 1..LastReceipt, k - 1 \in Good
       PROVE  k \in Good
  <2>1. f[k] = Move(f[k - 1], k) /\ f[k - 1] \in Delivery /\ Believes(f[k - 1], Told(m))
    BY <1>8, <1>10
  <2> HIDE DEF Move
  <2>2. f[k] \in Delivery /\ Believes(f[k], Told(m))
    BY <1>3, <2>1
  <2> QED
    BY <2>2
<1>11. LastReceipt \in Good
  <2>1. LastReceipt \in 0..LastReceipt
    BY <1>1
  <2> HIDE DEF Good
  <2> QED
    BY <1>1, <1>9, <1>10, <2>1, HandedOn
<1> QED
  BY <1>6, <1>11

LEMMA ListedIn ==
  ASSUME NEW S, NEW n \in Nat, NEW q \in [1..n -> S]
  PROVE  q \in Seq(S)
OBVIOUS

LEMMA ElementIn ==
  ASSUME NEW S, NEW q \in Seq(S), NEW i \in DOMAIN q
  PROVE  q[i] \in S
OBVIOUS

\* What a sweep carries.
LEMMA SweepRowTypes ==
  ASSUME ReceiptAssumption, ReceiptsTypeOK, NEW s \in Sweeper, NEW i \in DOMAIN sweep[s]
  PROVE  /\ sweep[s][i].receipt \in Receipt /\ sweep[s][i].was \in Delivery
         /\ AboutOf[sweep[s][i].receipt] \in Message
         /\ StateOf[sweep[s][i].receipt] \in DeliveryState
         /\ seen[sweep[s][i].receipt] \in 0..MaxClock
<1>1. sweep[s] \in Seq([receipt : Receipt, was : Delivery])
  BY DEF ReceiptsTypeOK
<1>2. sweep[s][i] \in [receipt : Receipt, was : Delivery]
  BY <1>1, ElementIn
<1>3. sweep[s][i].receipt \in Receipt /\ sweep[s][i].was \in Delivery
  BY <1>2
<1>4. /\ AboutOf \in [Receipt -> Message] /\ StateOf \in [Receipt -> DeliveryState]
      /\ seen \in [Receipt -> 0..MaxClock]
  BY DEF ReceiptAssumption, ReceiptsTypeOK
<1> QED
  BY <1>3, <1>4

\* What a sweep settles its recipients to, row by row.
LEMMA SettledRaises ==
  ASSUME ReceiptAssumption, ReceiptsTypeOK, NEW s \in Sweeper, NEW m \in Message,
         NEW Said, \A k \in RowsOf(s, m) : Folded(sweep[s][k]).state \in Said
  PROVE  /\ Settled(s, m) \in RecipientState
         /\ Settled(s, m) \in Said \cup {recipient[m]}
         /\ RecipientRank[recipient[m]] <= RecipientRank[Settled(s, m)]
<1> DEFINE Move(state, k) == IF k \in RowsOf(s, m)
                             THEN settleRecipient(state, Folded(sweep[s][k]).state) ELSE state
           After(f) == f = [k \in 0..Len(sweep[s]) |->
                             IF k = 0 THEN recipient[m]
                             ELSE IF k \in RowsOf(s, m)
                                  THEN settleRecipient(f[k - 1], Folded(sweep[s][k]).state)
                             ELSE f[k - 1]]
           Fine(state) == /\ state \in RecipientState /\ state \in Said \cup {recipient[m]}
                          /\ RecipientRank[recipient[m]] <= RecipientRank[state]
<1>1. /\ Len(sweep[s]) \in Nat /\ recipient[m] \in RecipientState
      /\ \A k \in RowsOf(s, m) : Folded(sweep[s][k]).state \in DeliveryState
  <2>1. /\ sweep[s] \in Seq([receipt : Receipt, was : Delivery])
        /\ recipient[m] \in RecipientState
    BY DEF ReceiptsTypeOK
  <2>2. \A k \in DOMAIN sweep[s] : /\ sweep[s][k].was \in Delivery
                                   /\ StateOf[sweep[s][k].receipt] \in DeliveryState
    BY SweepRowTypes
  <2>3. \A k \in DOMAIN sweep[s] : Folded(sweep[s][k]).state \in DeliveryState
    BY <2>2, FoldRaises DEF Folded
  <2> QED
    BY <2>1, <2>3 DEF RowsOf
<1>2. /\ RecipientRank \in [RecipientState -> Nat]
      /\ Fine(recipient[m])
  BY <1>1 DEF RecipientRank, RecipientState
<1>3. ASSUME NEW state \in RecipientState, NEW k \in 1..Len(sweep[s])
      PROVE  Move(state, k) \in RecipientState /\ (Fine(state) => Fine(Move(state, k)))
  <2>1. CASE k \in RowsOf(s, m)
    <3>1. PICK says \in DeliveryState : says = Folded(sweep[s][k]).state /\ says \in Said
      BY <1>1, <2>1
    <3>2. PICK next \in RecipientState : next = Move(state, k) /\ next = settleRecipient(state, says)
      BY <2>1, <3>1, SettleRaises
    <3>3. next \in {state, says} /\ RecipientRank[state] <= RecipientRank[next]
      BY <3>2, SettleRaises
    <3>4. ASSUME Fine(state) PROVE Fine(next)
      <4>1. /\ RecipientRank[recipient[m]] \in Nat /\ RecipientRank[state] \in Nat
            /\ RecipientRank[next] \in Nat
        BY <1>1, <1>2
      <4> QED
        BY <3>1, <3>3, <3>4, <4>1
    <3> HIDE DEF Fine, Move
    <3> QED
      BY <3>2, <3>4
  <2>2. CASE k \notin RowsOf(s, m)
    BY <2>2
  <2> QED
    BY <2>1, <2>2
<1>4. \E f : After(f)
  <2>1. PICK step : step = [p \in (1..Len(sweep[s])) \X RecipientState |-> Move(p[2], p[1])]
    OBVIOUS
  <2>2. step \in [(1..Len(sweep[s])) \X RecipientState -> RecipientState]
    <3> HIDE DEF Move
    <3> QED
      BY <1>3, <2>1
  <2>3. PICK f : FoldsOver(f, Len(sweep[s]), RecipientState, recipient[m], step)
    BY <1>1, <2>2, Stepwise, Zenon
  <2>4. \A k \in 1..Len(sweep[s]) : f[k] = Move(f[k - 1], k)
    <3>1. \A k \in 1..Len(sweep[s]) : f[k - 1] \in RecipientState
      BY <1>1, <2>3 DEF FoldsOver
    <3> HIDE DEF Move
    <3> QED
      BY <2>1, <2>3, <3>1 DEF FoldsOver
  <2>5. \A k \in 0..Len(sweep[s]) : f[k] =
          IF k = 0 THEN recipient[m]
          ELSE IF k \in RowsOf(s, m) THEN settleRecipient(f[k - 1], Folded(sweep[s][k]).state)
          ELSE f[k - 1]
    BY <1>1, <2>3, <2>4 DEF FoldsOver
  <2>6. f = [k \in 0..Len(sweep[s]) |-> f[k]]
    BY <2>3 DEF FoldsOver
  <2>7. After(f)
    BY <2>5, <2>6
  <2> HIDE DEF After
  <2> QED
    BY <2>7
<1>5. PICK f : f = CHOOSE g : After(g)
  OBVIOUS
<1>6. Settled(s, m) = f[Len(sweep[s])]
  BY <1>5, Zenon DEF Settled
<1>7. After(f)
  <2> HIDE DEF After
  <2> QED
    BY <1>4, <1>5
<1>8. f[0] = recipient[m] /\ \A k \in 1..Len(sweep[s]) : f[k] = Move(f[k - 1], k)
  <2>1. PICK last \in Nat : last = Len(sweep[s])
    BY <1>1
  <2>2. \A k \in 0..last : f[k] =
          IF k = 0 THEN recipient[m]
          ELSE IF k \in RowsOf(s, m) THEN settleRecipient(f[k - 1], Folded(sweep[s][k]).state)
          ELSE f[k - 1]
    BY <1>7, <2>1
  <2>3. 0 \in 0..last /\ \A k \in 1..last : k \in 0..last /\ k # 0
    BY <2>1
  <2> HIDE DEF After
  <2> QED
    BY <2>1, <2>2, <2>3
<1> DEFINE Good == {k \in 0..Len(sweep[s]) : Fine(f[k])}
<1>9. 0 \in Good
  <2> HIDE DEF Fine
  <2> QED
    BY <1>1, <1>2, <1>8
<1>10. ASSUME NEW k \in 1..Len(sweep[s]), k - 1 \in Good
       PROVE  k \in Good
  <2>1. f[k] = Move(f[k - 1], k) /\ f[k - 1] \in RecipientState /\ Fine(f[k - 1])
    BY <1>8, <1>10
  <2> HIDE DEF Move, Fine
  <2>2. Fine(f[k])
    BY <1>3, <2>1
  <2> QED
    BY <2>2
<1>11. Len(sweep[s]) \in Good
  <2>1. Len(sweep[s]) \in 0..Len(sweep[s])
    BY <1>1
  <2> HIDE DEF Good
  <2> QED
    BY <1>1, <1>9, <1>10, <2>1, HandedOn
<1> QED
  BY <1>6, <1>11

\* A watermark is a time, and no lower than it was.
LEMMA WatermarkType ==
  ASSUME ReceiptAssumption, ReceiptsTypeOK, NEW s \in Sweeper, NEW m \in Message
  PROVE  Watermark(s, m) \in 0..MaxClock
<1>1. ASSUME NEW t \in 0..MaxClock PROVE AsDate(t) \in 0..MaxClock
  <2>1. Millisecond \in Nat \ {0} /\ MaxClock \in Nat /\ t \in Nat
    BY DEF ReceiptAssumption
  <2>2. t % Millisecond \in 0..Millisecond - 1 /\ t % Millisecond <= t
    <3>1. CASE t < Millisecond
      BY <2>1, <3>1
    <3>2. CASE t >= Millisecond
      BY <2>1, <3>2
    <3> QED
      BY <2>1, <3>1, <3>2
  <2> QED
    BY <2>1, <2>2 DEF AsDate
<1> DEFINE Times == {AsDate(seen[sweep[s][i].receipt]) : i \in RowsOf(s, m)} \cup {folded[m]}
<1>2. Times \subseteq 0..MaxClock /\ Times # {}
  <2>1. \A i \in RowsOf(s, m) : seen[sweep[s][i].receipt] \in 0..MaxClock
    BY SweepRowTypes DEF RowsOf
  <2>2. folded[m] \in 0..MaxClock
    BY DEF ReceiptsTypeOK
  <2> HIDE DEF Times
  <2>3. \A t \in Times : t \in 0..MaxClock
    BY <1>1, <2>1, <2>2 DEF Times
  <2>4. folded[m] \in Times
    BY DEF Times
  <2> QED
    BY <2>3, <2>4
<1>3. Watermark(s, m) = Highest(Times)
  BY DEF Watermark
<1>4. MaxClock \in Nat
  BY DEF ReceiptAssumption
<1> HIDE DEF Times
<1> QED
  BY <1>2, <1>3, <1>4, HighestOf

-----------------------------------------------------------------------------
(* Receipts: the invariant *)

\* Nothing is believed of a message but what receipts about it have said, in
\* its row, in what a sweep has read of it, and in the recipient that follows.
BelievedIsTold ==
  /\ \A m \in Message : /\ Believes(delivery[m], Told(m))
                        /\ recipient[m] \in Told(m) \cup {"in_flight", "accepted"}
  /\ \A s \in Sweeper : \A i \in DOMAIN sweep[s] : LET row == sweep[s][i] IN
       row.receipt \in Stored /\ Believes(row.was, Told(AboutOf[row.receipt]))

\* Until a message carries its provider's id no receipt reaches it.
SilentUntilAccepted ==
  /\ \A m \in Message \ accepted : delivery[m] = Unheard
  /\ \A s \in Sweeper : \A i \in DOMAIN sweep[s] : AboutOf[sweep[s][i].receipt] \in accepted

ReceiptsInv == ReceiptsTypeOK /\ BelievedIsTold /\ SilentUntilAccepted

\* Receipts are stored and never dropped, so what was said stays said.
LEMMA StillTold ==
  ASSUME Stored \subseteq Stored'
  PROVE  \A m \in Message : Told(m) \subseteq Told(m)'
BY DEF Told, Says

LEMMA StillBelieved ==
  ASSUME NEW d, NEW said, NEW more, said \subseteq more, Believes(d, said)
  PROVE  Believes(d, more)
BY DEF Believes

\* What one row of a sweep makes of the reading it carries.
LEMMA FoldedRow ==
  ASSUME ReceiptAssumption, ReceiptsInv, NEW s \in Sweeper, NEW i \in DOMAIN sweep[s],
         NEW m \in Message, AboutOf[sweep[s][i].receipt] = m
  PROVE  /\ Folded(sweep[s][i]) \in Delivery /\ Folded(sweep[s][i]).state \in Told(m)
         /\ Believes(Folded(sweep[s][i]), Told(m))
         /\ Rank[sweep[s][i].was.state] <= Rank[Folded(sweep[s][i]).state]
<1>1. PICK d \in Delivery, says \in DeliveryState :
        d = sweep[s][i].was /\ says = StateOf[sweep[s][i].receipt]
  BY SweepRowTypes DEF ReceiptsInv
<1>2. says \in Told(m) /\ Believes(d, Told(m))
  BY ZenonT(30), <1>1, SweepRowTypes DEF ReceiptsInv, BelievedIsTold, Told, Says
<1>3. Told(m) \in SUBSET DeliveryState
  BY DEF Told
<1>4. PICK new \in Delivery : new = foldDelivery(d, says)
  BY FoldRaises
<1>5. Folded(sweep[s][i]) = new
  BY <1>1, <1>4 DEF Folded
<1>6. /\ Rank[d.state] <= Rank[new.state] /\ new.state \in DeliveryState
      /\ Believes(new, Told(m))
  BY <1>2, <1>3, <1>4, FoldRaises
<1>7. new.state \in Told(m)
  BY <1>6 DEF Believes, DeliveryState
<1> QED
  BY <1>1, <1>5, <1>6, <1>7

\* The sweep's write, message by message.
LEMMA WriteRaises ==
  ASSUME ReceiptAssumption, ReceiptsInv, NEW s \in Sweeper, SweepWrite(s), NEW m \in Message
  PROVE  /\ delivery'[m] \in Delivery /\ Believes(delivery'[m], Told(m))
         /\ m \notin accepted => delivery'[m] = Unheard
         /\ Current(m) => Rank[delivery[m].state] <= Rank[delivery'[m].state]
         /\ recipient'[m] \in RecipientState
         /\ recipient'[m] \in Told(m) \cup {"in_flight", "accepted"}
         /\ RecipientRank[recipient[m]] <= RecipientRank[recipient'[m]]
<1>1. /\ delivery[m] \in Delivery /\ Believes(delivery[m], Told(m))
      /\ m \notin accepted => delivery[m] = Unheard
      /\ recipient[m] \in Told(m) \cup {"in_flight", "accepted"}
  BY DEF ReceiptsInv, ReceiptsTypeOK, BelievedIsTold, SilentUntilAccepted
<1>2. /\ delivery'[m] = IF Changed(s, m) = {} THEN delivery[m]
                        ELSE Folded(sweep[s][Highest(Changed(s, m))])
      /\ recipient'[m] = Settled(s, m)
  BY DEF SweepWrite
<1>3. \A k \in RowsOf(s, m) : Folded(sweep[s][k]).state \in Told(m)
  BY FoldedRow DEF RowsOf
<1>4. /\ recipient'[m] \in RecipientState
      /\ recipient'[m] \in Told(m) \cup {"in_flight", "accepted"}
      /\ RecipientRank[recipient[m]] <= RecipientRank[recipient'[m]]
  <2>1. ReceiptsTypeOK
    BY DEF ReceiptsInv
  <2>2. /\ Settled(s, m) \in RecipientState /\ Settled(s, m) \in Told(m) \cup {recipient[m]}
        /\ RecipientRank[recipient[m]] <= RecipientRank[Settled(s, m)]
    BY <1>3, <2>1, SettledRaises
  <2> QED
    BY <1>1, <1>2, <2>2
<1>5. CASE Changed(s, m) = {}
  <2>1. Rank[delivery[m].state] <= Rank[delivery[m].state]
    <3>1. delivery[m].state \in {"none", "sent", "failed", "delivered", "read"}
      BY <1>1 DEF Delivery, DeliveryState
    <3>2. PICK state \in {"none", "sent", "failed", "delivered", "read"} : state = delivery[m].state
      BY <3>1
    <3>3. Rank[state] <= Rank[state]
      BY RankOf
    <3> QED
      BY <3>2, <3>3
  <2> QED
    BY <1>1, <1>2, <1>4, <1>5, <2>1
<1>6. CASE Changed(s, m) # {}
  <2>1. PICK i \in Changed(s, m) : i = Highest(Changed(s, m))
    <3>1. Changed(s, m) \subseteq 0..Len(sweep[s]) /\ Len(sweep[s]) \in Nat
      <4>1. sweep[s] \in Seq([receipt : Receipt, was : Delivery])
        BY DEF ReceiptsInv, ReceiptsTypeOK
      <4> QED
        BY <4>1 DEF Changed, RowsOf
    <3> QED
      BY <1>6, <3>1, HighestOf
  <2>2. i \in DOMAIN sweep[s] /\ AboutOf[sweep[s][i].receipt] = m
    BY DEF Changed, RowsOf
  <2>3. delivery'[m] = Folded(sweep[s][i])
    BY <1>2, <1>6, <2>1
  <2>4. /\ Folded(sweep[s][i]) \in Delivery /\ Believes(Folded(sweep[s][i]), Told(m))
        /\ Rank[sweep[s][i].was.state] <= Rank[Folded(sweep[s][i]).state]
    BY <2>2, FoldedRow
  <2>5. m \in accepted
    BY <2>2 DEF ReceiptsInv, SilentUntilAccepted
  <2>6. Current(m) => sweep[s][i].was = delivery[m]
    BY <2>2 DEF Current
  <2> QED
    BY <1>4, <2>3, <2>4, <2>5, <2>6
<1> QED
  BY <1>5, <1>6

\* What a sweep may read: stored receipts of accepted messages, row by row.
LEMMA BatchTypes ==
  ASSUME ReceiptAssumption, ReceiptsTypeOK, NEW b \in Batches
  PROVE  \E size \in Nat : b \in [1..size -> News]
<1>1. IsFiniteSet(News)
  <2>1. News \subseteq Receipt
    BY DEF News, Stored
  <2>2. IsFiniteSet(Receipt)
    BY FS_Interval DEF Receipt, ReceiptAssumption
  <2> QED
    BY <2>1, <2>2, FS_Subset
<1>2. Cardinality(News) \in Nat /\ SweepLimit \in Nat
  BY <1>1, FS_CardinalityType DEF ReceiptAssumption
<1> QED
  BY <1>2 DEF Batches

\* Every step keeps the invariant, and takes back neither a broadcast's
\* outcome nor, where no other sweep holds an older reading, a delivery.
OnlyRaises ==
  \A m \in Message :
    /\ RecipientRank[recipient[m]] <= RecipientRank[recipient'[m]]
    /\ Current(m) => Rank[delivery[m].state] <= Rank[delivery'[m].state]

LEMMA StayingRaises ==
  ASSUME ReceiptsTypeOK
  PROVE  \A m \in Message :
           /\ RecipientRank[recipient[m]] <= RecipientRank[recipient[m]]
           /\ Rank[delivery[m].state] <= Rank[delivery[m].state]
<1> SUFFICES ASSUME NEW m \in Message
             PROVE  /\ RecipientRank[recipient[m]] <= RecipientRank[recipient[m]]
                    /\ Rank[delivery[m].state] <= Rank[delivery[m].state]
  OBVIOUS
<1>1. recipient[m] \in RecipientState /\ delivery[m].state \in DeliveryState \cup {"none"}
  BY DEF ReceiptsTypeOK, Delivery
<1>2. PICK now \in RecipientState, state \in DeliveryState \cup {"none"} :
        now = recipient[m] /\ state = delivery[m].state
  BY <1>1
<1>3. RecipientRank[now] <= RecipientRank[now] /\ Rank[state] <= Rank[state]
  BY RankOf, RecipientRankOf DEF RecipientState, DeliveryState
<1> QED
  BY <1>2, <1>3

LEMMA DrainStep ==
  ASSUME ReceiptAssumption, ReceiptsInv, NEW n \in Normalizer, BeginDrain(n) \/ CommitDrain(n)
  PROVE  ReceiptsInv' /\ OnlyRaises
<1>1. /\ ReceiptsTypeOK /\ UNCHANGED <<accepted, delivery, folded, recipient, sweep>>
  BY DEF ReceiptsInv, BeginDrain, CommitDrain
<1>2. ReceiptsTypeOK' /\ Stored \subseteq Stored'
  <2>1. CASE BeginDrain(n)
    <3>1. clock' \in 0..MaxClock /\ normalizer' \in [Normalizer -> 0..MaxClock] /\ seen' = seen
      BY <1>1, <2>1 DEF ReceiptsTypeOK, BeginDrain, ReceiptAssumption
    <3> QED
      BY <1>1, <3>1 DEF ReceiptsTypeOK, Stored
  <2>2. CASE CommitDrain(n)
    <3>1. PICK batch \in SUBSET (Receipt \ Stored) :
            seen' = [e \in Receipt |-> IF e \in batch THEN normalizer[n] ELSE seen[e]]
      BY <2>2 DEF CommitDrain
    <3>2. /\ clock' = clock /\ normalizer[n] \in 0..MaxClock /\ normalizer[n] # 0
          /\ normalizer' = [normalizer EXCEPT ![n] = 0] /\ 0 \in 0..MaxClock
      BY <1>1, <2>2 DEF ReceiptsTypeOK, CommitDrain, ReceiptAssumption
    <3>3. seen' \in [Receipt -> 0..MaxClock] /\ normalizer' \in [Normalizer -> 0..MaxClock]
      BY <1>1, <3>1, <3>2 DEF ReceiptsTypeOK
    <3> QED
      BY <1>1, <3>1, <3>2, <3>3 DEF ReceiptsTypeOK, Stored
  <2> QED
    BY <2>1, <2>2
<1>3. \A m \in Message : Told(m) \subseteq Told(m)'
  BY <1>2, StillTold
<1>4. BelievedIsTold'
  <2>1. \A m \in Message : /\ Believes(delivery[m], Told(m)')
                           /\ recipient[m] \in Told(m)' \cup {"in_flight", "accepted"}
    BY <1>3, StillBelieved DEF ReceiptsInv, BelievedIsTold
  <2>2. \A s \in Sweeper : \A i \in DOMAIN sweep[s] :
          /\ sweep[s][i].receipt \in Stored'
          /\ Believes(sweep[s][i].was, Told(AboutOf[sweep[s][i].receipt])')
    BY <1>1, <1>2, <1>3, StillBelieved, SweepRowTypes DEF ReceiptsInv, BelievedIsTold
  <2> QED
    BY <1>1, <2>1, <2>2 DEF BelievedIsTold
<1>5. SilentUntilAccepted'
  BY <1>1 DEF ReceiptsInv, SilentUntilAccepted
<1>6. OnlyRaises
  BY <1>1, StayingRaises DEF OnlyRaises
<1> QED
  BY <1>2, <1>4, <1>5, <1>6 DEF ReceiptsInv

LEMMA AnswerStep ==
  ASSUME ReceiptAssumption, ReceiptsInv, NEW m \in Message, Learn(m) \/ ProjectAccepted(m)
  PROVE  ReceiptsInv' /\ OnlyRaises
<1>1. /\ ReceiptsTypeOK /\ UNCHANGED <<clock, normalizer, seen, folded, sweep>>
      /\ Stored' = Stored /\ \A w \in Message : Told(w)' = Told(w)
  BY DEF ReceiptsInv, Learn, ProjectAccepted, Stored, Told, Says
<1>2. CASE Learn(m)
  <2>1. PICK held \in Delivery : held = Held(m) /\ Believes(held, Told(m))
    BY HeldIsTold
  <2>2. /\ m \notin accepted /\ accepted' = accepted \cup {m} /\ recipient' = recipient
        /\ delivery' = [delivery EXCEPT ![m] = held]
    BY <1>2, <2>1 DEF Learn
  <2>3. delivery \in [Message -> Delivery] /\ delivery[m] = Unheard
    BY <1>1, <2>2 DEF ReceiptsTypeOK, ReceiptsInv, SilentUntilAccepted
  <2>4. delivery' \in [Message -> Delivery] /\ delivery'[m] = held
        /\ \A w \in Message \ {m} : delivery'[w] = delivery[w]
    BY <2>1, <2>2, <2>3
  <2>5. ReceiptsTypeOK'
    BY <1>1, <2>2, <2>4 DEF ReceiptsTypeOK
  <2>6. BelievedIsTold'
    BY <1>1, <2>1, <2>2, <2>4, SweepRowTypes DEF ReceiptsInv, BelievedIsTold
  <2>7. SilentUntilAccepted'
    BY <1>1, <2>2, <2>4 DEF ReceiptsInv, SilentUntilAccepted
  <2>8. Rank[delivery[m].state] <= Rank[delivery'[m].state]
    <3>1. held.state \in DeliveryState \cup {"none"}
      BY <2>1 DEF Delivery
    <3>2. PICK state \in DeliveryState \cup {"none"} : state = held.state
      BY <3>1
    <3>3. Rank["none"] <= Rank[state]
      BY RankOf DEF DeliveryState
    <3> QED
      BY <2>3, <2>4, <3>2, <3>3 DEF Unheard
  <2> QED
    BY <1>1, <2>2, <2>4, <2>5, <2>6, <2>7, <2>8, StayingRaises DEF ReceiptsInv, OnlyRaises
<1>3. CASE ProjectAccepted(m)
  <2>1. /\ accepted' = accepted /\ delivery' = delivery /\ recipient[m] = "in_flight"
        /\ recipient' = [recipient EXCEPT ![m] = "accepted"]
        /\ recipient \in [Message -> RecipientState]
    BY <1>1, <1>3 DEF ProjectAccepted, ReceiptsTypeOK
  <2>2. recipient' \in [Message -> RecipientState] /\ recipient'[m] = "accepted"
        /\ \A w \in Message \ {m} : recipient'[w] = recipient[w]
    BY <2>1 DEF RecipientState
  <2>3. ReceiptsTypeOK'
    BY <1>1, <2>1, <2>2 DEF ReceiptsTypeOK
  <2>4. BelievedIsTold'
    BY <1>1, <2>1, <2>2, SweepRowTypes DEF ReceiptsInv, BelievedIsTold
  <2>5. SilentUntilAccepted'
    BY <1>1, <2>1 DEF ReceiptsInv, SilentUntilAccepted
  <2>6. RecipientRank[recipient[m]] <= RecipientRank[recipient'[m]]
    BY <2>1, <2>2, RecipientRankOf
  <2> QED
    BY <1>1, <2>1, <2>2, <2>3, <2>4, <2>5, <2>6, StayingRaises DEF ReceiptsInv, OnlyRaises
<1> QED
  BY <1>2, <1>3

LEMMA SweepStep ==
  ASSUME ReceiptAssumption, ReceiptsInv, NEW s \in Sweeper, SweepRead(s) \/ SweepWrite(s)
  PROVE  ReceiptsInv' /\ OnlyRaises
<1>1. /\ ReceiptsTypeOK /\ UNCHANGED <<clock, normalizer, seen, accepted>>
      /\ Stored' = Stored /\ \A w \in Message : Told(w)' = Told(w)
  BY DEF ReceiptsInv, SweepRead, SweepWrite, Stored, Told, Says
<1>2. CASE SweepRead(s)
  <2>1. PICK b \in Batches : sweep' = [sweep EXCEPT ![s] = [i \in DOMAIN b |->
                 [receipt |-> b[i], was |-> delivery[AboutOf[b[i]]]]]]
    BY <1>2 DEF SweepRead
  <2>2. PICK size \in Nat : b \in [1..size -> News]
    BY <1>1, BatchTypes
  <2>3. \A e \in News : /\ e \in Receipt /\ e \in Stored /\ AboutOf[e] \in accepted
                        /\ AboutOf[e] \in Message
    BY DEF News, Stored, ReceiptAssumption
  <2>4. UNCHANGED <<delivery, folded, recipient>>
    BY <1>2 DEF SweepRead
  <2>5. PICK rows : rows = [i \in 1..size |-> [receipt |-> b[i], was |-> delivery[AboutOf[b[i]]]]]
    OBVIOUS
  <2>6. sweep' = [sweep EXCEPT ![s] = rows]
    BY <2>1, <2>2, <2>5
  <2>7. \A i \in 1..size : /\ rows[i] = [receipt |-> b[i], was |-> delivery[AboutOf[b[i]]]]
                           /\ b[i] \in News /\ AboutOf[b[i]] \in Message
                           /\ delivery[AboutOf[b[i]]] \in Delivery
    BY <1>1, <2>2, <2>3, <2>5 DEF ReceiptsTypeOK
  <2>8. rows \in Seq([receipt : Receipt, was : Delivery])
    <3>1. ASSUME NEW i \in 1..size
          PROVE  rows[i] \in [receipt : Receipt, was : Delivery]
      <4>1. PICK e \in Receipt, d \in Delivery : e = b[i] /\ d = delivery[AboutOf[b[i]]]
        BY <2>3, <2>7
      <4>2. rows[i] = [receipt |-> e, was |-> d]
        BY <2>7, <4>1
      <4> QED
        BY <4>2
    <3>2. rows = [i \in 1..size |-> rows[i]]
      BY <2>5
    <3>3. rows \in [1..size -> [receipt : Receipt, was : Delivery]]
      BY <3>1, <3>2, Zenon
    <3> QED
      BY <2>2, <3>3, ListedIn
  <2>9. ReceiptsTypeOK'
    BY <1>1, <2>4, <2>6, <2>8 DEF ReceiptsTypeOK
  <2>10. \A t \in Sweeper : sweep'[t] = IF t = s THEN rows ELSE sweep[t]
    BY <1>1, <2>6 DEF ReceiptsTypeOK
  <2>11. DOMAIN rows = 1..size
    BY <2>5
  <2>12. \A i \in DOMAIN rows : /\ rows[i].receipt \in Stored /\ AboutOf[rows[i].receipt] \in accepted
                                /\ Believes(rows[i].was, Told(AboutOf[rows[i].receipt]))
    BY <2>3, <2>7, <2>11 DEF ReceiptsInv, BelievedIsTold
  <2>13. BelievedIsTold'
    <3>1. \A t \in Sweeper : \A i \in DOMAIN sweep'[t] :
            /\ sweep'[t][i].receipt \in Stored /\ AboutOf[sweep'[t][i].receipt] \in Message
            /\ Believes(sweep'[t][i].was, Told(AboutOf[sweep'[t][i].receipt]))
      BY <1>1, <2>3, <2>7, <2>10, <2>11, <2>12, SweepRowTypes DEF ReceiptsInv, BelievedIsTold
    <3> QED
      BY <1>1, <2>4, <3>1 DEF ReceiptsInv, BelievedIsTold
  <2>14. SilentUntilAccepted'
    BY <1>1, <2>4, <2>10, <2>12 DEF ReceiptsInv, SilentUntilAccepted
  <2> QED
    BY <1>1, <2>4, <2>9, <2>13, <2>14, StayingRaises DEF ReceiptsInv, OnlyRaises
<1>3. CASE SweepWrite(s)
  <2>1. \A m \in Message :
          /\ delivery'[m] \in Delivery /\ Believes(delivery'[m], Told(m))
          /\ m \notin accepted => delivery'[m] = Unheard
          /\ Current(m) => Rank[delivery[m].state] <= Rank[delivery'[m].state]
          /\ recipient'[m] \in RecipientState
          /\ recipient'[m] \in Told(m) \cup {"in_flight", "accepted"}
          /\ RecipientRank[recipient[m]] <= RecipientRank[recipient'[m]]
    BY <1>3, WriteRaises
  <2>2. /\ delivery' \in [Message -> Delivery] /\ recipient' \in [Message -> RecipientState]
    <3>1. /\ delivery' = [m \in Message |-> delivery'[m]]
          /\ recipient' = [m \in Message |-> recipient'[m]]
      BY <1>3, Zenon DEF SweepWrite
    <3> QED
      BY <2>1, <3>1
  <2>3. folded' \in [Message -> 0..MaxClock]
    BY <1>1, <1>3, WatermarkType DEF SweepWrite
  <2>4. sweep' = [sweep EXCEPT ![s] = <<>>]
    BY <1>3 DEF SweepWrite
  <2>5. /\ sweep' \in [Sweeper -> Seq([receipt : Receipt, was : Delivery])]
        /\ \A t \in Sweeper : sweep'[t] = IF t = s THEN <<>> ELSE sweep[t]
    <3>1. PICK Sweeps : Sweeps = Seq([receipt : Receipt, was : Delivery])
      OBVIOUS
    <3>2. sweep \in [Sweeper -> Sweeps]
      BY <1>1, <3>1 DEF ReceiptsTypeOK
    <3>3. <<>> \in Sweeps
      BY <3>1
    <3> QED
      BY <2>4, <3>1, <3>2, <3>3
  <2>6. ReceiptsTypeOK'
    BY <1>1, <2>2, <2>3, <2>5 DEF ReceiptsTypeOK
  <2>7. \A t \in Sweeper : \A i \in DOMAIN sweep'[t] :
          /\ i \in DOMAIN sweep[t] /\ sweep'[t][i] = sweep[t][i]
    BY <2>5
  <2>8. BelievedIsTold'
    <3>1. \A t \in Sweeper : \A i \in DOMAIN sweep'[t] :
            /\ sweep'[t][i].receipt \in Stored /\ AboutOf[sweep'[t][i].receipt] \in Message
            /\ Believes(sweep'[t][i].was, Told(AboutOf[sweep'[t][i].receipt]))
      BY <1>1, <2>7, SweepRowTypes DEF ReceiptsInv, BelievedIsTold
    <3> QED
      BY <1>1, <2>1, <3>1 DEF BelievedIsTold
  <2>9. SilentUntilAccepted'
    BY <1>1, <2>1, <2>7 DEF ReceiptsInv, SilentUntilAccepted
  <2> QED
    BY <2>1, <2>6, <2>8, <2>9 DEF ReceiptsInv, OnlyRaises
<1> QED
  BY <1>2, <1>3

LEMMA ReceiptsStart ==
  ASSUME ReceiptAssumption, ReceiptsInit
  PROVE  ReceiptsInv
<1>1. Unheard \in Delivery /\ 0 \in 0..MaxClock /\ \A said : Believes(Unheard, said)
  BY DEF Unheard, Delivery, Anomaly, NoAnomaly, Believes, ReceiptAssumption
<1>2. ReceiptsTypeOK
  BY <1>1 DEF ReceiptsInit, ReceiptsTypeOK, RecipientState
<1> QED
  BY <1>1, <1>2 DEF ReceiptsInit, ReceiptsInv, BelievedIsTold, SilentUntilAccepted

LEMMA ReceiptsStep ==
  ASSUME ReceiptAssumption, ReceiptsInv, [ReceiptsNext]_receiptVars
  PROVE  ReceiptsInv' /\ OnlyRaises
<1>1. CASE ReceiptsNext
  BY <1>1, DrainStep, AnswerStep, SweepStep DEF ReceiptsNext
<1>2. CASE UNCHANGED receiptVars
  <2>1. UNCHANGED <<clock, normalizer, seen, accepted, delivery, folded, recipient, sweep>>
    BY <1>2 DEF receiptVars
  <2>2. ReceiptsInv'
    <3>1. ReceiptsTypeOK' /\ SilentUntilAccepted'
      BY <2>1 DEF ReceiptsInv, ReceiptsTypeOK, SilentUntilAccepted
    <3>2. Stored' = Stored /\ \A m \in Message : Told(m)' = Told(m)
      BY <2>1 DEF Stored, Told, Says
    <3>3. BelievedIsTold'
      BY <2>1, <3>2, SweepRowTypes DEF ReceiptsInv, BelievedIsTold
    <3> QED
      BY <3>1, <3>3 DEF ReceiptsInv
  <2> QED
    BY <2>1, <2>2, StayingRaises DEF ReceiptsInv, OnlyRaises
<1> QED
  BY <1>1, <1>2

\* Receipts, watermarks, sweeps and recipients keep their types, with any
\* number of drains and sweeps at once and whatever the provider says.
THEOREM ReceiptsKeptRight ==
  ASSUME ReceiptAssumption
  PROVE  ReceiptsSpec => []ReceiptsTypeOK
<1>1. ReceiptsInit => ReceiptsInv
  BY ReceiptsStart
<1>2. ReceiptsInv /\ [ReceiptsNext]_receiptVars => ReceiptsInv'
  BY ReceiptsStep
<1>3. ReceiptsInv => ReceiptsTypeOK
  BY DEF ReceiptsInv
<1> QED
  BY <1>1, <1>2, <1>3, PTL DEF ReceiptsSpec

\* Every state, anomaly and outcome shown of a message was said by a stored
\* receipt about that message, however drains, sweeps and answers interleave.
THEOREM NothingIsMadeUp ==
  ASSUME ReceiptAssumption
  PROVE  ReceiptsSpec => []ShownIsSaid
<1>1. ReceiptsInit => ReceiptsInv
  BY ReceiptsStart
<1>2. ReceiptsInv /\ [ReceiptsNext]_receiptVars => ReceiptsInv'
  BY ReceiptsStep
<1>3. ReceiptsInv => ShownIsSaid
  <2> SUFFICES ASSUME ReceiptsInv, NEW m \in Message,
                      NEW state \in {delivery[m].state, recipient[m]} \cup
                                    {delivery[m].anomaly[1], delivery[m].anomaly[2]},
                      state \in DeliveryState
               PROVE  state \in Told(m)
    BY DEF ShownIsSaid, Told
  <2>1. state # "none" /\ state # "in_flight" /\ state # "accepted"
    BY DEF DeliveryState
  <2>2. /\ Believes(delivery[m], Told(m))
        /\ recipient[m] \in Told(m) \cup {"in_flight", "accepted"}
    BY DEF ReceiptsInv, BelievedIsTold
  <2> QED
    BY <2>1, <2>2 DEF Believes
<1> QED
  BY <1>1, <1>2, <1>3, PTL DEF ReceiptsSpec

\* A broadcast's recipients only move up, and a message's delivery too unless
\* two sweeps have read it at once: for any batches, clocks and watermarks.
THEOREM DeliveriesStand ==
  ASSUME ReceiptAssumption
  PROVE  ReceiptsSpec => NeverRollsBack
<1>1. ReceiptsInit => ReceiptsInv
  BY ReceiptsStart
<1>2. ReceiptsInv /\ [ReceiptsNext]_receiptVars => ReceiptsInv'
  BY ReceiptsStep
<1>3. ReceiptsInv /\ [ReceiptsNext]_receiptVars =>
        [\A m \in Message :
           /\ RecipientRank[recipient[m]] <= RecipientRank[recipient'[m]]
           /\ Current(m) => Rank[delivery[m].state] <= Rank[delivery'[m].state]]_receiptVars
  BY ReceiptsStep DEF OnlyRaises
<1> QED
  BY <1>1, <1>2, <1>3, PTL DEF ReceiptsSpec, NeverRollsBack
=============================================================================
