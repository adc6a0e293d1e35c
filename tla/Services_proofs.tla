-------------------------- MODULE Services_proofs --------------------------
(***************************************************************************)
(* What three services keep that run beside the messages, for any number   *)
(* of what they serve.                                                     *)
(*                                                                         *)
(* The email outbox: a row that is claimed by one worker at a time is      *)
(* never written by an answer that comes late, so the invariant is about   *)
(* who is on a row nobody was overtaken on.  The inbox screen: only the    *)
(* newest of its reads is written, so the invariant is about what that     *)
(* one's answer includes.  A run of an automation: a call takes its        *)
(* recipients through any number of actions, so the invariant is about     *)
(* what a recipient's status says of its steps and of its message.         *)
(***************************************************************************)
EXTENDS EmailOutbox, Screen, Automations, TLAPS, WellFoundedInduction

-----------------------------------------------------------------------------
(* The email outbox *)

\* A row that was never claimed from under a worker has one worker on it at
\* most, and is pending while it has.
OneOnPending == \A e \in Email \ overtaken :
  /\ \A w, v \in On(e) : w = v
  /\ On(e) # {} => email[e].state = "pending"

EmailInv == EmailTypeOK /\ OneOnPending

-----------------------------------------------------------------------------
LEMMA EmailInitOK ==
  ASSUME EmailAssumption, EmailInit
  PROVE  EmailInv
BY DEF EmailAssumption, EmailInit, EmailInv, EmailTypeOK, OneOnPending, On, EmailRow, Lease,
       Resting, Terminal

\* What a worker past its rest holds.
LEMMA HeldFacts ==
  ASSUME EmailTypeOK, NEW w \in Mailer
  PROVE  /\ mailer[w].step \in {"claimed", "answered"} =>
              /\ mailer[w] # Resting
              /\ mailer[w].row \in Email
              /\ mailer[w].attempt \in Nat
         /\ mailer[w].step = "answered" => mailer[w].answer \in Answer
BY DEF EmailTypeOK, Resting, Claimed, Answered

\* An answer keeps a row a row.
LEMMA RecordedType ==
  ASSUME NEW row \in EmailRow, NEW attempt \in Nat, NEW answer \in Answer
  PROVE  Recorded(row, attempt, answer) \in EmailRow
BY DEF Recorded, EmailRow, Lease, Terminal

\* A claim keeps a row a row, and its state.
LEMMA LeasedType ==
  ASSUME NEW row \in EmailRow
  PROVE  Leased(row) \in EmailRow /\ Leased(row).state = row.state
<1>1. row.attempts + 1 \in Nat
  BY DEF EmailRow
<1>2. QED BY <1>1 DEF Leased, EmailRow, Lease

\* Type correctness: only a worker that holds a row writes it.
LEMMA EmailTypeStep ==
  ASSUME EmailAssumption, EmailInv, [EmailNext]_emailVars
  PROVE  EmailTypeOK'
<1> USE DEF EmailInv, EmailTypeOK
<1>1. ASSUME NEW e \in Email, Enqueue(e) \/ BackoffEnds(e) \/ LeaseEnds(e) PROVE EmailTypeOK'
  <2>1. CASE Enqueue(e)
    BY <2>1 DEF Enqueue, EmailRow
  <2>2. CASE BackoffEnds(e)
    BY <2>2 DEF BackoffEnds, EmailRow
  <2>3. CASE LeaseEnds(e)
    <3>1. email' \in [Email -> EmailRow]
      BY <2>3 DEF LeaseEnds, EmailRow, Lease
    <3>2. lapses' \in 0..MaxLapses
      BY <2>3 DEF LeaseEnds, EmailAssumption
    <3>3. QED BY <2>3, <3>1, <3>2 DEF LeaseEnds
  <2>4. QED BY <1>1, <2>1, <2>2, <2>3
<1>2. ASSUME NEW w \in Mailer, NEW e \in Email, ClaimEmail(w, e) PROVE EmailTypeOK'
  <2>1. email' \in [Email -> EmailRow]
    BY <1>2, LeasedType DEF ClaimEmail
  <2>2. email[e].attempts + 1 \in Nat
    BY DEF EmailRow
  <2>3. [step |-> "claimed", row |-> e, attempt |-> email[e].attempts + 1] \in Claimed
    BY <2>2 DEF Claimed
  <2>4. mailer' \in [Mailer -> {Resting} \cup Claimed \cup Answered]
    BY <1>2, <2>3 DEF ClaimEmail
  <2>5. QED BY <1>2, <2>1, <2>4 DEF ClaimEmail
<1>3. ASSUME NEW w \in Mailer, NEW answer \in Answer, NEW taken \in BOOLEAN,
             SendEmail(w, answer, taken)
      PROVE  EmailTypeOK'
  <2>1. mailer' \in [Mailer -> {Resting} \cup Claimed \cup Answered]
    BY <1>3, HeldFacts DEF SendEmail, Answered
  <2>2. mailed' \subseteq Email
    BY <1>3, HeldFacts DEF SendEmail
  <2>3. QED BY <1>3, <2>1, <2>2 DEF SendEmail
<1>4. ASSUME NEW w \in Mailer, RecordEmail(w) PROVE EmailTypeOK'
  <2>1. /\ mailer[w].row \in Email /\ mailer[w].attempt \in Nat /\ mailer[w].answer \in Answer
    BY <1>4, HeldFacts DEF RecordEmail
  <2>2. email' \in [Email -> EmailRow]
    BY <1>4, <2>1, RecordedType DEF RecordEmail
  <2>3. QED BY <1>4, <2>2 DEF RecordEmail
<1>5. ASSUME NEW w \in Mailer, MailerDies(w) PROVE EmailTypeOK'
  BY <1>5 DEF MailerDies, EmailAssumption
<1>6. CASE UNCHANGED emailVars
  BY <1>6 DEF emailVars
<1>7. QED
  BY <1>1, <1>2, <1>3, <1>4, <1>5, <1>6 DEF EmailNext, MailerWorks

\* Claiming is the only way onto a row, and either nobody was on it or it
\* counts as overtaken; a worker that writes a row leaves it.
LEMMA OneOnPendingStep ==
  ASSUME EmailAssumption, EmailInv, [EmailNext]_emailVars, NEW e \in Email \ overtaken'
  PROVE  /\ \A w, v \in On(e)' : w = v
         /\ On(e)' # {} => email'[e].state = "pending"
<1> USE DEF EmailInv, EmailTypeOK
<1> DEFINE Kept == /\ \A w, v \in On(e)' : w = v
                   /\ On(e)' # {} => email'[e].state = "pending"
<1>1. CASE /\ e \notin overtaken /\ On(e)' \subseteq On(e)
           /\ On(e)' = {} \/ email'[e].state = email[e].state
  BY <1>1 DEF OneOnPending
<1>2. ASSUME NEW w \in Mailer, NEW c \in Email, ClaimEmail(w, c) PROVE Kept
  <2>1. CASE c = e
    <3>1. On(e) = {} /\ email[e].state = "pending"
      BY <1>2, <2>1 DEF ClaimEmail, Claimable
    <3>2. On(e)' \subseteq {w} /\ email'[e].state = "pending"
      BY <1>2, <2>1, <3>1, LeasedType DEF ClaimEmail, On
    <3>3. QED BY <3>2
  <2>2. CASE c # e
    <3>1. On(e)' \subseteq On(e)
      BY <1>2, <2>2 DEF ClaimEmail, On
    <3>2. QED BY <1>1, <1>2, <2>2, <3>1 DEF ClaimEmail
  <2>3. QED BY <2>1, <2>2
<1>3. ASSUME NEW w \in Mailer, NEW answer \in Answer, NEW taken \in BOOLEAN,
             SendEmail(w, answer, taken)
      PROVE  Kept
  BY <1>1, <1>3, HeldFacts DEF SendEmail, On
<1>4. ASSUME NEW w \in Mailer, RecordEmail(w) PROVE Kept
  <2>1. On(e)' = On(e) \ {w} /\ overtaken' = overtaken
    BY <1>4 DEF RecordEmail, On
  <2>2. CASE mailer[w].row = e
    <3>1. w \in On(e)
      BY <1>4, <2>2, HeldFacts DEF RecordEmail, On
    <3>2. On(e)' = {}
      BY <2>1, <3>1 DEF OneOnPending
    <3>3. QED BY <3>2
  <2>3. CASE mailer[w].row # e
    BY <1>1, <1>4, <2>1, <2>3 DEF RecordEmail
  <2>4. QED BY <2>2, <2>3
<1>5. ASSUME NEW w \in Mailer, MailerDies(w) PROVE Kept
  BY <1>1, <1>5 DEF MailerDies, On
<1>6. ASSUME NEW c \in Email, Enqueue(c) PROVE Kept
  <2>1. On(e)' = On(e)
    BY <1>6 DEF Enqueue, On
  <2>2. QED BY <1>6, <2>1 DEF Enqueue, OneOnPending, EmailRow
<1>7. ASSUME NEW c \in Email, BackoffEnds(c) \/ LeaseEnds(c) PROVE Kept
  <2>1. On(e)' = On(e) /\ email'[e].state = email[e].state
    BY <1>7 DEF BackoffEnds, LeaseEnds, On, EmailRow
  <2>2. QED BY <1>1, <1>7, <2>1 DEF BackoffEnds, LeaseEnds
<1>8. CASE UNCHANGED emailVars
  BY <1>1, <1>8 DEF emailVars, On
<1>9. QED
  BY <1>2, <1>3, <1>4, <1>5, <1>6, <1>7, <1>8 DEF EmailNext, MailerWorks

\* Only a recorded answer moves a settled row, only a send makes an email
\* taken, and either is a worker on the row.
LEMMA SettledStep ==
  ASSUME EmailInv, EmailNext, NEW e \in Email \ overtaken, email[e].state \in Terminal
  PROVE  email'[e].state = email[e].state /\ (e \in mailed' <=> e \in mailed)
<1> USE DEF EmailInv, EmailTypeOK
<1>1. On(e) = {}
  BY DEF OneOnPending, Terminal
<1>2. ASSUME NEW c \in Email, Enqueue(c) \/ BackoffEnds(c) \/ LeaseEnds(c)
      PROVE  email'[e].state = email[e].state /\ mailed' = mailed
  BY <1>2 DEF Enqueue, BackoffEnds, LeaseEnds, EmailRow, Terminal
<1>3. ASSUME NEW w \in Mailer, NEW c \in Email, ClaimEmail(w, c)
      PROVE  email'[e].state = email[e].state /\ mailed' = mailed
  BY <1>3, LeasedType DEF ClaimEmail
<1>4. ASSUME NEW w \in Mailer, NEW answer \in Answer, NEW taken \in BOOLEAN,
             SendEmail(w, answer, taken)
      PROVE  email' = email /\ (e \in mailed' <=> e \in mailed)
  <2>1. mailer[w].row # e
    BY <1>1, <1>4, HeldFacts DEF SendEmail, On
  <2>2. QED BY <1>4, <2>1 DEF SendEmail
<1>5. ASSUME NEW w \in Mailer, RecordEmail(w)
      PROVE  email'[e].state = email[e].state /\ mailed' = mailed
  <2>1. mailer[w].row # e
    BY <1>1, <1>5, HeldFacts DEF RecordEmail, On
  <2>2. QED BY <1>5, <2>1 DEF RecordEmail
<1>6. ASSUME NEW w \in Mailer, MailerDies(w)
      PROVE  email' = email /\ mailed' = mailed
  BY <1>6 DEF MailerDies
<1>7. QED
  BY <1>2, <1>3, <1>4, <1>5, <1>6 DEF EmailNext, MailerWorks

-----------------------------------------------------------------------------
(* The email outbox: the theorems *)

\* The outbox keeps its types, and one worker at most on a row that was never
\* claimed from under another.
THEOREM OutboxKeptRight ==
  ASSUME EmailAssumption
  PROVE  EmailSpec => []EmailInv
<1>1. EmailInit => EmailInv
  BY EmailInitOK
<1>2. EmailInv /\ [EmailNext]_emailVars => EmailInv'
  BY EmailTypeStep, OneOnPendingStep DEF EmailInv, OneOnPending
<1>3. QED
  BY <1>1, <1>2, PTL DEF EmailSpec

\* A settled email is over, unless its row was claimed from under a worker
\* (email-outbox.service.ts, claim and record).
THEOREM SettledStaysSettled ==
  ASSUME EmailAssumption
  PROVE  EmailSpec => SettledIsFinal
<1>1. EmailInv /\ [EmailNext]_emailVars =>
        [\A e \in Email \ overtaken : email[e].state \in Terminal =>
           email'[e].state = email[e].state /\ (e \in mailed' <=> e \in mailed)]_emailVars
  BY SettledStep
<1>2. QED
  BY <1>1, OutboxKeptRight, PTL DEF EmailSpec, SettledIsFinal

-----------------------------------------------------------------------------
(* The screen *)

\* An answer to a read includes nothing that has not happened.
ReadsArePast ==
  /\ shown <= head
  /\ flight.read.step = "answered" => flight.read.lists <= head
  /\ screen.step = "answered" => screen.lists <= head

\* The answer that would be written is not older than what is on the screen.
CurrentIsNewer ==
  /\ newest = "flight" /\ flight.read.step = "answered" => flight.read.lists >= shown
  /\ newest = "screen" /\ screen.step = "answered" => screen.lists >= shown

\* The server has written no further than the events go, the client has heard
\* no further than was written, and the last frame is not behind it.
Positions ==
  /\ heard <= head
  /\ stream.state = "open" => heard <= stream.at /\ stream.at <= head
  /\ closing # NotClosing => stream.state = "open" /\ stream.at <= closing.at /\ closing.at <= head

ScreenInv == ScreenTypeOK /\ ReadsArePast /\ CurrentIsNewer /\ Positions

\* A type invariant whose conjuncts are sets of variables, one by one.
LEMMA ScreenTypes ==
  ASSUME ScreenTypeOK
  PROVE  /\ head \in 0..MaxEvents /\ heard \in 0..MaxEvents /\ shown \in 0..MaxEvents
         /\ hasId \in BOOLEAN /\ opened \in BOOLEAN /\ blind \in BOOLEAN /\ failed \in BOOLEAN
         /\ flight \in [read : Read, again : BOOLEAN] /\ screen \in Read
         /\ newest \in {"flight", "screen"} /\ faults \in 0..MaxBreaks
BY DEF ScreenTypeOK

\* What a refresh makes of the reads.
LEMMA RefreshKeeps ==
  ASSUME ScreenAssumption, ScreenInv, Refresh, UNCHANGED <<head, screen, shown>>
  PROVE  /\ flight' \in [read : Read, again : BOOLEAN] /\ newest' \in {"flight", "screen"}
         /\ ReadsArePast' /\ CurrentIsNewer'
<1>1. Asked \in Read /\ Asked.step = "asked" /\ flight \in [read : Read, again : BOOLEAN]
  BY ScreenTypes DEF Asked, Read, ScreenInv, ScreenAssumption
<1>2. CASE flight.read # NoRead
  <2>1. flight' = [flight EXCEPT !.again = TRUE] /\ newest' = newest
    BY <1>2 DEF Refresh
  <2>2. flight'.read = flight.read /\ flight' \in [read : Read, again : BOOLEAN]
    BY <1>1, <2>1
  <2> QED
    BY <2>1, <2>2, ScreenTypes DEF ScreenInv, ReadsArePast, CurrentIsNewer
<1>3. CASE flight.read = NoRead
  <2>1. flight' = [read |-> Asked, again |-> FALSE] /\ newest' = "flight"
    BY <1>3 DEF Refresh
  <2> QED
    BY <1>1, <2>1 DEF ScreenInv, ReadsArePast, CurrentIsNewer
<1> QED
  BY <1>2, <1>3

\* The lists and what is read of them.
readsRest == <<flight, screen, newest, shown>>

\* A step that leaves the lists and their reads alone, while the events only
\* grow, keeps what is known of them.
LEMMA ReadsRest ==
  ASSUME ScreenInv, UNCHANGED readsRest, head' \in 0..MaxEvents, head <= head'
  PROVE  ReadsArePast' /\ CurrentIsNewer'
<1>1. /\ head \in Nat /\ head' \in Nat /\ shown \in Nat
      /\ flight.read.lists \in Nat /\ screen.lists \in Nat
  BY ScreenTypes DEF ScreenInv, Read
<1> QED
  BY <1>1 DEF ScreenInv, ReadsArePast, CurrentIsNewer, readsRest

\* Steps of the server.
LEMMA ServerStep ==
  ASSUME ScreenAssumption, ScreenInv, Emit \/ Page \/ PermissionsChange \/ Cycle
  PROVE  ScreenInv' /\ shown' = shown
<1>1. /\ head \in Nat /\ head <= MaxEvents /\ MaxEvents \in Nat /\ heard \in 0..MaxEvents
      /\ stream \in [state : {"down", "open", "ended"}, at : 0..MaxEvents]
      /\ closing \in [kind : {"none", "reset_required", "stream_cycled"}, at : 0..MaxEvents]
      /\ {MaxBatch, MaxBacklog, MaxBreaks} \subseteq Nat /\ MaxBatch > 0 /\ faults \in 0..MaxBreaks
  BY DEF ScreenInv, ScreenTypeOK, ScreenAssumption
<1>2. /\ heard <= head
      /\ stream.state = "open" => heard <= stream.at /\ stream.at <= head
      /\ closing # NotClosing =>
           stream.state = "open" /\ stream.at <= closing.at /\ closing.at <= head
  BY DEF ScreenInv, Positions
<1>3. UNCHANGED <<heard, hasId, opened, flight, screen, newest, shown, blind, failed>>
  BY DEF Emit, Page, PermissionsChange, Cycle, streamVars, readVars
<1>4. /\ head' \in 0..MaxEvents /\ head <= head' /\ faults' \in 0..MaxBreaks
      /\ stream' \in [state : {"down", "open", "ended"}, at : 0..MaxEvents]
      /\ closing' \in [kind : {"none", "reset_required", "stream_cycled"}, at : 0..MaxEvents]
      /\ Positions'
  <2>1. CASE Emit
    BY <1>1, <1>2, <2>1 DEF Emit, streamVars, Positions
  <2>2. CASE Page
    <3>1. /\ stream.state = "open" /\ closing = NotClosing /\ head > stream.at
          /\ UNCHANGED <<head, heard, faults>>
      BY <2>2 DEF Page, Writing
    <3>2. CASE head - stream.at > MaxBacklog
      BY <1>1, <1>2, <2>2, <3>1, <3>2 DEF Page, Positions
    <3>3. CASE ~(head - stream.at > MaxBacklog)
      <4>1. PICK at \in 0..MaxEvents :
              /\ stream' = [stream EXCEPT !.at = at]
              /\ stream.at <= at /\ at <= head
        BY <1>1, <1>2, <2>2, <3>1, <3>3 DEF Page
      <4>2. closing' = closing
        BY <2>2, <3>3 DEF Page
      <4>3. stream'.at = at /\ stream'.state = stream.state
        BY <1>1, <4>1
      <4> QED
        BY <1>1, <1>2, <3>1, <4>1, <4>2, <4>3 DEF Positions
    <3> QED
      BY <3>2, <3>3
  <2>3. CASE PermissionsChange
    BY <1>1, <1>2, <2>3 DEF PermissionsChange, Writing, Fault, Positions
  <2>4. CASE Cycle
    BY <1>1, <1>2, <2>4 DEF Cycle, Writing, Fault, Positions
  <2> QED
    BY <2>1, <2>2, <2>3, <2>4
<1>5. ScreenTypeOK'
  BY <1>3, <1>4 DEF ScreenInv, ScreenTypeOK
<1>6. ReadsArePast' /\ CurrentIsNewer'
  BY <1>3, <1>4, ReadsRest DEF readsRest
<1> QED
  BY <1>3, <1>4, <1>5, <1>6 DEF ScreenInv

\* Steps of the browser's subscription, and of what breaks it.
LEMMA BrowserStep ==
  ASSUME ScreenAssumption, ScreenInv, Browser \/ Drop \/ End
  PROVE  ScreenInv' /\ shown' = shown
<1>1. /\ head \in Nat /\ head <= MaxEvents /\ MaxEvents \in Nat /\ heard \in 0..MaxEvents
      /\ stream \in [state : {"down", "open", "ended"}, at : 0..MaxEvents]
      /\ closing \in [kind : {"none", "reset_required", "stream_cycled"}, at : 0..MaxEvents]
      /\ MaxBreaks \in Nat /\ faults \in 0..MaxBreaks
  BY DEF ScreenInv, ScreenTypeOK, ScreenAssumption
<1>2. /\ heard <= head
      /\ stream.state = "open" => heard <= stream.at /\ stream.at <= head
      /\ closing # NotClosing =>
           stream.state = "open" /\ stream.at <= closing.at /\ closing.at <= head
  BY DEF ScreenInv, Positions
<1>3. /\ Asked \in Read /\ Asked.step = "asked"
      /\ \A s \in {"down", "ended"} :
           /\ Down(s) \in [state : {"down", "open", "ended"}, at : 0..MaxEvents]
           /\ Down(s).state = s
      /\ NotClosing \in [kind : {"none", "reset_required", "stream_cycled"}, at : 0..MaxEvents]
  BY <1>1 DEF Asked, Read, Down, NotClosing
<1>4. /\ head' = head /\ shown' = shown /\ faults' \in 0..MaxBreaks
      /\ heard' \in 0..MaxEvents
      /\ stream' \in [state : {"down", "open", "ended"}, at : 0..MaxEvents]
      /\ closing' \in [kind : {"none", "reset_required", "stream_cycled"}, at : 0..MaxEvents]
      /\ Positions'
  <2>1. CASE Connect
    <3>1. PICK start : start = IF hasId THEN heard ELSE head
      OBVIOUS
    <3>2. /\ stream' = [state |-> "open", at |-> start] /\ closing' = NotClosing
          /\ heard' = start /\ UNCHANGED <<head, shown, faults>>
      BY <2>1, <3>1 DEF Connect
    <3>3. start \in 0..MaxEvents /\ start <= head
      BY <1>1, <1>2, <3>1
    <3> QED
      BY <1>1, <1>3, <3>2, <3>3 DEF Positions
  <2>2. CASE Frame
    BY <1>1, <1>2, <2>2 DEF Frame, Positions
  <2>3. CASE LastFrame
    BY <1>1, <1>2, <1>3, <2>3 DEF LastFrame, Positions
  <2>4. CASE Resume
    BY <1>1, <1>2, <1>3, <2>4 DEF Resume, readVars, Positions
  <2>5. CASE Drop \/ End
    BY <1>1, <1>2, <1>3, <2>5 DEF Drop, End, Fault, readVars, Positions
  <2> QED
    BY <2>1, <2>2, <2>3, <2>4, <2>5 DEF Browser
<1>5. {hasId', opened', blind', failed'} \subseteq BOOLEAN
  BY DEF Browser, Connect, Frame, LastFrame, Resume, Drop, End, readVars, ScreenInv, ScreenTypeOK
<1>6. /\ flight' \in [read : Read, again : BOOLEAN] /\ screen' \in Read
      /\ newest' \in {"flight", "screen"}
      /\ ReadsArePast' /\ CurrentIsNewer'
  <2>1. CASE UNCHANGED readsRest
    <3>1. ReadsArePast' /\ CurrentIsNewer'
      BY <1>1, <1>4, <2>1, ReadsRest
    <3> QED
      BY <2>1, <3>1, ScreenTypes DEF readsRest, ScreenInv
  <2>2. CASE Refresh /\ UNCHANGED screen
    BY <1>4, <2>2, RefreshKeeps, ScreenTypes DEF ScreenInv
  <2>3. CASE screen' = Asked /\ newest' = "screen" /\ UNCHANGED flight
    BY <1>3, <1>4, <2>3, ScreenTypes DEF ScreenInv, ReadsArePast, CurrentIsNewer
  <2>4. \/ UNCHANGED readsRest
        \/ Refresh /\ UNCHANGED screen
        \/ screen' = Asked /\ newest' = "screen" /\ UNCHANGED flight
    BY <1>4 DEF Browser, Connect, Frame, LastFrame, Resume, Drop, End, readVars, readsRest
  <2> QED
    BY <2>1, <2>2, <2>3, <2>4
<1>7. ScreenTypeOK'
  BY <1>1, <1>4, <1>5, <1>6, ScreenTypes DEF ScreenInv, ScreenTypeOK
<1> QED
  BY <1>4, <1>6, <1>7 DEF ScreenInv

\* A flight that ends leaves no answer behind it.
LEMMA FlightEndsType ==
  ASSUME ScreenAssumption, ScreenInv, FlightEnds
  PROVE  /\ flight' \in [read : Read, again : BOOLEAN] /\ flight'.read.step # "answered"
         /\ newest' \in {"flight", "screen"}
         /\ newest' = newest \/ newest' = "flight"
<1>1. Asked \in Read /\ NoRead \in Read /\ Asked.step = "asked" /\ NoRead.step = "none"
  BY DEF Asked, NoRead, Read, ScreenAssumption
<1> QED
  BY <1>1, ScreenTypes DEF FlightEnds, ScreenInv

\* The reads of the lists: asked, answered from the database as it is, applied.
LEMMA ReadStep ==
  ASSUME ScreenAssumption, ScreenInv, Reads \/ FlightFails \/ ScreenFails
  PROVE  ScreenInv' /\ shown' >= shown
<1>1. /\ head \in Nat /\ head <= MaxEvents /\ shown \in 0..MaxEvents /\ MaxEvents \in Nat
      /\ flight \in [read : Read, again : BOOLEAN] /\ screen \in Read
      /\ flight.read.lists \in 0..MaxEvents /\ screen.lists \in 0..MaxEvents
      /\ newest \in {"flight", "screen"}
  BY ScreenTypes DEF ScreenInv, ScreenAssumption, Read
<1>2. ReadsArePast /\ CurrentIsNewer
  BY DEF ScreenInv
<1>3. UNCHANGED <<head, stream, closing, heard, hasId, opened, blind>>
  BY DEF Reads, AnswerFlight, AnswerScreen, ApplyFlight, ApplyScreen, FlightFails, ScreenFails,
         streamVars
<1>4. [step |-> "answered", lists |-> head] \in Read /\ NoRead \in Read /\ NoRead.step = "none"
  BY <1>1 DEF Read, NoRead
<1>5. faults' \in 0..MaxBreaks /\ failed' \in BOOLEAN
  <2>1. faults \in 0..MaxBreaks /\ MaxBreaks \in Nat /\ failed \in BOOLEAN
    BY ScreenTypes DEF ScreenInv, ScreenAssumption
  <2>2. faults' \in 0..MaxBreaks
    BY <2>1 DEF Reads, AnswerFlight, AnswerScreen, ApplyFlight, ApplyScreen, FlightFails,
                ScreenFails, Fault
  <2>3. failed' \in BOOLEAN
    BY <2>1 DEF Reads, AnswerFlight, AnswerScreen, ApplyFlight, ApplyScreen, FlightFails,
                ScreenFails
  <2> QED
    BY <2>2, <2>3
<1>6. /\ flight' \in [read : Read, again : BOOLEAN] /\ screen' \in Read
      /\ newest' \in {"flight", "screen"} /\ shown' \in 0..MaxEvents /\ shown' >= shown
      /\ ReadsArePast' /\ CurrentIsNewer'
  <2>1. CASE AnswerFlight
    BY <1>1, <1>2, <1>3, <1>4, <2>1 DEF AnswerFlight, ReadsArePast, CurrentIsNewer
  <2>2. CASE AnswerScreen
    BY <1>1, <1>2, <1>3, <1>4, <2>2 DEF AnswerScreen, ReadsArePast, CurrentIsNewer
  <2>3. CASE ApplyFlight
    <3>1. /\ shown' = IF newest = "flight" THEN flight.read.lists ELSE shown
          /\ screen' = screen /\ flight.read.step = "answered" /\ FlightEnds
      BY <2>3 DEF ApplyFlight, Current
    <3> QED
      BY <1>1, <1>2, <1>3, <3>1, FlightEndsType DEF ReadsArePast, CurrentIsNewer
  <2>4. CASE ApplyScreen
    <3>1. /\ shown' = IF newest = "screen" THEN screen.lists ELSE shown
          /\ screen' = NoRead /\ screen.step = "answered" /\ UNCHANGED <<flight, newest>>
      BY <2>4 DEF ApplyScreen, Current
    <3> QED
      BY <1>1, <1>2, <1>3, <1>4, <3>1 DEF ReadsArePast, CurrentIsNewer
  <2>5. CASE FlightFails
    <3>1. UNCHANGED <<shown, screen>> /\ FlightEnds
      BY <2>5 DEF FlightFails
    <3> QED
      BY <1>1, <1>2, <1>3, <3>1, FlightEndsType DEF ReadsArePast, CurrentIsNewer
  <2>6. CASE ScreenFails
    BY <1>1, <1>2, <1>3, <1>4, <2>6 DEF ScreenFails, ReadsArePast, CurrentIsNewer
  <2> QED
    BY <2>1, <2>2, <2>3, <2>4, <2>5, <2>6 DEF Reads
<1>7. ScreenTypeOK'
  BY <1>3, <1>5, <1>6 DEF ScreenInv, ScreenTypeOK
<1>8. Positions'
  BY <1>3 DEF ScreenInv, Positions
<1> QED
  BY <1>6, <1>7, <1>8 DEF ScreenInv

LEMMA ScreenNextOK ==
  ASSUME ScreenAssumption, ScreenInv, [ScreenNext]_screenVars
  PROVE  ScreenInv' /\ shown' >= shown
<1>1. shown \in Nat
  BY ScreenTypes DEF ScreenInv
<1>2. CASE UNCHANGED screenVars
  BY <1>1, <1>2 DEF screenVars, ScreenInv, ScreenTypeOK, ReadsArePast, CurrentIsNewer, Positions
<1>3. CASE ScreenNext
  BY <1>1, <1>3, ServerStep, BrowserStep, ReadStep DEF ScreenNext
<1> QED
  BY <1>2, <1>3

LEMMA ScreenInitOK ==
  ASSUME ScreenAssumption, ScreenInit
  PROVE  ScreenInv
<1>1. ScreenTypeOK
  <2>1. 0 \in 0..MaxEvents /\ 0 \in 0..MaxBreaks
    BY DEF ScreenAssumption
  <2>2. NoRead \in Read /\ Asked \in Read
    BY <2>1 DEF NoRead, Asked, Read
  <2>3. /\ Down("down") \in [state : {"down", "open", "ended"}, at : 0..MaxEvents]
        /\ NotClosing \in [kind : {"none", "reset_required", "stream_cycled"}, at : 0..MaxEvents]
    BY <2>1 DEF Down, NotClosing
  <2>4. {hasId, opened, blind, failed} \subseteq BOOLEAN
    BY DEF ScreenInit
  <2> QED
    BY <2>1, <2>2, <2>3, <2>4 DEF ScreenInit, ScreenTypeOK
<1>2. ReadsArePast /\ CurrentIsNewer /\ Positions
  BY DEF ScreenInit, ReadsArePast, CurrentIsNewer, Positions, Down, NotClosing, NoRead, Asked
<1> QED
  BY <1>1, <1>2 DEF ScreenInv

\* However connections break, however many events there are and however the
\* reads overlap: the types, and an answer that would be written is not older
\* than the screen.
THEOREM ScreenKeptRight ==
  ASSUME ScreenAssumption
  PROVE  ScreenSpec => []ScreenInv
<1>1. ScreenInit => ScreenInv
  BY ScreenInitOK
<1>2. ScreenInv /\ [ScreenNext]_screenVars => ScreenInv'
  BY ScreenNextOK
<1> QED
  BY <1>1, <1>2, PTL DEF ScreenSpec

\* Reads overlap and their answers come in any order; the lists on the screen
\* never go back to an older answer (live/store.ts, claimRead).
THEOREM ScreenNeverGoesBack ==
  ASSUME ScreenAssumption
  PROVE  ScreenSpec => ListsNeverGoBack
<1>1. ScreenInv /\ [ScreenNext]_screenVars => [shown' >= shown]_screenVars
  BY ScreenNextOK
<1> QED
  BY <1>1, ScreenKeptRight, PTL DEF ScreenSpec, ListsNeverGoBack

-----------------------------------------------------------------------------
(* Automations: the actions of one call *)

\* f is the recipient r after each of its first n actions: what Carried defines.
Goes(f, r, n, fails) ==
  f = [k \in 0..n |-> IF k = 0 THEN r
                      ELSE IF Ready(f[k - 1]) THEN Carry(f[k - 1], fails)
                      ELSE f[k - 1]]

\* A nonempty set of naturals has a least element.
LEMMA Least ==
  ASSUME NEW S, S \subseteq Nat, S # {}
  PROVE  \E m \in S : \A n \in S : m <= n
<1> DEFINE R == OpToRel(<, Nat)
<1>1. IsWellFoundedOn(R, Nat)
  BY NatLessThanWellFounded
<1>2. \A i, j \in Nat : i < j => <<i, j>> \in R
  BY DEF OpToRel
<1> HIDE DEF R
<1>3. PICK m \in S : \A n \in S : ~(<<n, m>> \in R)
  BY <1>1, WFMin, Zenon
<1>4. \A n \in S : n \in Nat /\ m \in Nat /\ ~(n < m)
  BY <1>2, <1>3
<1> QED
  BY <1>4

\* There is such an f, so that Carried is what its definition says.
LEMMA GoesSomewhere ==
  ASSUME NEW r, NEW n \in Nat, NEW fails
  PROVE  \E f : Goes(f, r, n, fails)
<1> DEFINE Nowhere == {m \in Nat : ~ \E f : Goes(f, r, m, fails)}
<1>1. Nowhere = {}
  <2> SUFFICES ASSUME Nowhere # {} PROVE FALSE
    OBVIOUS
  <2>1. PICK m \in Nowhere : \A i \in Nowhere : m <= i
    <3>1. Nowhere \subseteq Nat
      OBVIOUS
    <3> HIDE DEF Nowhere
    <3> QED
      BY <3>1, Least
  <2>2. m \in Nat /\ ~ \E f : Goes(f, r, m, fails)
    OBVIOUS
  <2>3. CASE m = 0
    <3>1. Goes([k \in 0..0 |-> r], r, 0, fails)
      BY DEF Goes
    <3> QED
      BY <2>2, <2>3, <3>1
  <2>4. CASE m > 0
    <3>1. PICK f : Goes(f, r, m - 1, fails)
      <4>1. m - 1 \in Nat /\ ~(m <= m - 1)
        BY <2>2, <2>4
      <4> QED
        BY <2>1, <4>1
    <3>2. PICK x : x = IF Ready(f[m - 1]) THEN Carry(f[m - 1], fails) ELSE f[m - 1]
      OBVIOUS
    <3>3. PICK g : g = [k \in 0..m |-> IF k = m THEN x ELSE f[k]]
      OBVIOUS
    <3>4. /\ g[0] = r /\ g[m] = x /\ g[m - 1] = f[m - 1]
          /\ \A k \in 1..m - 1 :
               /\ g[k] = f[k] /\ g[k - 1] = f[k - 1]
               /\ f[k] = IF Ready(f[k - 1]) THEN Carry(f[k - 1], fails) ELSE f[k - 1]
      BY <2>2, <2>4, <3>1, <3>3 DEF Goes
    <3>5. ASSUME NEW k \in 0..m
          PROVE  g[k] = IF k = 0 THEN r
                        ELSE IF Ready(g[k - 1]) THEN Carry(g[k - 1], fails)
                        ELSE g[k - 1]
      <4>1. CASE k = 0
        BY <3>4, <4>1
      <4>2. CASE k = m
        BY <2>4, <3>2, <3>4, <4>2
      <4>3. CASE k \in 1..m - 1
        BY <3>4, <4>3
      <4> QED
        BY <2>2, <4>1, <4>2, <4>3
    <3>6. Goes(g, r, m, fails)
      BY <3>3, <3>5 DEF Goes
    <3> QED
      BY <2>2, <3>6
  <2> QED
    BY <2>2, <2>3, <2>4
<1> QED
  BY <1>1

LEMMA CarriedGoes ==
  ASSUME NEW r, NEW n \in Nat, NEW fails
  PROVE  \E f : Goes(f, r, n, fails) /\ Carried(r, n, fails) = f[n]
<1>1. PICK f : f = CHOOSE g : Goes(g, r, n, fails)
  OBVIOUS
<1>2. Goes(f, r, n, fails)
  BY <1>1, GoesSomewhere
<1>3. Carried(r, n, fails) = f[n]
  BY <1>1, Zenon DEF Carried, Goes
<1> QED
  BY <1>2, <1>3

\* A message was sent on the way from r to x.
Sent(r, x) == \E k \in r.done + 1..x.done : Steps[k] = "send"

\* What actions may make of the recipient r: it has got no less far; if it was
\* sent something it is queued; if not it is as it was or has failed at a step;
\* and nothing is done for one that has every step behind it or failed at one.
Reaches(r, x, fails) ==
  /\ x \in Recipient /\ r.done <= x.done
  /\ Sent(r, x) => ~fails /\ x.status = "queued"
  /\ ~Sent(r, x) => x.status = r.status \/ (x.status = "failed" /\ x.next = "failed")
  /\ ~Ready(r) => x = r

\* One action keeps it.
LEMMA OneAction ==
  ASSUME AutomationsAssumption, NEW r \in Recipient, NEW x, NEW fails \in BOOLEAN,
         Reaches(r, x, fails), Ready(x)
  PROVE  Reaches(r, Carry(x, fails), fails)
<1>1. /\ Len(Steps) \in Nat /\ \A k \in 1..Len(Steps) : Steps[k] \in {"send", "delay", "label"}
  BY DEF AutomationsAssumption
<1>2. /\ r.done \in Nat /\ x.done \in Nat /\ r.done <= x.done /\ x.done < Len(Steps)
      /\ x \in Recipient /\ x.next \in {"ready", "waited"} /\ Ready(r)
  BY <1>1 DEF Reaches, Ready, Recipient
<1>3. PICK y : y = Carry(x, fails)
  OBVIOUS
<1>4. \/ /\ y = [x EXCEPT !.next = "waiting"]
      \/ /\ fails /\ y = [x EXCEPT !.next = "failed", !.status = "failed"]
      \/ /\ Steps[x.done + 1] = "send" /\ ~fails
         /\ y = [x EXCEPT !.done = x.done + 1, !.status = "queued"]
      \/ /\ Steps[x.done + 1] # "send"
         /\ y = [x EXCEPT !.done = x.done + 1, !.next = "ready"]
  BY <1>1, <1>2, <1>3 DEF Carry
<1>5. /\ x.done + 1 \in 0..Len(Steps)
      /\ \A k \in r.done + 1..x.done + 1 : k \in r.done + 1..x.done \/ k = x.done + 1
      /\ x.done + 1 \in r.done + 1..x.done + 1
      /\ \A k \in r.done + 1..x.done : k \in r.done + 1..x.done + 1
  BY <1>1, <1>2
<1>6. CASE y = [x EXCEPT !.next = "waiting"]
  <2>1. y \in Recipient /\ y.done = x.done /\ y.status = x.status
    BY <1>2, <1>6 DEF Recipient
  <2>2. x.status = "failed" /\ x.next = "failed" => FALSE
    BY <1>2
  <2> QED
    BY <1>2, <1>3, <2>1, <2>2 DEF Reaches, Sent
<1>7. CASE fails /\ y = [x EXCEPT !.next = "failed", !.status = "failed"]
  <2>1. y \in Recipient /\ y.done = x.done /\ y.status = "failed" /\ y.next = "failed"
    BY <1>2, <1>7 DEF Recipient
  <2> QED
    BY ZenonT(30), <1>2, <1>3, <1>7, <2>1 DEF Reaches, Sent
<1>8. CASE /\ Steps[x.done + 1] = "send" /\ ~fails
           /\ y = [x EXCEPT !.done = x.done + 1, !.status = "queued"]
  <2>1. y \in Recipient /\ y.done = x.done + 1 /\ y.status = "queued"
    BY <1>2, <1>5, <1>8 DEF Recipient, Active
  <2>2. Sent(r, y)
    BY <1>5, <1>8, <2>1 DEF Sent
  <2> QED
    BY <1>2, <1>3, <1>8, <2>1, <2>2 DEF Reaches
<1>9. CASE /\ Steps[x.done + 1] # "send"
           /\ y = [x EXCEPT !.done = x.done + 1, !.next = "ready"]
  <2>1. y \in Recipient /\ y.done = x.done + 1 /\ y.status = x.status
    BY <1>2, <1>5, <1>9 DEF Recipient
  <2>2. Sent(r, y) <=> Sent(r, x)
    BY <1>5, <1>9, <2>1 DEF Sent
  <2>3. x.status = "failed" /\ x.next = "failed" => FALSE
    BY <1>2
  <2> QED
    BY <1>2, <1>3, <2>1, <2>2, <2>3 DEF Reaches
<1> QED
  BY <1>3, <1>4, <1>6, <1>7, <1>8, <1>9

\* And so do all the actions of a call.
LEMMA AllActions ==
  ASSUME AutomationsAssumption, NEW r \in Recipient, NEW n \in Nat, NEW fails \in BOOLEAN
  PROVE  Reaches(r, Carried(r, n, fails), fails)
<1>1. PICK f : Goes(f, r, n, fails) /\ Carried(r, n, fails) = f[n]
  BY CarriedGoes
<1>2. /\ f[0] = r
      /\ \A k \in 0..n : k > 0 => f[k] = IF Ready(f[k - 1]) THEN Carry(f[k - 1], fails) ELSE f[k - 1]
  BY <1>1 DEF Goes
<1> DEFINE Astray == {k \in 0..n : ~Reaches(r, f[k], fails)}
<1>3. Astray = {}
  <2> SUFFICES ASSUME Astray # {} PROVE FALSE
    OBVIOUS
  <2>1. PICK m \in Astray : \A i \in Astray : m <= i
    <3>1. Astray \subseteq Nat
      OBVIOUS
    <3> HIDE DEF Astray
    <3> QED
      BY <3>1, Least
  <2>2. m \in 0..n /\ ~Reaches(r, f[m], fails)
    OBVIOUS
  <2>3. CASE m = 0
    <3>1. \A k \in r.done + 1..r.done : FALSE
      BY DEF Recipient, AutomationsAssumption
    <3>2. r.done <= r.done
      BY DEF Recipient, AutomationsAssumption
    <3> QED
      BY <1>2, <2>2, <2>3, <3>1, <3>2 DEF Reaches, Sent
  <2>4. CASE m > 0
    <3>1. m - 1 \in 0..n /\ ~(m <= m - 1)
      BY <2>2, <2>4
    <3>2. Reaches(r, f[m - 1], fails)
      BY <2>1, <3>1
    <3>3. f[m] = IF Ready(f[m - 1]) THEN Carry(f[m - 1], fails) ELSE f[m - 1]
      BY <1>2, <2>2, <2>4
    <3> QED
      BY <2>2, <3>2, <3>3, OneAction
  <2> QED
    BY <2>2, <2>3, <2>4
<1>4. n \in 0..n
  OBVIOUS
<1> QED
  BY <1>1, <1>3, <1>4

-----------------------------------------------------------------------------
(* Automations: what a recipient's status says of its message *)

Undecided == {"none", "queued"}

\* A recipient that is not waited for has every step behind it, has failed at
\* one, or had its message decided.
Backed(r, said) ==
  /\ r.status = "completed" => r.done = Len(Steps)
  /\ r.status \in {"sent", "delivered", "outcome_unknown"} => said \notin Undecided
  /\ r.status = "failed" => r.next = "failed" \/ said \notin Undecided

AutomationsInv ==
  /\ AutomationsTypeOK
  /\ run \in {"none", "queued"} => Planned = {}
  /\ \A c \in Planned : Backed(target[c], message[c])
  /\ run \in Ended => Open(target) = {}

Said == {"none", "queued", "accepted", "delivered", "unknown", "rejected"}

LEMMA PlannedFacts ==
  ASSUME AutomationsInv, NEW c \in Contact
  PROVE  /\ c \in Planned => target[c] \in Recipient /\ Backed(target[c], message[c])
         /\ c \notin Planned => target[c] = NotPlanned
         /\ message[c] \in Said
BY DEF AutomationsInv, AutomationsTypeOK, Planned, Said

\* What a message has come to, taken over into the status.
LEMMA ReconciledBacked ==
  ASSUME NEW r \in Recipient, NEW said \in Said, Backed(r, said)
  PROVE  /\ Reconciled(r, said) \in Recipient /\ Backed(Reconciled(r, said), said)
         /\ Reconciled(r, said).done = r.done
<1>1. CASE r.status \notin {"queued", "sent", "delivered"} \/ said \in Undecided
  BY <1>1 DEF Reconciled, Undecided
<1>2. CASE r.status \in {"queued", "sent", "delivered"} /\ said \notin Undecided
  <2>1. PICK s \in {"delivered", "sent", "outcome_unknown", "failed"} :
          Reconciled(r, said) = [r EXCEPT !.status = s]
    BY <1>2 DEF Reconciled, Said, Undecided
  <2>2. /\ Reconciled(r, said) \in Recipient /\ Reconciled(r, said).status = s
        /\ Reconciled(r, said).done = r.done
    BY <2>1 DEF Recipient
  <2> QED
    BY <1>2, <2>2 DEF Backed
<1> QED
  BY <1>1, <1>2

\* After the actions of a call the message is the new one, if there is one, and
\* the status says so.
LEMMA CarriedBacked ==
  ASSUME AutomationsAssumption, NEW r \in Recipient, NEW said \in Said, Backed(r, said),
         NEW x, NEW fails \in BOOLEAN, Reaches(r, x, fails)
  PROVE  x \in Recipient /\ Backed(x, IF Sent(r, x) THEN "queued" ELSE said)
<1>1. x \in Recipient
  BY DEF Reaches
<1>2. CASE Sent(r, x)
  BY <1>1, <1>2 DEF Reaches, Backed
<1>3. CASE ~Sent(r, x)
  <2>1. CASE x.status = "failed" /\ x.next = "failed"
    BY <1>1, <1>3, <2>1 DEF Backed
  <2>2. CASE x.status = r.status /\ x.status # "failed"
    <3>1. r.status = "completed" => x = r
      BY <1>1 DEF Reaches, Backed, Ready, Recipient, AutomationsAssumption
    <3> QED
      BY <1>1, <1>3, <2>2, <3>1 DEF Backed
  <2>3. CASE x.status = r.status /\ x.status = "failed"
    <3>1. r.next = "failed" => x = r
      BY DEF Reaches, Ready
    <3> QED
      BY <1>1, <1>3, <2>3, <3>1 DEF Backed
  <2> QED
    BY <1>3, <2>1, <2>2, <2>3 DEF Reaches
<1> QED
  BY <1>2, <1>3

\* A call on a running run, recipient by recipient.
LEMMA ExecuteRows ==
  ASSUME AutomationsAssumption, AutomationsInv, Execute, NEW c \in Contact
  PROVE  /\ c \in Planned => target'[c] \in Recipient /\ Backed(target'[c], message'[c])
         /\ c \notin Planned => target'[c] = NotPlanned
         /\ message'[c] \in Said
<1>1. PICK fails \in SUBSET Planned, taken \in [Planned -> 0..Limit] :
        LET read == [d \in Contact |-> Reconciled(target[d], message[d])]
            carried == [d \in Contact |-> IF d \in Planned
              THEN Carried(read[d], taken[d], d \in fails) ELSE read[d]]
        IN /\ message' = [d \in Contact |->
                IF \E k \in read[d].done + 1..carried[d].done : Steps[k] = "send"
                THEN "queued" ELSE message[d]]
           /\ target' = Completed(carried, message')
  BY DEF Execute
<1>2. PICK r : r = Reconciled(target[c], message[c])
  OBVIOUS
<1>3. PICK x : x = IF c \in Planned THEN Carried(r, taken[c], c \in fails) ELSE r
  OBVIOUS
<1>4. /\ message'[c] = IF Sent(r, x) THEN "queued" ELSE message[c]
      /\ target'[c] = IF message'[c] = "none" /\ x.status = "pending" /\ x.done = Len(Steps)
                      THEN [x EXCEPT !.status = "completed"] ELSE x
  BY <1>1, <1>2, <1>3 DEF Completed, Sent
<1>5. message[c] \in Said /\ message'[c] \in Said
  BY <1>4, PlannedFacts DEF Said
<1>6. CASE c \in Planned
  <2>1. r \in Recipient /\ Backed(r, message[c])
    BY <1>2, <1>5, <1>6, PlannedFacts, ReconciledBacked
  <2>2. taken[c] \in Nat /\ (c \in fails) \in BOOLEAN
    BY <1>6, AutomationsAssumption DEF AutomationsAssumption
  <2>3. Reaches(r, x, c \in fails)
    BY <1>3, <1>6, <2>1, <2>2, AllActions
  <2>4. x \in Recipient /\ Backed(x, message'[c])
    BY <1>4, <1>5, <2>1, <2>2, <2>3, CarriedBacked
  <2>5. CASE target'[c] = x
    BY <1>5, <1>6, <2>4, <2>5
  <2>6. CASE x.done = Len(Steps) /\ target'[c] = [x EXCEPT !.status = "completed"]
    BY <1>5, <1>6, <2>4, <2>6 DEF Recipient, Backed
  <2> QED
    BY <1>4, <2>5, <2>6
<1>7. CASE c \notin Planned
  <2>1. target[c] = NotPlanned
    BY <1>7, PlannedFacts
  <2>2. x = NotPlanned
    BY <1>2, <1>3, <1>7, <2>1 DEF Reconciled, NotPlanned
  <2> QED
    BY <1>4, <1>5, <1>7, <2>2 DEF NotPlanned
<1> QED
  BY SMTT(30), <1>6, <1>7

LEMMA ExecuteStep ==
  ASSUME AutomationsAssumption, AutomationsInv, Execute
  PROVE  AutomationsInv'
<1>1. NotPlanned \notin Recipient
  BY DEF NotPlanned, Recipient, Active
<1>2. Planned' = Planned
  <2>1. \A c \in Contact : target'[c] # NotPlanned <=> c \in Planned
    BY <1>1, ExecuteRows
  <2> QED
    BY <2>1 DEF Planned
<1>3. /\ \A c \in Contact : target'[c] \in Recipient \cup {NotPlanned} /\ message'[c] \in Said
      /\ \A c \in Planned : Backed(target'[c], message'[c])
  BY ExecuteRows DEF Planned
<1>4. /\ target' = [c \in Contact |-> target'[c]] /\ message' = [c \in Contact |-> message'[c]]
  BY Zenon DEF Execute, Completed
<1>5. /\ run = "running" /\ run' = IF Open(target') = {} THEN Outcome(target') ELSE run
      /\ work' = NextLook(target')
  BY Zenon DEF Execute
<1>6. Outcome(target') \in Ended /\ NextLook(target') \in {"none", "due", "later"}
  BY DEF Outcome, Ended, NextLook
<1>7. Open(target)' = Open(target')
  BY <1>2 DEF Open
<1>8. AutomationsTypeOK'
  BY <1>3, <1>4, <1>5, <1>6 DEF AutomationsTypeOK, Said
<1>9. run' \notin {"none", "queued"} /\ (run' \in Ended => Open(target)' = {})
  BY <1>5, <1>6, <1>7 DEF Ended
<1> QED
  BY <1>2, <1>3, <1>8, <1>9 DEF AutomationsInv

LEMMA PlanStep ==
  ASSUME AutomationsAssumption, AutomationsInv, Trigger \/ PlanRun
  PROVE  AutomationsInv'
<1>1. run \in {"none", "queued"} /\ message' = message
  BY DEF Trigger, PlanRun
<1>2. Planned = {} /\ \A c \in Contact : target[c] = NotPlanned
  BY <1>1 DEF AutomationsInv, Planned
<1>3. CASE target' = target
  <2>1. Planned' = {} /\ Open(target)' = {}
    BY <1>2, <1>3 DEF Planned, Open
  <2>2. run' \in {"queued", "running"} \cup Ended /\ work' \in {"none", "due", "later"}
    BY DEF Trigger, PlanRun, Ended
  <2>3. AutomationsTypeOK'
    BY <1>1, <1>3, <2>2 DEF AutomationsInv, AutomationsTypeOK
  <2> QED
    BY <2>1, <2>3 DEF AutomationsInv
<1>4. CASE target' # target
  <2>1. PICK audience \in SUBSET Contact :
          /\ run' = IF audience = {} THEN "completed" ELSE "running"
          /\ work' = IF audience = {} THEN "none" ELSE "due"
          /\ target' = [c \in Contact |->
               IF c \in audience THEN [NotPlanned EXCEPT !.status = "pending"] ELSE target[c]]
    BY <1>4 DEF Trigger, PlanRun
  <2>2. audience # {}
    BY <1>4, <2>1 DEF AutomationsInv, AutomationsTypeOK
  <2>3. run' = "running" /\ work' = "due"
    BY <2>1, <2>2
  <2>4. PICK new : new = [NotPlanned EXCEPT !.status = "pending"]
    OBVIOUS
  <2>5. new \in Recipient /\ \A said : Backed(new, said)
    BY <2>4 DEF NotPlanned, Recipient, Active, Backed, AutomationsAssumption
  <2>6. \A c \in Contact : target'[c] = new \/ target'[c] = NotPlanned
    BY <1>2, <2>1, <2>4
  <2>7. AutomationsTypeOK'
    BY <1>1, <2>1, <2>3, <2>5, <2>6 DEF AutomationsInv, AutomationsTypeOK
  <2>8. \A c \in Planned' : Backed(target'[c], message'[c])
    BY <2>5, <2>6 DEF Planned
  <2> QED
    BY <2>3, <2>7, <2>8 DEF AutomationsInv, Ended
<1> QED
  BY <1>3, <1>4

\* Time and the dispatcher.
LEMMA WaitStep ==
  ASSUME AutomationsAssumption, AutomationsInv,
         \/ LookAgain
         \/ \E c \in Contact : WaitEnds(c)
         \/ \E c \in Contact, said \in {"accepted", "delivered", "unknown", "rejected"} : Decide(c, said)
  PROVE  AutomationsInv'
<1>1. CASE LookAgain
  BY <1>1 DEF LookAgain, AutomationsInv, AutomationsTypeOK, Planned, Open
<1>2. ASSUME NEW c \in Contact, WaitEnds(c)
      PROVE  AutomationsInv'
  <2>1. /\ target[c].next = "waiting" /\ target' = [target EXCEPT ![c].next = "waited"]
        /\ UNCHANGED <<run, work, message>>
    BY <1>2 DEF WaitEnds
  <2>2. c \in Planned /\ target[c] \in Recipient /\ Backed(target[c], message[c])
    BY <2>1, PlannedFacts DEF NotPlanned
  <2>3. /\ target'[c] = [target[c] EXCEPT !.next = "waited"]
        /\ \A d \in Contact : d # c => target'[d] = target[d]
    BY <2>1 DEF AutomationsInv, AutomationsTypeOK
  <2>4. /\ target'[c] \in Recipient /\ target'[c].status = target[c].status
        /\ Backed(target'[c], message[c])
    BY <2>1, <2>2, <2>3 DEF Recipient, Backed
  <2>5. NotPlanned \notin Recipient
    BY DEF NotPlanned, Recipient, Active
  <2>6. Planned' = Planned
    BY <2>2, <2>3, <2>4, <2>5 DEF Planned
  <2>7. AutomationsTypeOK'
    BY <2>1, <2>3, <2>4 DEF AutomationsInv, AutomationsTypeOK
  <2>8. Open(target)' = Open(target)
    BY <2>3, <2>4, <2>6 DEF Open, Planned
  <2>9. \A d \in Planned : Backed(target'[d], message'[d])
    BY <2>1, <2>3, <2>4, PlannedFacts DEF Planned
  <2> QED
    BY <2>1, <2>6, <2>7, <2>8, <2>9 DEF AutomationsInv
<1>3. ASSUME NEW c \in Contact, NEW said \in {"accepted", "delivered", "unknown", "rejected"},
             Decide(c, said)
      PROVE  AutomationsInv'
  <2>1. /\ message' = [message EXCEPT ![c] = said] /\ UNCHANGED <<run, work, target>>
    BY <1>3 DEF Decide
  <2>2. /\ message'[c] = said /\ \A d \in Contact : d # c => message'[d] = message[d]
        /\ message' \in [Contact -> Said]
    BY <2>1 DEF AutomationsInv, AutomationsTypeOK, Said
  <2>3. Planned' = Planned /\ Open(target)' = Open(target)
    BY <2>1 DEF Planned, Open
  <2>4. \A d \in Planned : Backed(target'[d], message'[d])
    BY <2>1, <2>2, PlannedFacts DEF Planned, Backed, Undecided
  <2>5. AutomationsTypeOK'
    BY <2>1, <2>2 DEF AutomationsInv, AutomationsTypeOK, Said
  <2> QED
    BY <2>1, <2>3, <2>4, <2>5 DEF AutomationsInv
<1> QED
  BY <1>1, <1>2, <1>3

LEMMA AutomationsNextOK ==
  ASSUME AutomationsAssumption, AutomationsInv, [AutomationsNext]_automationVars
  PROVE  AutomationsInv'
<1>1. CASE UNCHANGED automationVars
  BY <1>1 DEF automationVars, AutomationsInv, AutomationsTypeOK, Planned, Open
<1>2. CASE AutomationsNext
  BY <1>2, PlanStep, ExecuteStep, WaitStep DEF AutomationsNext
<1> QED
  BY <1>1, <1>2

LEMMA AutomationsInitOK ==
  ASSUME AutomationsAssumption, AutomationsInit
  PROVE  AutomationsInv
BY DEF AutomationsInit, AutomationsInv, AutomationsTypeOK, Planned, Ended

\* However many recipients, steps and actions a call has: a status that is not
\* waited for is backed by the recipient's steps or by its message.
THEOREM AutomationsKeptRight ==
  ASSUME AutomationsAssumption
  PROVE  AutomationsSpec => []AutomationsInv
<1>1. AutomationsInit => AutomationsInv
  BY AutomationsInitOK
<1>2. AutomationsInv /\ [AutomationsNext]_automationVars => AutomationsInv'
  BY AutomationsNextOK
<1> QED
  BY <1>1, <1>2, PTL DEF AutomationsSpec

\* A run does not end over the head of a recipient whose message is undecided
\* or who still has steps to wait for (automation-runner.service.ts, finalize).
THEOREM NobodyIsLeftOut ==
  ASSUME AutomationsAssumption
  PROVE  AutomationsSpec => []NobodyLeftOut
<1>1. AutomationsInv => NobodyLeftOut
  <2> SUFFICES ASSUME AutomationsInv, run \in Ended, NEW c \in Planned
               PROVE  \/ target[c].done = Len(Steps) \/ target[c].next = "failed"
                      \/ message[c] \notin {"none", "queued"}
    BY DEF NobodyLeftOut
  <2>1. target[c] \in Recipient /\ Backed(target[c], message[c])
    BY PlannedFacts DEF Planned
  <2>2. target[c].status \notin Active
    BY DEF AutomationsInv, Open
  <2> QED
    BY <2>1, <2>2 DEF Recipient, Backed, Undecided
<1> QED
  BY <1>1, AutomationsKeptRight, PTL
=============================================================================
