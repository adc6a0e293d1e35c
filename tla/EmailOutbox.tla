----------------------------- MODULE EmailOutbox -----------------------------
(***************************************************************************)
(* The rows of email_deliveries and the workers that drain them            *)
(* (apps/api/src/email/email-outbox.service.ts).  A worker commits its     *)
(* claim, calls the provider, and records the answer by the row's id       *)
(* alone: an answer that comes late is written over whatever the row has   *)
(* become.  Durations are an event each: a lease runs out, a backoff ends. *)
(***************************************************************************)
EXTENDS Naturals, FiniteSets

CONSTANTS
  Email,        \* rows, one per (kind, idempotency_key)
  Mailer,       \* workers in the integration role
  MaxAttempts,  \* max_attempts
  MaxLapses     \* bound: how often a worker dies, or outlasts its lease

EmailAssumption == MaxAttempts \in Nat \ {0} /\ MaxLapses \in Nat

VARIABLES
  email,      \* state, attempt_count, next_attempt_at and lease_until of each row
  mailer,     \* the claim a worker holds and the answer it got
  mailed,     \* rows whose email the provider has taken
  overtaken,  \* history: rows claimed while another worker was on them
  lapses

emailVars == <<email, mailer, mailed, overtaken, lapses>>

Terminal == {"sent", "failed"}
Lease == {"null", "running", "over"}
EmailRow == [state : {"absent", "pending"} \cup Terminal, attempts : Nat,
             due : BOOLEAN, lease : Lease]
Answer == {"accepted", "refused", "undecided"}
Resting == [step |-> "idle"]
Claimed == [step : {"claimed"}, row : Email, attempt : Nat]
Answered == [step : {"answered"}, row : Email, attempt : Nat, answer : Answer]

EmailTypeOK ==
  /\ email \in [Email -> EmailRow]
  /\ mailer \in [Mailer -> {Resting} \cup Claimed \cup Answered]
  /\ mailed \subseteq Email /\ overtaken \subseteq Email
  /\ lapses \in 0..MaxLapses

EmailInit ==
  /\ email = [e \in Email |-> [state |-> "absent", attempts |-> 0, due |-> TRUE, lease |-> "null"]]
  /\ mailer = [w \in Mailer |-> Resting]
  /\ mailed = {} /\ overtaken = {} /\ lapses = 0

\* The workers that have claimed e and not recorded their answer.
On(e) == {w \in Mailer : mailer[w] # Resting /\ mailer[w].row = e}

\* enqueueEmail, committed with the invitation or the recovery link it is for.
\* A retried request conflicts with the row and changes nothing.
Enqueue(e) ==
  /\ email[e].state = "absent"
  /\ email' = [email EXCEPT ![e].state = "pending"]
  /\ UNCHANGED <<mailer, mailed, overtaken, lapses>>

\* Slip: a lease that ran out is not taken for one that was never there.
ClaimableUnleased(e) == email[e].state = "pending" /\ email[e].due /\ email[e].lease = "null"
\* Slip: the claim does not ask for the state.
ClaimableEver(e) == email[e].state # "absent" /\ email[e].due /\ email[e].lease # "running"
Claimable(e) == email[e].state = "pending" /\ email[e].due /\ email[e].lease # "running"

Leased(row) == [row EXCEPT !.attempts = row.attempts + 1, !.lease = "running"]

ClaimEmail(w, e) ==
  /\ mailer[w] = Resting
  /\ Claimable(e)
  /\ email' = [email EXCEPT ![e] = Leased(@)]
  /\ mailer' = [mailer EXCEPT ![w] = [step |-> "claimed", row |-> e, attempt |-> email[e].attempts + 1]]
  /\ overtaken' = IF On(e) = {} THEN overtaken ELSE overtaken \cup {e}
  /\ UNCHANGED <<mailed, lapses>>

\* The provider takes it, refuses it for good (as the renderer does), or it is
\* undecided: a retryable refusal, or a silence that may hide an acceptance.
SendEmail(w, answer, taken) ==
  /\ mailer[w].step = "claimed"
  /\ answer = "accepted" => taken
  /\ answer = "refused" => ~taken
  /\ mailer' = [mailer EXCEPT ![w] =
       [step |-> "answered", row |-> @.row, attempt |-> @.attempt, answer |-> answer]]
  /\ mailed' = IF taken THEN mailed \cup {mailer[w].row} ELSE mailed
  /\ UNCHANGED <<email, overtaken, lapses>>

\* record: no state and no lease is asked for, only the id.
Recorded(row, attempt, answer) ==
  CASE answer = "accepted" -> [row EXCEPT !.state = "sent", !.lease = "null"]
    [] answer = "refused" \/ attempt >= MaxAttempts -> [row EXCEPT !.state = "failed", !.lease = "null"]
    [] OTHER -> [row EXCEPT !.due = FALSE, !.lease = "null"]

RecordEmail(w) ==
  /\ mailer[w].step = "answered"
  /\ email' = [email EXCEPT ![mailer[w].row] =
       Recorded(@, mailer[w].attempt, mailer[w].answer)]
  /\ mailer' = [mailer EXCEPT ![w] = Resting]
  /\ UNCHANGED <<mailed, overtaken, lapses>>

BackoffEnds(e) ==
  /\ ~email[e].due
  /\ email' = [email EXCEPT ![e].due = TRUE]
  /\ UNCHANGED <<mailer, mailed, overtaken, lapses>>

\* A lease outlasts a provider call by far: it runs out under a dead worker,
\* or under one that was held up, which counts as a lapse.
LeaseEnds(e) ==
  /\ email[e].lease = "running"
  /\ On(e) # {} => lapses < MaxLapses
  /\ lapses' = IF On(e) = {} THEN lapses ELSE lapses + 1
  /\ email' = [email EXCEPT ![e].lease = "over"]
  /\ UNCHANGED <<mailer, mailed, overtaken>>

MailerDies(w) ==
  /\ mailer[w] # Resting
  /\ lapses < MaxLapses
  /\ lapses' = lapses + 1
  /\ mailer' = [mailer EXCEPT ![w] = Resting]
  /\ UNCHANGED <<email, mailed, overtaken>>

MailerWorks(w) ==
  \/ \E e \in Email : ClaimEmail(w, e)
  \/ \E answer \in Answer, taken \in BOOLEAN : SendEmail(w, answer, taken)
  \/ RecordEmail(w)

EmailNext ==
  \/ \E e \in Email : Enqueue(e) \/ BackoffEnds(e) \/ LeaseEnds(e)
  \/ \E w \in Mailer : MailerWorks(w) \/ MailerDies(w)

\* The loop ticks for ever, and time passes for a lease nobody is working under.
EmailFairness ==
  /\ \A w \in Mailer : WF_emailVars(MailerWorks(w))
  /\ \A e \in Email : /\ WF_emailVars(BackoffEnds(e))
                       /\ WF_emailVars(On(e) = {} /\ LeaseEnds(e))

EmailSpec == EmailInit /\ [][EmailNext]_emailVars /\ EmailFairness

-----------------------------------------------------------------------------
\* A settled email is over: its state stays, and the token its row no longer
\* holds is not sent again.  Only a row that was claimed from under a worker
\* can be written by a late answer.
SettledIsFinal ==
  [][\A e \in Email \ overtaken : email[e].state \in Terminal =>
       email'[e].state = email[e].state /\ (e \in mailed' <=> e \in mailed)]_emailVars

\* Every queued email ends as sent or failed, whatever the provider answers
\* and although workers die and leases run out.
EveryEmailSettles ==
  \A e \in Email : email[e].state = "pending" ~> email[e].state \in Terminal
=============================================================================
