------------------------------ MODULE Sessions ------------------------------
(***************************************************************************)
(* The password of one account, its sessions and its recovery links:       *)
(* apps/api/src/auth.  A request is an HTTP call being served.  login      *)
(* reads and verifies the stored hash, and inserts the session later, on   *)
(* the pool, in no transaction.  changePassword and the completion of a    *)
(* recovery are transactions that take row locks, and between what one of  *)
(* them revokes and its COMMIT others read what was there before.          *)
(*                                                                         *)
(* A password is the number of replacements before it: nobody chooses one  *)
(* twice.                                                                  *)
(***************************************************************************)
EXTENDS Naturals, FiniteSets

CONSTANTS
  Request,      \* calls that can be served at once
  Session,      \* rows of user_sessions
  Link,         \* rows of password_recovery_challenges
  MaxAttempts,  \* DEFAULT_LIMITS.maxAttempts
  MaxPassword,  \* bound: replacements of the password
  NoLink        \* a transaction that spends no link: changePassword

SessionsAssumption ==
  /\ MaxAttempts \in Nat \ {0}
  /\ MaxPassword \in Nat
  /\ NoLink \notin Link

VARIABLES
  password,  \* users.password_hash
  session,   \* each row: its state and the password its login proved
  link,      \* each challenge's state
  attempts,  \* auth_rate_limits of the account's login bucket
  request,   \* what each call holds
  overlap,   \* history: rows made while a replacement was under way
  spent      \* history: how many replacements each link has paid for

vars == <<password, session, link, attempts, request, overlap, spent>>

Password == 0..MaxPassword
Row == [state : {"none", "live", "revoked"}, proof : Password]
LinkState == {"none", "open", "used", "expired"}
Idle == [step |-> "idle"]
Verified == [step : {"verified"}, proof : Password]
Change == [step : {"authenticated", "user", "swept"}, link : {NoLink},
           keeps : SUBSET Session, sessions : SUBSET Session, links : SUBSET Link]
Completion == [step : {"claimed", "user", "swept"}, link : Link,
               keeps : {{}}, sessions : SUBSET Session, links : SUBSET Link]

SessionsTypeOK ==
  /\ password \in Password
  /\ session \in [Session -> Row]
  /\ link \in [Link -> LinkState]
  /\ attempts \in 0..MaxAttempts + 1
  /\ request \in [Request -> {Idle} \cup Verified \cup Change \cup Completion]
  /\ overlap \subseteq Session \cup Link
  /\ spent \in [Link -> Nat]

Init ==
  /\ password = 0
  /\ session = [s \in Session |-> [state |-> "none", proof |-> 0]]
  /\ link = [l \in Link |-> "none"]
  /\ attempts = 0
  /\ request = [r \in Request |-> Idle]
  /\ overlap = {}
  /\ spent = [l \in Link |-> 0]

Live == {s \in Session : session[s].state = "live"}
OpenLinks == {l \in Link : link[l] = "open"}
In(step) == {r \in Request : request[r].step = step}

\* Who holds the users row, and who a challenge row: the completion that has
\* claimed it, or the one that has swept it.
UserLocked == In("user") \cup In("swept") # {}
Holder(l) == {r \in In("claimed") \cup In("user") \cup In("swept") :
                request[r].link = l \/ l \in request[r].links}

\* changePassword reads the users row FOR UPDATE, and a row that refers to it
\* waits for its end; the UPDATE of a completion lets such rows in.
UserExclusive == \E r \in In("user") \cup In("swept") : request[r].link = NoLink

\* A replacement that has swept and not committed leaves out what comes now.
UnderWay == In("swept") # {}

-----------------------------------------------------------------------------
(* login.  The limiter counts the attempt before the hash is read, and      *)
(* refuses past the limit; a wrong password ends the call.                  *)

Verify(r, typed) ==
  /\ request[r] = Idle
  /\ attempts' = IF attempts > MaxAttempts THEN attempts ELSE attempts + 1
  /\ request' = IF attempts < MaxAttempts /\ typed = password
                THEN [request EXCEPT ![r] = [step |-> "verified", proof |-> typed]]
                ELSE request
  /\ UNCHANGED <<password, session, link, overlap, spent>>

SignIn(r, s) ==
  /\ request[r] \in Verified
  /\ session[s].state = "none"
  /\ ~UserExclusive
  /\ session' = [session EXCEPT ![s] = [state |-> "live", proof |-> request[r].proof]]
  /\ attempts' = 0
  /\ overlap' = IF UnderWay \/ request[r].proof # password THEN overlap \cup {s} ELSE overlap
  /\ request' = [request EXCEPT ![r] = Idle]
  /\ UNCHANGED <<password, link, spent>>

\* revokeSession, logout, and the end of expires_at.
Revoke(s) ==
  /\ s \in Live
  /\ session' = [session EXCEPT ![s].state = "revoked"]
  /\ UNCHANGED <<password, link, attempts, request, overlap, spent>>

\* window_started_at lies a window back: the next attempt counts from one.
WindowEnds ==
  /\ attempts > 0
  /\ attempts' = 0
  /\ UNCHANGED <<password, session, link, request, overlap, spent>>

-----------------------------------------------------------------------------
(* Recovery links.                                                          *)

\* start: the challenge and its email are one transaction.
StartRecovery(l) ==
  /\ link[l] = "none"
  /\ ~UserExclusive
  /\ link' = [link EXCEPT ![l] = "open"]
  /\ overlap' = IF UnderWay THEN overlap \cup {l} ELSE overlap
  /\ UNCHANGED <<password, session, attempts, request, spent>>

LinkExpires(l) ==
  /\ link[l] = "open"
  /\ Holder(l) = {}
  /\ link' = [link EXCEPT ![l] = "expired"]
  /\ UNCHANGED <<password, session, attempts, request, overlap, spent>>

\* Slip: the challenge is read and marked later, so two completions read it.
ClaimLinkUnlocked(r, l) ==
  /\ request[r] = Idle
  /\ link[l] = "open"
  /\ request' = [request EXCEPT ![r] =
       [step |-> "claimed", link |-> l, keeps |-> {}, sessions |-> {}, links |-> {}]]
  /\ UNCHANGED <<password, session, link, attempts, overlap, spent>>

\* complete: UPDATE ... WHERE used_at IS NULL takes the row, or waits for it
\* and, once its holder has committed, finds it used.
ClaimLink(r, l) ==
  /\ request[r] = Idle
  /\ link[l] = "open"
  /\ Holder(l) = {}
  /\ request' = [request EXCEPT ![r] =
       [step |-> "claimed", link |-> l, keeps |-> {}, sessions |-> {}, links |-> {}]]
  /\ UNCHANGED <<password, session, link, attempts, overlap, spent>>

\* changePassword starts from a session that authenticate has let in; the row
\* of users is read FOR UPDATE, so the hash it verifies is the last committed.
BeginChange(r, s) ==
  /\ request[r] = Idle
  /\ s \in Live
  /\ request' = [request EXCEPT ![r] = [step |-> "authenticated", link |-> NoLink,
       keeps |-> {s}, sessions |-> {}, links |-> {}]]
  /\ UNCHANGED <<password, session, link, attempts, overlap, spent>>

-----------------------------------------------------------------------------
(* The transaction that replaces a password: the users row, then every      *)
(* session of the account but the one that proved the change, then (after a *)
(* recovery) every other link.  What the statements do is seen at COMMIT.   *)

\* changePassword goes on only if the current password was typed.
LockUser(r, typed) ==
  /\ request[r].step \in {"authenticated", "claimed"}
  /\ ~UserLocked
  /\ password < MaxPassword
  /\ request' = [request EXCEPT ![r] =
       IF @.link = NoLink /\ typed # password THEN Idle ELSE [@ EXCEPT !.step = "user"]]
  /\ UNCHANGED <<password, session, link, attempts, overlap, spent>>

\* Slip: a replacement revokes only the sessions of passwords before this one.
SweptSessionsProven(r) == {s \in Live : session[s].proof # password}
SweptSessions(r) == Live \ request[r].keeps

SweptLinks(r) == IF request[r].link = NoLink THEN {} ELSE OpenLinks

\* A link another completion has claimed is waited for: that one waits for the
\* users row, and the database ends one of them (Abort).
Sweep(r) ==
  /\ request[r].step = "user"
  /\ \A l \in SweptLinks(r) : Holder(l) \subseteq {r}
  /\ request' = [request EXCEPT ![r].step = "swept",
                                ![r].sessions = SweptSessions(r),
                                ![r].links = SweptLinks(r)]
  /\ UNCHANGED <<password, session, link, attempts, overlap, spent>>

\* The proving session has proved the password it leaves behind.
Commit(r) ==
  /\ request[r].step = "swept"
  /\ password' = password + 1
  /\ session' = [s \in Session |->
       IF s \in request[r].sessions THEN [session[s] EXCEPT !.state = "revoked"]
       ELSE IF s \in request[r].keeps THEN [session[s] EXCEPT !.proof = password + 1]
       ELSE session[s]]
  /\ link' = [l \in Link |-> IF l \in request[r].links THEN "used" ELSE link[l]]
  /\ spent' = [l \in Link |-> IF l = request[r].link THEN spent[l] + 1 ELSE spent[l]]
  /\ request' = [request EXCEPT ![r] = Idle]
  /\ UNCHANGED <<attempts, overlap>>

\* An error, a lost connection or a deadlock found: ROLLBACK.
Abort(r) ==
  /\ request[r].step \in {"claimed", "user", "swept"}
  /\ request' = [request EXCEPT ![r] = Idle]
  /\ UNCHANGED <<password, session, link, attempts, overlap, spent>>

-----------------------------------------------------------------------------
Next ==
  \/ WindowEnds
  \/ \E s \in Session : Revoke(s)
  \/ \E l \in Link : StartRecovery(l) \/ LinkExpires(l)
  \/ \E r \in Request :
       \/ \E typed \in Password : Verify(r, typed) \/ LockUser(r, typed)
       \/ \E s \in Session : SignIn(r, s) \/ BeginChange(r, s)
       \/ \E l \in Link : ClaimLink(r, l)
       \/ Sweep(r) \/ Commit(r) \/ Abort(r)

SessionsSpec == Init /\ [][Next]_vars

-----------------------------------------------------------------------------
(* Properties.                                                              *)

\* A session that is still live under a password it did not prove was made
\* while that password was being replaced: by a login that had verified the
\* one before, or between what the replacement revoked and its commit.
\* Nothing that was there before outlives a change or a recovery.
OnlyOverlapOutlives ==
  \A s \in Live : session[s].proof = password \/ s \in overlap

\* A recovery link replaces at most one password, whoever holds it, and is
\* not open afterwards.
LinkSpentOnce ==
  \A l \in Link : spent[l] <= 1 /\ (spent[l] = 1 => link[l] = "used")
=============================================================================
