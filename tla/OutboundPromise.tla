--------------------------- MODULE OutboundPromise ---------------------------
(***************************************************************************)
(* What the outbound path promises for the commands people and broadcasts  *)
(* hand it, said without leases, versions or workers: a command is         *)
(* scheduled in the very step that makes it exist, stays scheduled for as  *)
(* long as it is open, and is closed or accepted once.                     *)
(*                                                                         *)
(* Scheduling and status are two facts, kept by two tables; the promise is *)
(* that no step moves one without the other (DEL-07, DEL-14).              *)
(***************************************************************************)
CONSTANT Message

VARIABLES
  status,     \* what has become of each command
  scheduled   \* the commands something will still be attempted for

promiseVars == <<status, scheduled>>

PromiseInit == /\ status = [m \in Message |-> "absent"]
               /\ scheduled = {}

\* One transaction makes some commands exist and schedules exactly those.
Request(new) ==
  /\ new # {}
  /\ \A m \in new : status[m] = "absent"
  /\ status' = [m \in Message |-> IF m \in new THEN "open" ELSE status[m]]
  /\ scheduled' = scheduled \cup new

\* The provider took it. Nothing but an open command is ever accepted.
Accept(m) ==
  /\ status[m] = "open"
  /\ status' = [status EXCEPT ![m] = "accepted"]
  /\ scheduled' = scheduled \ {m}

\* Rejected, skipped, cancelled, failed or unknown: one recovery can close
\* several at once. A closed command is never opened again.
Close(lost) ==
  /\ lost # {}
  /\ \A m \in lost : status[m] = "open"
  /\ status' = [m \in Message |-> IF m \in lost THEN "closed" ELSE status[m]]
  /\ scheduled' = scheduled \ lost

PromiseNext == \/ \E new \in SUBSET Message : Request(new)
               \/ \E m \in Message : Accept(m)
               \/ \E lost \in SUBSET Message : Close(lost)

PromiseSpec == PromiseInit /\ [][PromiseNext]_promiseVars
=============================================================================
