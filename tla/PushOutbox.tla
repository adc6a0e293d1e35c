----------------------------- MODULE PushOutbox -----------------------------
(***************************************************************************)
(* Notifications on a member's devices: notification_devices, the rows of  *)
(* notification_push_queue and the workers that drain them                 *)
(* (apps/api/src/notifications).  A worker commits its claim, reads what   *)
(* it is to send in a second transaction, calls the push service, and      *)
(* writes the answer in one or two more: the device it switches off is     *)
(* named by its row, not by the subscription the answer was about.         *)
(***************************************************************************)
EXTENDS Naturals

CONSTANTS
  Notice,            \* notifications of one member
  Device,            \* rows of notification_devices
  Endpoint,          \* push subscriptions a browser can hold
  Pusher,            \* workers in the integration role
  PushAttempts,      \* MAX_ATTEMPTS
  MaxRegistrations,  \* bound: calls of register
  MaxLapses,         \* bound: how often a worker dies, or outlasts its lease
  NoEndpoint

PushAssumption == PushAttempts \in Nat \ {0} /\ MaxRegistrations \in Nat /\ MaxLapses \in Nat

VARIABLES
  device,    \* enabled, the subscription, and whether its member switched it off
  gone,      \* subscriptions the push service has dropped
  notice,    \* notifications: whether there is one, and whether it was read
  push,      \* the queue's rows, one for a notice and a device
  pusher,    \* what a worker holds
  crossed,   \* history: devices given another subscription under a worker
  registrations, lapses

pushVars == <<device, gone, notice, push, pusher, crossed, registrations, lapses>>

Push == Notice \X Device
DeviceRow == [enabled : BOOLEAN, endpoint : Endpoint \cup {NoEndpoint}, dropped : BOOLEAN]
Unregistered == [enabled |-> FALSE, endpoint |-> NoEndpoint, dropped |-> TRUE]
PushRow == [state : {"absent", "pending", "sent", "failed", "skipped"}, attempts : Nat,
            due : BOOLEAN, lease : {"null", "running", "over"}]
PushAnswer == {"taken", "gone", "refused", "unavailable"}
Free == [step |-> "idle"]
Taken == [step : {"claimed"}, row : Push, attempt : Nat]
Sending == [step : {"sending"}, row : Push, attempt : Nat, endpoint : Endpoint]
Told == [step : {"told", "revoked"}, row : Push, attempt : Nat, answer : PushAnswer,
         endpoint : Endpoint]

PushTypeOK ==
  /\ device \in [Device -> DeviceRow]
  /\ gone \subseteq Endpoint
  /\ notice \in [Notice -> {"absent", "unread", "read"}]
  /\ push \in [Push -> PushRow]
  /\ pusher \in [Pusher -> {Free} \cup Taken \cup Sending \cup Told]
  /\ crossed \subseteq Device
  /\ registrations \in 0..MaxRegistrations /\ lapses \in 0..MaxLapses

PushInit ==
  /\ device = [d \in Device |-> Unregistered]
  /\ gone = {} /\ crossed = {}
  /\ notice = [n \in Notice |-> "absent"]
  /\ push = [p \in Push |-> [state |-> "absent", attempts |-> 0, due |-> TRUE, lease |-> "null"]]
  /\ pusher = [w \in Pusher |-> Free]
  /\ registrations = 0 /\ lapses = 0

Enabled(d) == device[d].enabled
Holding(p) == {w \in Pusher : pusher[w] # Free /\ pusher[w].row = p}
Knows(w, d) == pusher[w].step \in {"sending", "told"} /\ pusher[w].row[2] = d

-----------------------------------------------------------------------------
(* device.service *)

\* register: an endpoint leaves the row it was on; the device's own row is
\* written over and enabled again.
Register(d, e) ==
  /\ registrations < MaxRegistrations
  /\ registrations' = registrations + 1
  /\ device' = [x \in Device |->
       IF x = d THEN [enabled |-> TRUE, endpoint |-> e, dropped |-> FALSE]
       ELSE IF Enabled(x) /\ device[x].endpoint = e
            THEN [device[x] EXCEPT !.enabled = FALSE, !.dropped = TRUE]
            ELSE device[x]]
  /\ crossed' = IF \E w \in Pusher : Knows(w, d) THEN crossed \cup {d} ELSE crossed
  /\ UNCHANGED <<gone, notice, push, pusher, lapses>>

SwitchOff(d) ==
  /\ device[d] # Unregistered
  /\ device' = [device EXCEPT ![d].enabled = FALSE, ![d].dropped = TRUE]
  /\ UNCHANGED <<gone, notice, push, pusher, crossed, registrations, lapses>>

\* The browser or the push service ends a subscription; nobody is told.
Expire(e) ==
  /\ e \notin gone
  /\ gone' = gone \cup {e}
  /\ UNCHANGED <<device, notice, push, pusher, crossed, registrations, lapses>>

-----------------------------------------------------------------------------
(* notification.service *)

\* create: the notification and a row for every device that is enabled; its
\* dedupe key admits it once.
Notify(n) ==
  /\ notice[n] = "absent"
  /\ notice' = [notice EXCEPT ![n] = "unread"]
  /\ push' = [p \in Push |-> IF p[1] = n /\ Enabled(p[2])
       THEN [push[p] EXCEPT !.state = "pending"] ELSE push[p]]
  /\ UNCHANGED <<device, gone, pusher, crossed, registrations, lapses>>

MarkRead(n) ==
  /\ notice[n] = "unread"
  /\ notice' = [notice EXCEPT ![n] = "read"]
  /\ UNCHANGED <<device, gone, push, pusher, crossed, registrations, lapses>>

-----------------------------------------------------------------------------
(* push-outbox.service *)

Take(w, p) ==
  /\ pusher[w] = Free
  /\ push[p].state = "pending" /\ push[p].due /\ push[p].lease # "running"
  /\ push' = [push EXCEPT ![p].attempts = @ + 1, ![p].lease = "running"]
  /\ pusher' = [pusher EXCEPT ![w] = [step |-> "claimed", row |-> p, attempt |-> push[p].attempts + 1]]
  /\ UNCHANGED <<device, gone, notice, crossed, registrations, lapses>>

\* settle and retry: only of a row that is still pending.
Settle(p, state) ==
  push' = [push EXCEPT ![p] = IF @.state # "pending" THEN @
             ELSE [@ EXCEPT !.state = state, !.lease = "null"]]
Postpone(p) ==
  push' = [push EXCEPT ![p] = IF @.state # "pending" THEN @
             ELSE [@ EXCEPT !.due = FALSE, !.lease = "null"]]

Look(w) ==
  /\ pusher[w].step = "claimed"
  /\ LET p == pusher[w].row
     IN IF push[p].state = "pending" /\ notice[p[1]] = "unread" /\ Enabled(p[2])
        THEN /\ pusher' = [pusher EXCEPT ![w] = [step |-> "sending", row |-> p,
                              attempt |-> @.attempt, endpoint |-> device[p[2]].endpoint]]
             /\ UNCHANGED push
        ELSE /\ pusher' = [pusher EXCEPT ![w] = Free]
             /\ Settle(p, "skipped")
  /\ UNCHANGED <<device, gone, notice, crossed, registrations, lapses>>

\* 404 and 410 are said of a subscription that is gone.
Send(w, answer) ==
  /\ pusher[w].step = "sending"
  /\ answer = "gone" => pusher[w].endpoint \in gone
  /\ answer = "taken" => pusher[w].endpoint \notin gone
  /\ pusher' = [pusher EXCEPT ![w] = [step |-> "told", row |-> @.row, attempt |-> @.attempt,
                  answer |-> answer, endpoint |-> @.endpoint]]
  /\ UNCHANGED <<device, gone, notice, push, crossed, registrations, lapses>>

\* Slip: every refusal that is final ends the subscription.
RevokesRefused(answer) == answer \in {"gone", "refused"}
\* classifyPushFailure
Revokes(answer) == answer = "gone"
Fails(answer, attempt) == answer \in {"gone", "refused"} \/ attempt >= PushAttempts

Record(w) ==
  /\ \/ pusher[w].step = "told" /\ ~Revokes(pusher[w].answer)
     \/ pusher[w].step = "revoked"
  /\ LET p == pusher[w].row
     IN IF pusher[w].answer = "taken" THEN Settle(p, "sent")
        ELSE IF Fails(pusher[w].answer, pusher[w].attempt) THEN Settle(p, "failed")
        ELSE Postpone(p)
  /\ pusher' = [pusher EXCEPT ![w] = Free]
  /\ UNCHANGED <<device, gone, notice, crossed, registrations, lapses>>

\* The device's row as it is now, whatever subscription it has by now.
RevokeDevice(w) ==
  /\ pusher[w].step = "told" /\ Revokes(pusher[w].answer)
  /\ device' = [device EXCEPT ![pusher[w].row[2]].enabled = FALSE]
  /\ pusher' = [pusher EXCEPT ![w].step = "revoked"]
  /\ UNCHANGED <<gone, notice, push, crossed, registrations, lapses>>

DelayEnds(p) ==
  /\ ~push[p].due
  /\ push' = [push EXCEPT ![p].due = TRUE]
  /\ UNCHANGED <<device, gone, notice, pusher, crossed, registrations, lapses>>

LeaseRunsOut(p) ==
  /\ push[p].lease = "running"
  /\ Holding(p) # {} => lapses < MaxLapses
  /\ lapses' = IF Holding(p) = {} THEN lapses ELSE lapses + 1
  /\ push' = [push EXCEPT ![p].lease = "over"]
  /\ UNCHANGED <<device, gone, notice, pusher, crossed, registrations>>

PusherDies(w) ==
  /\ pusher[w] # Free
  /\ lapses < MaxLapses
  /\ lapses' = lapses + 1
  /\ pusher' = [pusher EXCEPT ![w] = Free]
  /\ UNCHANGED <<device, gone, notice, push, crossed, registrations>>

PushNext ==
  \/ \E d \in Device : SwitchOff(d) \/ \E e \in Endpoint : Register(d, e)
  \/ \E e \in Endpoint : Expire(e)
  \/ \E n \in Notice : Notify(n) \/ MarkRead(n)
  \/ \E p \in Push : DelayEnds(p) \/ LeaseRunsOut(p)
  \/ \E w \in Pusher :
       \/ \E p \in Push : Take(w, p)
       \/ \E answer \in PushAnswer : Send(w, answer)
       \/ Look(w) \/ Record(w) \/ RevokeDevice(w) \/ PusherDies(w)

PushSpec == PushInit /\ [][PushNext]_pushVars

-----------------------------------------------------------------------------
\* A device goes quiet only because its member switched it off or moved its
\* endpoint to another device, or because the subscription it has now is gone;
\* unless it was registered again while a worker had the old subscription in
\* hand, whose late answer switches the new one off.
OffForAReason ==
  \A d \in Device \ crossed :
    device[d].enabled \/ device[d].dropped \/ device[d].endpoint \in gone
=============================================================================
