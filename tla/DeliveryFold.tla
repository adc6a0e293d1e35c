---------------------------- MODULE DeliveryFold ----------------------------
(***************************************************************************)
(* How one provider receipt moves what we believe of a message             *)
(* (foldDelivery, packages/domain/src/channels/outcome.ts) and the         *)
(* broadcast recipient that follows it (settleRecipient).                  *)
(***************************************************************************)
EXTENDS Naturals

DeliveryState == {"sent", "failed", "delivered", "read"}

\* DELIVERY_RANK. A message with no delivery_state ranks below every receipt.
Rank == [none |-> 0, sent |-> 1, failed |-> 2, delivered |-> 3, read |-> 4]

\* delivery_anomaly is incoming_after_current, kept as the pair.
NoAnomaly == <<"none", "none">>
Anomaly == {NoAnomaly} \cup DeliveryState \X DeliveryState
Unheard == [state |-> "none", anomaly |-> NoAnomaly]
Delivery == [state: DeliveryState \cup {"none"}, anomaly: Anomaly]

\* Slip: the latest receipt wins.
FoldLatest(current, incoming) == [current EXCEPT !.state = incoming]

foldDelivery(current, incoming) ==
  IF current.state = "none" THEN [state |-> incoming, anomaly |-> NoAnomaly]
  ELSE IF Rank[incoming] > Rank[current.state]
       THEN [current EXCEPT !.state = incoming]
  ELSE IF incoming = current.state THEN current
  ELSE [current EXCEPT !.anomaly = <<incoming, current.state>>]

\* settleRecipient: 'sent' says nothing new, 'failed' only undoes 'accepted',
\* and what the provider delivered is never taken back.
settleRecipient(state, says) ==
  IF says = "failed" /\ state = "accepted" THEN "failed"
  ELSE IF says \in {"delivered", "read"} /\ state \in {"accepted", "failed", "delivered"}
       THEN says ELSE state
=============================================================================
