--------------------------- MODULE DeliveryStatus ---------------------------
(***************************************************************************)
(* The pure part of delivery-event handling: the rank of a delivery status,*)
(* the per-recipient merge (updateRecipientSummary, providers/events.ts)   *)
(* and the status shown for the message (aggregateDeliveryStatus, lib.ts). *)
(*                                                                         *)
(* A recipient summary is the JSON object stored in recipient_status_json. *)
(* It is a total function here: Unreported stands for a missing key.       *)
(***************************************************************************)
EXTENDS Naturals

CONSTANTS
  Recipients,   \* recipient addresses an event can name
  Star          \* the key "*" of an event that names no recipient

ASSUME StarAssumption == Star \notin Recipients

DELIVERY_RANK ==
  [ sending |-> 0, sent |-> 1, delivery_delayed |-> 2, delivered |-> 3, opened |-> 4,
    clicked |-> 5, failed |-> 6, suppressed |-> 7, bounced |-> 8, complained |-> 9 ]

DeliveryStatuses ==
  { "sending", "sent", "delivery_delayed", "delivered", "opened",
    "clicked", "failed", "suppressed", "bounced", "complained" }

NegativeStatuses == { "bounced", "complained", "failed", "suppressed" }

Slots == Recipients \union {Star}
Unreported == "unreported"
Summaries == [Slots -> DeliveryStatuses \union {Unreported}]
EmptySummary == [k \in Slots |-> Unreported]

\* `next[recipient] || "sending"`, ranked: a recipient without a key counts as "sending".
RankOf(s) == IF s = Unreported THEN 0 ELSE DELIVERY_RANK[s]

KeysOf(recipients) == IF recipients = {} THEN {Star} ELSE recipients

\* Variant: the newest event wins, whatever its rank.
overwriteRecipientSummary(current, recipients, status) ==
  [k \in Slots |-> IF k \in KeysOf(recipients) THEN status ELSE current[k]]

updateRecipientSummary(current, recipients, status) ==
  [k \in Slots |->
     IF k \in KeysOf(recipients) /\ RankOf(status) >= RankOf(current[k])
       THEN status
       ELSE current[k]]

ReportedStatuses(summary) == {summary[k] : k \in Slots} \ {Unreported}

\* The first element of greatest rank; ranks are distinct, so it is the only one.
HighestRanked(S) == CHOOSE s \in S : \A t \in S : RankOf(t) <= RankOf(s)

aggregateDeliveryStatus(summary) ==
  LET values   == ReportedStatuses(summary)
      negative == values \intersect NegativeStatuses
  IN  IF negative # {} /\ values # negative THEN "partially_failed"
      ELSE HighestRanked(IF negative # {} THEN negative ELSE values \union {"sent"})

MessageStatuses == DeliveryStatuses \union {"partially_failed", "retryable_failed"}
=============================================================================
