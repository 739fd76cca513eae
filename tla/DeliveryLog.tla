----------------------------- MODULE DeliveryLog -----------------------------
(***************************************************************************)
(* What the delivery-event ingress promises, whatever the interleaving of  *)
(* webhooks, queue batches, retries and replays:                           *)
(*   - the recipient summary of a message is the join, by rank, of the     *)
(*     events applied so far: neither their order nor how often each came  *)
(*     matters;                                                            *)
(*   - a batch is acknowledged to its provider only when every event of it *)
(*     has been applied, or was dropped for want of a message, or carries  *)
(*     nothing to apply.                                                   *)
(* Module DeliveryEvents is shown to implement this specification.         *)
(***************************************************************************)
EXTENDS DeliveryStatus, Sequences

CONSTANTS
  Events,    \* delivery events of one message: [id, pmid, tagged, recipients, status]
  Batches    \* the deliveries a provider makes: non-empty sequences of events

VARIABLES
  applied,   \* events merged into the summary
  dropped,   \* events for which no message row was found
  acked,     \* batches answered with success
  summary    \* the recipient summary

logVars == <<applied, dropped, acked, summary>>

Ranked(e) == e.status \in DeliveryStatuses
KeysOfEvent(e) == KeysOf(e.recipients)
Settled(e) == Ranked(e) => e \in applied \union dropped

\* The highest-ranked status reported for each recipient by a set of events.
Join(E) ==
  [k \in Slots |->
     LET reported == {e.status : e \in {x \in E : k \in KeysOfEvent(x)}}
     IN  IF reported = {} THEN Unreported ELSE HighestRanked(reported)]

LogInit ==
  /\ applied = {}
  /\ dropped = {}
  /\ acked = {}
  /\ summary = EmptySummary

Apply(e) ==
  /\ Ranked(e)
  /\ applied' = applied \union {e}
  /\ summary' = Join(applied')
  /\ UNCHANGED <<dropped, acked>>

Drop(e) ==
  /\ dropped' = dropped \union {e}
  /\ UNCHANGED <<applied, acked, summary>>

Acknowledge(b) ==
  /\ \A i \in 1..Len(b) : Settled(b[i])
  /\ acked' = acked \union {b}
  /\ UNCHANGED <<applied, dropped, summary>>

LogNext ==
  \/ \E e \in Events : Apply(e) \/ Drop(e)
  \/ \E b \in Batches : Acknowledge(b)

LogSpec == LogInit /\ [][LogNext]_logVars
=============================================================================
