--------------------------- MODULE DeliveryEvents ---------------------------
(***************************************************************************)
(* Delivery events of one outgoing message: src/providers/events.ts and    *)
(* src/mail/delivery-events.ts.  A worker is one running invocation: a     *)
(* webhook request (a batch of one event) or a Cloudflare Queue batch.     *)
(* Each D1 call is a step of its own, so invocations interleave between    *)
(* them; a failed call, an eviction or a timeout ends the invocation       *)
(* without an acknowledgement and the provider delivers the batch again.   *)
(* Providers may also deliver a batch twice, at once or later.             *)
(*                                                                         *)
(* The environment is the send side, which records the provider's answer   *)
(* on the same row with guarded updates (ConfirmSend, RefuseSend), and     *)
(* retention, which may delete the row (DeleteMessage).  The writes of the *)
(* send side that have no guard are in module OutboundSend.                *)
(***************************************************************************)
EXTENDS DeliveryLog, FiniteSets

CONSTANTS
  Workers,          \* concurrent invocations of the Worker
  ProviderIds,      \* message ids a provider can assign
  NoId,             \* provider_message_id not recorded yet
  MaxCas,           \* attempts of the optimistic update (8 in the code)
  MaxFailures,      \* bound: failures injected in a behaviour
  PayloadRequired   \* TRUE: payload_json is NOT NULL, as the migrations leave it

OtherStatuses == {"unranked", "unsupported", "foreign"}

ASSUME DeliveryAssumption ==
  /\ Events \subseteq [id : STRING, pmid : ProviderIds, tagged : BOOLEAN,
                       recipients : SUBSET Recipients,
                       status : DeliveryStatuses \union OtherStatuses]
  /\ Batches # {}
  /\ Batches \subseteq Seq(Events) \ {<<>>}
  /\ NoId \notin ProviderIds
  /\ MaxCas \in Nat \ {0}
  /\ MaxFailures \in Nat
  /\ PayloadRequired \in BOOLEAN

VARIABLES
  alive,        \* the mail_messages row exists
  status,       \* mail_messages.status
  providerId,   \* mail_messages.provider_message_id
  recorded,     \* mail_delivery_events: <<event, row has a message_id>>
  pc,           \* where each invocation is
  job,          \* the batch it handles
  pos,          \* the item of the batch it is at
  matched,      \* whether its lookup found the message
  seen,         \* the summary it read
  tries,        \* optimistic updates tried for this item
  failures      \* failures injected so far

row == <<alive, status, providerId, summary>>
local == <<job, pos, matched, seen, tries>>
history == <<applied, dropped>>
vars == <<row, recorded, acked, history, pc, local, failures>>

Item(w) == job[w][pos[w]]
Recorded(e) == \E linked \in BOOLEAN : <<e, linked>> \in recorded

\* The locals of applyDeliveryEvent and applyDeliveryStatus, before and after a call.
FreshLocals(w) ==
  /\ matched' = [matched EXCEPT ![w] = FALSE]
  /\ seen' = [seen EXCEPT ![w] = EmptySummary]
  /\ tries' = [tries EXCEPT ![w] = 0]

FirstBatch == CHOOSE b \in Batches : TRUE

Init ==
  /\ LogInit
  /\ alive = TRUE
  /\ status = "sending"
  /\ providerId = NoId
  /\ recorded = {}
  /\ pc = [w \in Workers |-> "idle"]
  /\ job = [w \in Workers |-> FirstBatch]
  /\ pos = [w \in Workers |-> 1]
  /\ matched = [w \in Workers |-> FALSE]
  /\ seen = [w \in Workers |-> EmptySummary]
  /\ tries = [w \in Workers |-> 0]
  /\ failures = 0

-----------------------------------------------------------------------------
\* The invocation is over; an idle worker holds no batch.
Finish(w) ==
  /\ pc' = [pc EXCEPT ![w] = "idle"]
  /\ job' = [job EXCEPT ![w] = FirstBatch]
  /\ pos' = [pos EXCEPT ![w] = 1]
  /\ FreshLocals(w)

\* It failed: nothing is acknowledged.
GiveUp(w) == Finish(w) /\ UNCHANGED acked

\* The next item of the batch, or success for the whole batch after the last.
NextItem(w) ==
  IF pos[w] < Len(job[w])
    THEN /\ pos' = [pos EXCEPT ![w] = @ + 1]
         /\ pc' = [pc EXCEPT ![w] = "item"]
         /\ FreshLocals(w)
         /\ UNCHANGED <<job, acked>>
    ELSE /\ Finish(w)
         /\ acked' = acked \union {job[w]}

\* A provider delivers, redelivers or replays a batch.
Deliver(w, b) ==
  /\ pc[w] = "idle"
  /\ pc' = [pc EXCEPT ![w] = "item"]
  /\ job' = [job EXCEPT ![w] = b]
  /\ pos' = [pos EXCEPT ![w] = 1]
  /\ UNCHANGED <<row, recorded, acked, history, matched, seen, tries, failures>>

\* Normalization throws for an event type it does not know: the invocation fails.
RejectUnsupported(w) ==
  /\ pc[w] = "item"
  /\ Item(w).status = "unsupported"
  /\ GiveUp(w)
  /\ UNCHANGED <<row, recorded, history, failures>>

\* A queue item of another source is skipped; a recorded event is answered as duplicate.
SkipItem(w) ==
  /\ pc[w] = "item"
  /\ Item(w).status = "foreign" \/ Recorded(Item(w))
  /\ NextItem(w)
  /\ UNCHANGED <<row, recorded, history, failures>>

\* The event has not been recorded: it enters the pipeline.
BeginItem(w) ==
  /\ pc[w] = "item"
  /\ Item(w).status \notin {"foreign", "unsupported"}
  /\ ~Recorded(Item(w))
  /\ pc' = [pc EXCEPT ![w] = "lookup"]
  /\ UNCHANGED <<row, recorded, acked, history, local, failures>>

\* By provider message id, else by the message id the provider echoes in a tag.
Lookup(w) ==
  LET e     == Item(w)
      found == alive /\ (providerId = e.pmid \/ e.tagged)
  IN  /\ pc[w] = "lookup"
      /\ matched' = [matched EXCEPT ![w] = found]
      /\ pc' = [pc EXCEPT ![w] = IF found /\ Ranked(e) THEN "read" ELSE "record"]
      /\ dropped' = IF found THEN dropped ELSE dropped \union {e}
      /\ UNCHANGED <<row, recorded, acked, applied, job, pos, seen, tries, failures>>

\* SELECT recipient_status_json; a row deleted meanwhile ends the update quietly.
ReadSummary(w) ==
  /\ pc[w] = "read"
  /\ seen' = [seen EXCEPT ![w] = summary]
  /\ pc' = [pc EXCEPT ![w] = IF alive THEN "write" ELSE "record"]
  /\ dropped' = IF alive THEN dropped ELSE dropped \union {Item(w)}
  /\ UNCHANGED <<row, recorded, acked, applied, job, pos, matched, tries, failures>>

\* Variant: the same UPDATE without its condition on recipient_status_json.
WriteSummaryBlindly(w) ==
  LET e    == Item(w)
      next == updateRecipientSummary(seen[w], e.recipients, e.status)
  IN  /\ pc[w] = "write"
      /\ alive
      /\ summary' = next
      /\ status' = aggregateDeliveryStatus(next)
      /\ providerId' = IF providerId = NoId THEN e.pmid ELSE providerId
      /\ applied' = applied \union {e}
      /\ seen' = [seen EXCEPT ![w] = EmptySummary]
      /\ pc' = [pc EXCEPT ![w] = "record"]
      /\ UNCHANGED <<alive, recorded, acked, dropped, job, pos, matched, tries, failures>>

\* UPDATE ... WHERE recipient_status_json is still what was read.
WriteSummary(w) ==
  LET e    == Item(w)
      next == updateRecipientSummary(seen[w], e.recipients, e.status)
  IN  /\ pc[w] = "write"
      /\ alive /\ summary = seen[w]
      /\ summary' = next
      /\ status' = aggregateDeliveryStatus(next)
      /\ providerId' = IF providerId = NoId THEN e.pmid ELSE providerId
      /\ applied' = applied \union {e}
      /\ seen' = [seen EXCEPT ![w] = EmptySummary]
      /\ pc' = [pc EXCEPT ![w] = "record"]
      /\ UNCHANGED <<alive, recorded, acked, dropped, job, pos, matched, tries, failures>>

\* Variant: the last lost race falls through to recording the event.
LoseRaceQuietly(w) ==
  /\ pc[w] = "write"
  /\ ~(alive /\ summary = seen[w])
  /\ tries' = [tries EXCEPT ![w] = (@ + 1) % MaxCas]
  /\ seen' = [seen EXCEPT ![w] = EmptySummary]
  /\ pc' = [pc EXCEPT ![w] = IF tries'[w] # 0 THEN "read" ELSE "record"]
  /\ UNCHANGED <<row, recorded, acked, history, job, pos, matched, failures>>

\* Another invocation changed the row: read again, or answer 503 after MaxCas attempts.
LoseRace(w) ==
  /\ pc[w] = "write"
  /\ ~(alive /\ summary = seen[w])
  /\ IF tries[w] + 1 < MaxCas
       THEN /\ tries' = [tries EXCEPT ![w] = @ + 1]
            /\ seen' = [seen EXCEPT ![w] = EmptySummary]
            /\ pc' = [pc EXCEPT ![w] = "read"]
            /\ UNCHANGED <<acked, job, pos, matched>>
       ELSE GiveUp(w)
  /\ UNCHANGED <<row, recorded, history, failures>>

\* INSERT OR IGNORE: skipped when the event is recorded already, and when the
\* statement, which names no payload_json, meets the NOT NULL constraint on it.
Ignored(e) == PayloadRequired \/ Recorded(e)

\* Variant: a plain INSERT, which throws where INSERT OR IGNORE skips the row.
RecordEventStrictly(w) ==
  LET e == Item(w)
  IN  /\ pc[w] = "record"
      /\ IF Ignored(e)
           THEN GiveUp(w) /\ UNCHANGED recorded
           ELSE NextItem(w) /\ recorded' = recorded \union {<<e, matched[w]>>}
      /\ UNCHANGED <<row, history, failures>>

\* The message row was deleted since it was looked up: the foreign key makes the insert throw.
Orphan(w) == ~Ignored(Item(w)) /\ matched[w] /\ ~alive

RecordEvent(w) ==
  /\ pc[w] = "record"
  /\ IF Orphan(w) THEN GiveUp(w) ELSE NextItem(w)
  /\ recorded' = IF Ignored(Item(w)) \/ Orphan(w) THEN recorded
                 ELSE recorded \union {<<Item(w), matched[w]>>}
  /\ UNCHANGED <<row, history, failures>>

\* A D1 call throws, or the invocation is evicted or times out.
Fail(w) ==
  /\ pc[w] # "idle"
  /\ failures < MaxFailures
  /\ failures' = failures + 1
  /\ GiveUp(w)
  /\ UNCHANGED <<row, recorded, history>>

-----------------------------------------------------------------------------
\* Variant: acceptance overwrites whatever status the row has.
ConfirmSendAlways(id) ==
  /\ alive
  /\ status' = "sent"
  /\ providerId' = IF providerId = NoId THEN id ELSE providerId
  /\ UNCHANGED <<alive, summary, recorded, acked, history, pc, local, failures>>

\* The send side records the provider's acceptance and its message id.
ConfirmSend(id) ==
  /\ alive
  /\ status' = IF status \in {"sending", "retryable_failed"} THEN "sent" ELSE status
  /\ providerId' = IF providerId = NoId THEN id ELSE providerId
  /\ UNCHANGED <<alive, summary, recorded, acked, history, pc, local, failures>>

\* The send side records a refusal or an unknown outcome (updateRetryableState).
RefuseSend(outcome) ==
  /\ alive
  /\ status \in {"sending", "retryable_failed"}
  /\ status' = outcome
  /\ UNCHANGED <<alive, summary, providerId, recorded, acked, history, pc, local, failures>>

\* Retention deletes the events of the message and the message.
DeleteMessage ==
  /\ alive
  /\ alive' = FALSE
  /\ recorded' = {r \in recorded : ~r[2]}
  /\ UNCHANGED <<status, providerId, summary, acked, history, pc, local, failures>>

-----------------------------------------------------------------------------
Step(w) ==
  \/ RejectUnsupported(w) \/ SkipItem(w) \/ BeginItem(w) \/ Lookup(w) \/ ReadSummary(w)
  \/ WriteSummary(w) \/ LoseRace(w) \/ RecordEvent(w)

Next ==
  \/ \E w \in Workers : Step(w) \/ Fail(w) \/ \E b \in Batches : Deliver(w, b)
  \/ \E id \in ProviderIds : ConfirmSend(id)
  \/ \E outcome \in {"sending", "retryable_failed", "failed"} : RefuseSend(outcome)
  \/ DeleteMessage

Spec == Init /\ [][Next]_vars

\* An invocation runs to its end, and a provider goes on delivering a batch: the
\* svix and Brevo retry schedules and the queue's redelivery, external to the code.
Fairness ==
  /\ \A w \in Workers : WF_vars(Step(w))
  /\ \A b \in Batches : SF_vars(\E w \in Workers : Deliver(w, b))

FairSpec == Spec /\ Fairness

-----------------------------------------------------------------------------
Stages == {"idle", "item", "lookup", "read", "write", "record"}

\* Types of all variables; an item is tried at most MaxCas times.
TypeOK ==
  /\ alive \in BOOLEAN
  /\ status \in MessageStatuses
  /\ providerId \in ProviderIds \union {NoId}
  /\ summary \in Summaries
  /\ recorded \subseteq Events \X BOOLEAN
  /\ applied \subseteq Events
  /\ dropped \subseteq Events
  /\ acked \subseteq Batches
  /\ pc \in [Workers -> Stages]
  /\ job \in [Workers -> Batches]
  /\ pos \in [Workers -> Nat \ {0}]
  /\ \A w \in Workers : pos[w] <= Len(job[w])
  /\ matched \in [Workers -> BOOLEAN]
  /\ seen \in [Workers -> Summaries]
  /\ tries \in [Workers -> 0..(MaxCas - 1)]
  /\ failures \in 0..MaxFailures

\* An invocation at the optimistic update handles an event that has a rank.
UpdatesAreRanked ==
  \A w \in Workers : pc[w] \in {"read", "write"} => Ranked(Item(w)) /\ matched[w]

Reflected(e) ==
  \A k \in KeysOfEvent(e) : summary[k] # Unreported /\ RankOf(summary[k]) >= RankOf(e.status)

\* A batch is acknowledged only when every status it reports shows in the
\* summary, whatever raced with it: no update is lost.  The exceptions are a
\* deleted message, and an untagged (Cloudflare) event that came before the send
\* side recorded the provider's message id: it matches no row and is dropped.
AckedEventsAreReflected ==
  \A b \in acked : \A i \in 1..Len(b) :
    Ranked(b[i]) => \/ Reflected(b[i])
                    \/ ~alive
                    \/ ~b[i].tagged /\ b[i] \in dropped

\* The status shown for the message is the aggregate of its recipients as soon as
\* one is reported: the guarded answers to the send never overwrite what events
\* established.  (The unguarded writes of sendMessage are in OutboundSend.)
StatusIsAggregate ==
  summary # EmptySummary => status = aggregateDeliveryStatus(summary)

NoRecipientRegresses ==
  \A k \in Slots : /\ RankOf(summary'[k]) >= RankOf(summary[k])
                   /\ summary[k] # Unreported => summary'[k] # Unreported

\* Out-of-order, duplicated or replayed events never lower a recipient's status.
RecipientsNeverRegress == [][NoRecipientRegresses]_summary

\* The replay of an acknowledged event does not enter the pipeline again, so it
\* touches neither status nor summary (the duplicate fast path of applyDeliveryEvent).
AckedReplayIsNoOp ==
  [][\A w \in Workers :
       alive /\ pc[w] = "item" /\ pc'[w] = "lookup"
         => \A b \in acked : \A i \in 1..Len(b) : b[i] # Item(w)]_pc

\* The step-by-step ingress implements the atomic log of module DeliveryLog:
\* the summary is always the join of the events applied, in whatever order.
ImplementsDeliveryLog == LogSpec

\* A batch without an unsupported event is acknowledged in the end, although
\* invocations fail, lose races and are redelivered.
CleanBatchesAreAcked ==
  \A b \in Batches :
    (\A i \in 1..Len(b) : b[i].status # "unsupported") => <>(b \in acked)
=============================================================================
