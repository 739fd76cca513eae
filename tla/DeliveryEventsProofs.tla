------------------------ MODULE DeliveryEventsProofs ------------------------
(***************************************************************************)
(* Proofs about module DeliveryEvents, for any set of events, batches and  *)
(* invocations and for either schema.                                      *)
(***************************************************************************)
EXTENDS DeliveryEvents, TLAPS

\* The rank of a status or of an unreported recipient is a number.
LEMMA RankType ==
  \A s \in DeliveryStatuses \union {Unreported} : RankOf(s) \in Nat
  BY DEF DeliveryStatuses, RankOf, DELIVERY_RANK, Unreported

\* Unreported is not a status an event can carry.
LEMMA UnreportedIsNoStatus == Unreported \notin DeliveryStatuses
  BY DEF DeliveryStatuses, Unreported

\* The merge of updateRecipientSummary yields a summary.
LEMMA MergeType ==
  ASSUME NEW current \in Summaries, NEW recipients, NEW s \in DeliveryStatuses
  PROVE  updateRecipientSummary(current, recipients, s) \in Summaries
  BY DEF updateRecipientSummary, Summaries

\* The merge lowers no recipient's rank and forgets no recipient.
LEMMA MergeNeverRegresses ==
  ASSUME NEW current \in Summaries, NEW recipients, NEW s \in DeliveryStatuses,
         NEW k \in Slots
  PROVE  LET next == updateRecipientSummary(current, recipients, s)
         IN  /\ RankOf(next[k]) >= RankOf(current[k])
             /\ current[k] # Unreported => next[k] # Unreported
<1>1. RankOf(current[k]) \in Nat
  BY RankType DEF Summaries
<1>. QED
  BY <1>1, UnreportedIsNoStatus DEF updateRecipientSummary, Summaries

\* After the merge every recipient the event names has at least its rank.
LEMMA MergeReflects ==
  ASSUME NEW current \in Summaries, NEW recipients \in SUBSET Recipients,
         NEW s \in DeliveryStatuses, NEW k \in KeysOf(recipients)
  PROVE  LET next == updateRecipientSummary(current, recipients, s)
         IN  k \in Slots /\ next[k] # Unreported /\ RankOf(next[k]) >= RankOf(s)
<1>1. k \in Slots
  BY DEF KeysOf, Slots
<1>2. RankOf(s) \in Nat /\ RankOf(current[k]) \in Nat
  BY <1>1, RankType DEF Summaries
<1>3. CASE RankOf(s) >= RankOf(current[k])
  BY <1>1, <1>2, <1>3, UnreportedIsNoStatus DEF updateRecipientSummary
<1>4. CASE ~(RankOf(s) >= RankOf(current[k]))
  <2>1. current[k] # Unreported
    BY <1>2, <1>4 DEF RankOf
  <2>. QED
    BY <1>1, <1>2, <1>4, <2>1 DEF updateRecipientSummary
<1>. QED
  BY <1>3, <1>4

\* A non-empty set of statuses has a highest-ranked one.
LEMMA HighestRankedInSet ==
  ASSUME NEW S \in SUBSET DeliveryStatuses, S # {}
  PROVE  HighestRanked(S) \in S
<1>1. \A s \in DeliveryStatuses : RankOf(s) \in 0..9
  BY DEF DeliveryStatuses, RankOf, DELIVERY_RANK, Unreported
<1>2. \E s \in S : \A t \in S : RankOf(t) <= RankOf(s)
  BY <1>1
<1>. QED
  BY <1>2, Zenon DEF HighestRanked

\* The aggregate is a status a message can have.
LEMMA AggregateType ==
  ASSUME NEW s \in Summaries
  PROVE  aggregateDeliveryStatus(s) \in MessageStatuses
<1>. DEFINE values   == ReportedStatuses(s)
            negative == values \intersect NegativeStatuses
<1>1. values \subseteq DeliveryStatuses
  BY DEF ReportedStatuses, Summaries
<1>2. "sent" \in DeliveryStatuses
  BY DEF DeliveryStatuses
<1>3. CASE negative # {}
  BY <1>1, <1>3, HighestRankedInSet DEF aggregateDeliveryStatus, MessageStatuses
<1>4. CASE negative = {}
  <2>1. HighestRanked(values \union {"sent"}) \in values \union {"sent"}
    BY <1>1, <1>2, HighestRankedInSet
  <2>. QED
    BY <1>1, <1>2, <1>4, <2>1 DEF aggregateDeliveryStatus, MessageStatuses
<1>. QED
  BY <1>3, <1>4

-----------------------------------------------------------------------------
\* Types: the variables keep their types, positions stay within the batch and the
\* optimistic update is tried at most MaxCas times.

\* The item a worker is at is an event, so its fields have their types.
LEMMA ItemType ==
  ASSUME TypeOK, NEW w \in Workers
  PROVE  /\ Item(w) \in Events
         /\ Item(w).pmid \in ProviderIds
         /\ Item(w).recipients \in SUBSET Recipients
BY DeliveryAssumption DEF TypeOK, Item

\* A worker that ends its invocation is left with a well-typed idle state.
LEMMA FinishType ==
  ASSUME TypeOK, NEW w \in Workers, Finish(w)
  PROVE  /\ pc' \in [Workers -> Stages]
         /\ job' \in [Workers -> Batches]
         /\ pos' \in [Workers -> Nat \ {0}]
         /\ \A v \in Workers : pos'[v] <= Len(job'[v])
         /\ matched' \in [Workers -> BOOLEAN]
         /\ seen' \in [Workers -> Summaries]
         /\ tries' \in [Workers -> 0..(MaxCas - 1)]
<1>1. FirstBatch \in Batches
  BY DeliveryAssumption DEF FirstBatch
<1>2. FirstBatch \in Seq(Events) /\ FirstBatch # <<>>
  BY <1>1, DeliveryAssumption
<1>3. 1 <= Len(FirstBatch)
  BY <1>2
<1>4. EmptySummary \in Summaries
  BY DEF EmptySummary, Summaries
<1>. QED
  BY <1>1, <1>3, <1>4, DeliveryAssumption DEF Finish, FreshLocals, TypeOK, Stages

\* Moving to the next item, or acknowledging the batch after the last, keeps the types.
LEMMA NextItemType ==
  ASSUME TypeOK, NEW w \in Workers, NextItem(w)
  PROVE  /\ acked' \subseteq Batches
         /\ pc' \in [Workers -> Stages]
         /\ job' \in [Workers -> Batches]
         /\ pos' \in [Workers -> Nat \ {0}]
         /\ \A v \in Workers : pos'[v] <= Len(job'[v])
         /\ matched' \in [Workers -> BOOLEAN]
         /\ seen' \in [Workers -> Summaries]
         /\ tries' \in [Workers -> 0..(MaxCas - 1)]
<1>1. CASE pos[w] < Len(job[w])
  <2>1. EmptySummary \in Summaries
    BY DEF EmptySummary, Summaries
  <2>2. Len(job[w]) \in Nat
    BY DeliveryAssumption DEF TypeOK
  <2>3. pos'[w] <= Len(job'[w])
    BY <1>1, <2>2 DEF NextItem, TypeOK
  <2>4. \A v \in Workers \ {w} : pos'[v] = pos[v] /\ job'[v] = job[v]
    BY <1>1 DEF NextItem, TypeOK
  <2>5. 0 \in 0..(MaxCas - 1)
    BY DeliveryAssumption
  <2>6. pos' \in [Workers -> Nat \ {0}]
    <3>1. pos[w] + 1 \in Nat \ {0}
      BY DEF TypeOK
    <3>2. pos' = [pos EXCEPT ![w] = pos[w] + 1]
      BY <1>1 DEF NextItem
    <3>. QED
      BY <3>1, <3>2 DEF TypeOK
  <2>7. \A v \in Workers : pos'[v] <= Len(job'[v])
    BY <2>3, <2>4 DEF TypeOK
  <2>8. /\ matched' \in [Workers -> BOOLEAN]
        /\ seen' \in [Workers -> Summaries]
        /\ tries' \in [Workers -> 0..(MaxCas - 1)]
    <3>1. FreshLocals(w)
      BY <1>1 DEF NextItem
    <3>. QED
      BY <2>1, <2>5, <3>1 DEF FreshLocals, TypeOK
  <2>9. /\ acked' \subseteq Batches
        /\ pc' \in [Workers -> Stages]
        /\ job' \in [Workers -> Batches]
    BY <1>1 DEF NextItem, TypeOK, Stages
  <2>. QED
    BY <2>6, <2>7, <2>8, <2>9
<1>2. CASE ~(pos[w] < Len(job[w]))
  BY <1>2, FinishType DEF NextItem, TypeOK
<1>. QED
  BY <1>1, <1>2

\* Only ranked events reach the optimistic update (the caller's check of
\* DELIVERY_RANK), and the variables keep their types: each needs the other.
LEMMA TypesAndStages == Spec => [](TypeOK /\ UpdatesAreRanked)
<1>1. Init => TypeOK /\ UpdatesAreRanked
  <2>1. FirstBatch \in Batches
    BY DeliveryAssumption DEF FirstBatch
  <2>2. FirstBatch \in Seq(Events) /\ FirstBatch # <<>>
    BY <2>1, DeliveryAssumption
  <2>3. 1 <= Len(FirstBatch)
    BY <2>2
  <2>. QED
    BY <2>1, <2>3, DeliveryAssumption
       DEF Init, LogInit, TypeOK, EmptySummary, Summaries, Stages, MessageStatuses,
           DeliveryStatuses, UpdatesAreRanked
<1>2. TypeOK /\ UpdatesAreRanked /\ [Next]_vars => TypeOK'
  <2>. SUFFICES ASSUME TypeOK, UpdatesAreRanked, [Next]_vars
                PROVE  TypeOK'
    OBVIOUS
  <2>1. ASSUME NEW w \in Workers, NEW b \in Batches, Deliver(w, b)
        PROVE  TypeOK'
    <3>1. b \in Seq(Events) /\ b # <<>>
      BY DeliveryAssumption
    <3>2. 1 <= Len(b)
      BY <3>1
    <3>. QED
      BY <2>1, <3>2 DEF Deliver, TypeOK, Stages, row, history
  <2>2. ASSUME NEW w \in Workers, RejectUnsupported(w)
        PROVE  TypeOK'
    BY <2>2, FinishType DEF RejectUnsupported, GiveUp, TypeOK, row, history
  <2>3. ASSUME NEW w \in Workers, SkipItem(w)
        PROVE  TypeOK'
    BY <2>3, NextItemType DEF SkipItem, TypeOK, row, history
  <2>4. ASSUME NEW w \in Workers, BeginItem(w)
        PROVE  TypeOK'
    BY <2>4 DEF BeginItem, TypeOK, Stages, row, history, local
  <2>5. ASSUME NEW w \in Workers, Lookup(w)
        PROVE  TypeOK'
    BY <2>5, ItemType DEF Lookup, TypeOK, Stages, row
  <2>6. ASSUME NEW w \in Workers, ReadSummary(w)
        PROVE  TypeOK'
    BY <2>6, ItemType DEF ReadSummary, TypeOK, Stages, row
  <2>7. ASSUME NEW w \in Workers, WriteSummary(w)
        PROVE  TypeOK'
    <3>. DEFINE next == updateRecipientSummary(seen[w], Item(w).recipients, Item(w).status)
    <3>1. next \in Summaries
      BY <2>7, MergeType DEF TypeOK, Ranked, UpdatesAreRanked, WriteSummary
    <3>2. aggregateDeliveryStatus(next) \in MessageStatuses
      BY <3>1, AggregateType
    <3>3. EmptySummary \in Summaries
      BY DEF EmptySummary, Summaries
    <3>. HIDE DEF next
    <3>. QED
      BY <2>7, <3>1, <3>2, <3>3, ItemType DEF WriteSummary, TypeOK, Stages, next
  <2>8. ASSUME NEW w \in Workers, LoseRace(w)
        PROVE  TypeOK'
    <3>1. CASE tries[w] + 1 < MaxCas
      <4>1. EmptySummary \in Summaries
        BY DEF EmptySummary, Summaries
      <4>2. tries[w] + 1 \in 0..(MaxCas - 1)
        BY <3>1, DeliveryAssumption DEF TypeOK
      <4>. QED
        BY <2>8, <3>1, <4>1, <4>2 DEF LoseRace, TypeOK, Stages, row, history
    <3>2. CASE ~(tries[w] + 1 < MaxCas)
      BY <2>8, <3>2, FinishType DEF LoseRace, GiveUp, TypeOK, row, history
    <3>. QED
      BY <3>1, <3>2
  <2>9. ASSUME NEW w \in Workers, RecordEvent(w)
        PROVE  TypeOK'
    <3>1. <<Item(w), matched[w]>> \in Events \X BOOLEAN
      BY ItemType DEF TypeOK
    <3>2. CASE Orphan(w)
      BY <2>9, <3>2, FinishType DEF RecordEvent, GiveUp, TypeOK, row, history
    <3>3. CASE ~Orphan(w)
      BY <2>9, <3>1, <3>3, NextItemType DEF RecordEvent, TypeOK, row, history
    <3>. QED
      BY <3>2, <3>3
  <2>10. ASSUME NEW w \in Workers, Fail(w)
         PROVE  TypeOK'
    <3>1. failures' \in 0..MaxFailures
      BY <2>10, DeliveryAssumption DEF Fail, TypeOK
    <3>. QED
      BY <2>10, <3>1, FinishType DEF Fail, GiveUp, TypeOK, row, history
  <2>11. ASSUME NEW id \in ProviderIds, ConfirmSend(id)
         PROVE  TypeOK'
    BY <2>11 DEF ConfirmSend, TypeOK, MessageStatuses, DeliveryStatuses, history, local
  <2>12. ASSUME NEW outcome \in {"sending", "retryable_failed", "failed"}, RefuseSend(outcome)
         PROVE  TypeOK'
    BY <2>12 DEF RefuseSend, TypeOK, MessageStatuses, DeliveryStatuses, history, local
  <2>13. CASE DeleteMessage
    BY <2>13 DEF DeleteMessage, TypeOK, history, local
  <2>14. CASE UNCHANGED vars
    BY <2>14 DEF vars, row, local, history, TypeOK
  <2>. QED
    BY <2>1, <2>2, <2>3, <2>4, <2>5, <2>6, <2>7, <2>8, <2>9, <2>10, <2>11, <2>12,
       <2>13, <2>14 DEF Next, Step
<1>3. TypeOK /\ UpdatesAreRanked /\ [Next]_vars => UpdatesAreRanked'
  <2>. SUFFICES ASSUME TypeOK, UpdatesAreRanked, [Next]_vars,
                       NEW v \in Workers, pc'[v] \in {"read", "write"}
                PROVE  (Ranked(Item(v)) /\ matched[v])'
    BY DEF UpdatesAreRanked
  <2>1. CASE \E w \in Workers : Lookup(w) \/ ReadSummary(w) \/ LoseRace(w) \/ WriteSummary(w)
    <3>. PICK w \in Workers : Lookup(w) \/ ReadSummary(w) \/ LoseRace(w) \/ WriteSummary(w)
      BY <2>1
    <3>1. CASE Lookup(w)
      BY <3>1 DEF Lookup, TypeOK, UpdatesAreRanked, Item, Ranked
    <3>2. CASE ReadSummary(w)
      BY <3>2 DEF ReadSummary, TypeOK, UpdatesAreRanked, Item, Ranked
    <3>3. CASE LoseRace(w)
      BY <3>3 DEF LoseRace, GiveUp, Finish, FreshLocals, TypeOK, UpdatesAreRanked, Item, Ranked
    <3>4. CASE WriteSummary(w)
      BY <3>4 DEF WriteSummary, TypeOK, UpdatesAreRanked, Item, Ranked
    <3>. QED
      BY <3>1, <3>2, <3>3, <3>4
  <2>2. CASE \E w \in Workers : RejectUnsupported(w) \/ Fail(w) \/ SkipItem(w) \/ RecordEvent(w)
    <3>. PICK w \in Workers : RejectUnsupported(w) \/ Fail(w) \/ SkipItem(w) \/ RecordEvent(w)
      BY <2>2
    <3>1. Finish(w) \/ NextItem(w)
      BY DEF RejectUnsupported, Fail, GiveUp, SkipItem, RecordEvent
    <3>2. /\ pc'[w] \in {"idle", "item"}
          /\ v # w => /\ pc'[v] = pc[v] /\ job'[v] = job[v] /\ pos'[v] = pos[v]
                      /\ matched'[v] = matched[v]
      BY <3>1 DEF Finish, NextItem, FreshLocals, TypeOK
    <3>. QED
      BY <3>2 DEF UpdatesAreRanked, Item, Ranked
  <2>3. ASSUME NEW w \in Workers, NEW b \in Batches, Deliver(w, b)
        PROVE  (Ranked(Item(v)) /\ matched[v])'
    BY <2>3 DEF Deliver, TypeOK, UpdatesAreRanked, Item, Ranked
  <2>4. ASSUME NEW w \in Workers, BeginItem(w)
        PROVE  (Ranked(Item(v)) /\ matched[v])'
    BY <2>4 DEF BeginItem, local, TypeOK, UpdatesAreRanked, Item, Ranked
  <2>5. CASE UNCHANGED <<pc, local>>
    BY <2>5 DEF local, UpdatesAreRanked, Item, Ranked
  <2>. QED
    BY <2>1, <2>2, <2>3, <2>4, <2>5
       DEF Next, Step, vars, ConfirmSend, RefuseSend, DeleteMessage
<1>. QED
  BY <1>1, <1>2, <1>3, PTL DEF Spec

\* Type correctness: see TypeOK.  It also bounds the optimistic update of
\* applyDeliveryStatus to MaxCas attempts in every behaviour.
THEOREM TypeCorrect == Spec => []TypeOK
  BY TypesAndStages, PTL

-----------------------------------------------------------------------------
\* Every step leaves the summary alone or merges one ranked event into it.
LEMMA SummarySteps ==
  ASSUME TypeOK, UpdatesAreRanked, [Next]_vars
  PROVE  \/ UNCHANGED summary
         \/ \E w \in Workers :
              /\ WriteSummary(w)
              /\ Item(w).status \in DeliveryStatuses
              /\ summary' = updateRecipientSummary(summary, Item(w).recipients, Item(w).status)
<1>1. ASSUME NEW w \in Workers, WriteSummary(w)
      PROVE  /\ Item(w).status \in DeliveryStatuses
             /\ summary' = updateRecipientSummary(summary, Item(w).recipients, Item(w).status)
  BY <1>1 DEF WriteSummary, UpdatesAreRanked, Ranked
<1>2. (\A w \in Workers : ~WriteSummary(w)) => UNCHANGED summary
  BY DEF Next, Step, vars, row, Deliver, RejectUnsupported, SkipItem, BeginItem, Lookup,
         ReadSummary, LoseRace, RecordEvent, Fail, ConfirmSend, RefuseSend,
         DeleteMessage
<1>. QED
  BY <1>1, <1>2

\* Delivery events never lower a recipient's status, in whatever order, how often
\* and how concurrently the provider delivers them.
THEOREM NeverRegress == Spec => RecipientsNeverRegress
<1>1. TypeOK /\ UpdatesAreRanked /\ [Next]_vars => [NoRecipientRegresses]_summary
  <2>. SUFFICES ASSUME TypeOK, UpdatesAreRanked, [Next]_vars, summary' # summary,
                       NEW k \in Slots
                PROVE  /\ RankOf(summary'[k]) >= RankOf(summary[k])
                       /\ summary[k] # Unreported => summary'[k] # Unreported
    BY DEF NoRecipientRegresses
  <2>1. PICK w \in Workers :
          /\ Item(w).status \in DeliveryStatuses
          /\ summary' = updateRecipientSummary(summary, Item(w).recipients, Item(w).status)
    BY SummarySteps
  <2>2. summary \in Summaries
    BY DEF TypeOK
  <2>. QED
    BY <2>1, <2>2, MergeNeverRegresses
<1>. QED
  BY <1>1, TypesAndStages, PTL DEF Spec, RecipientsNeverRegress

\* The aggregate is never a status that the send side's guarded updates overwrite.
LEMMA AggregateIsFinal ==
  ASSUME NEW s \in Summaries
  PROVE  aggregateDeliveryStatus(s) \notin {"sending", "retryable_failed"}
<1>. DEFINE values   == ReportedStatuses(s)
            negative == values \intersect NegativeStatuses
<1>1. values \subseteq DeliveryStatuses
  BY DEF ReportedStatuses, Summaries
<1>2. CASE negative # {}
  <2>1. HighestRanked(negative) \in NegativeStatuses
    BY <1>1, <1>2, HighestRankedInSet
  <2>. QED
    BY <1>2, <2>1 DEF aggregateDeliveryStatus, NegativeStatuses
<1>3. CASE negative = {}
  <2>. DEFINE S == values \union {"sent"}
  <2>1. S \subseteq DeliveryStatuses /\ S # {}
    BY <1>1 DEF DeliveryStatuses
  <2>2. \A t \in DeliveryStatuses : RankOf(t) \in 0..9
    BY DEF DeliveryStatuses, RankOf, DELIVERY_RANK, Unreported
  <2>3. \E h \in S : \A t \in S : RankOf(t) <= RankOf(h)
    BY <2>1, <2>2
  <2>4. \A t \in S : RankOf(t) <= RankOf(HighestRanked(S))
    BY <2>3, Zenon DEF HighestRanked
  <2>5. HighestRanked(S) \in DeliveryStatuses
    BY <2>1, HighestRankedInSet
  <2>6. RankOf("sent") = 1 /\ RankOf("sending") = 0
    BY DEF RankOf, DELIVERY_RANK, Unreported
  <2>7. HighestRanked(S) # "sending"
    BY <2>4, <2>6
  <2>8. aggregateDeliveryStatus(s) = HighestRanked(S)
    BY <1>3 DEF aggregateDeliveryStatus
  <2>. QED
    BY <2>5, <2>7, <2>8 DEF DeliveryStatuses
<1>. QED
  BY <1>2, <1>3

\* Once a recipient is reported the message shows the aggregate of its recipients,
\* and no answer to the send overwrites it.
THEOREM AggregateShown == Spec => []StatusIsAggregate
<1>1. Init => StatusIsAggregate
  BY DEF Init, LogInit, StatusIsAggregate
<1>2. TypeOK /\ UpdatesAreRanked /\ StatusIsAggregate /\ [Next]_vars => StatusIsAggregate'
  <2>. SUFFICES ASSUME TypeOK, UpdatesAreRanked, StatusIsAggregate, [Next]_vars
                PROVE  StatusIsAggregate'
    OBVIOUS
  <2>1. ASSUME NEW w \in Workers, WriteSummary(w)
        PROVE  StatusIsAggregate'
    BY <2>1 DEF WriteSummary, StatusIsAggregate
  <2>2. ASSUME NEW id \in ProviderIds, ConfirmSend(id)
        PROVE  StatusIsAggregate'
    BY <2>2, AggregateIsFinal DEF ConfirmSend, StatusIsAggregate, TypeOK
  <2>3. ASSUME NEW outcome \in {"sending", "retryable_failed", "failed"}, RefuseSend(outcome)
        PROVE  StatusIsAggregate'
    BY <2>3, AggregateIsFinal DEF RefuseSend, StatusIsAggregate, TypeOK
  <2>4. CASE UNCHANGED <<summary, status>>
    BY <2>4 DEF StatusIsAggregate
  <2>. QED
    BY <2>1, <2>2, <2>3, <2>4
       DEF Next, Step, vars, row, Deliver, RejectUnsupported, SkipItem, BeginItem, Lookup,
           ReadSummary, LoseRace, RecordEvent, Fail, DeleteMessage
<1>. QED
  BY <1>1, <1>2, TypesAndStages, PTL DEF Spec

-----------------------------------------------------------------------------
\* An acknowledgement is never ahead of the summary.  The inductive invariant:
\* what was applied shows, what was dropped had no row or no tag, and whatever an
\* invocation has passed, recorded or acknowledged is settled.
LogInv ==
  /\ \A e \in applied : Ranked(e) /\ Reflected(e)
  /\ \A e \in dropped : ~e.tagged \/ ~alive
  /\ \A e \in Events : Recorded(e) => Settled(e)
  /\ \A b \in acked : \A i \in 1..Len(b) : Settled(b[i])

PassedItemsAreSettled ==
  \A w \in Workers :
    /\ \A i \in 1..(pos[w] - 1) : Settled(job[w][i])
    /\ pc[w] = "record" => Settled(Item(w))

\* No step forgets an applied or dropped event, or brings a deleted message back.
LEMMA HistoryGrows ==
  ASSUME [Next]_vars
  PROVE  applied \subseteq applied' /\ dropped \subseteq dropped' /\ (alive' => alive)
BY DEF Next, Step, vars, row, history, Deliver, RejectUnsupported, SkipItem, BeginItem, Lookup,
       ReadSummary, WriteSummary, LoseRace, RecordEvent, Fail, ConfirmSend,
       RefuseSend, DeleteMessage

\* Settled in the next state, for an event named in this one.
SettledNext(e) == Ranked(e) => e \in applied' \union dropped'

\* An event that is settled stays settled.
LEMMA SettledStays ==
  ASSUME [Next]_vars
  PROVE  \A e : Settled(e) => SettledNext(e)
BY HistoryGrows DEF Settled, SettledNext

\* Moving past a settled item acknowledges, and leaves behind, settled items only.
LEMMA MovingOn ==
  ASSUME TypeOK, [Next]_vars, LogInv, PassedItemsAreSettled,
         NEW w \in Workers, NextItem(w), Settled(Item(w))
  PROVE  /\ \A b \in acked' : \A i \in 1..Len(b) : SettledNext(b[i])
         /\ \A i \in 1..(pos'[w] - 1) : SettledNext(job'[w][i])
         /\ pc'[w] # "record"
<1>1. \A i \in 1..pos[w] : SettledNext(job[w][i])
  BY SettledStays DEF PassedItemsAreSettled, Item, TypeOK
<1>2. \A b \in acked : \A i \in 1..Len(b) : SettledNext(b[i])
  BY SettledStays DEF LogInv
<1>3. pos[w] \in Nat \ {0} /\ pos[w] <= Len(job[w]) /\ Len(job[w]) \in Nat
  BY DeliveryAssumption DEF TypeOK
<1>4. CASE pos[w] < Len(job[w])
  <2>1. job'[w] = job[w] /\ pos'[w] = pos[w] + 1 /\ pc'[w] = "item" /\ acked' = acked
    BY <1>4 DEF NextItem, TypeOK
  <2>2. \A i \in 1..(pos'[w] - 1) : i \in 1..pos[w]
    BY <2>1, <1>3
  <2>. QED
    BY <1>1, <1>2, <2>1, <2>2
<1>5. CASE ~(pos[w] < Len(job[w]))
  <2>1. acked' = acked \union {job[w]} /\ pos'[w] = 1 /\ pc'[w] = "idle"
    BY <1>5 DEF NextItem, Finish, TypeOK
  <2>2. Len(job[w]) = pos[w]
    BY <1>3, <1>5
  <2>. QED
    BY <1>1, <1>2, <2>1, <2>2
<1>. QED
  BY <1>4, <1>5

\* The steps that move past an item find it settled.
LEMMA PassedItemIsSettled ==
  ASSUME TypeOK, LogInv, PassedItemsAreSettled,
         NEW w \in Workers, SkipItem(w) \/ (RecordEvent(w) /\ ~Orphan(w))
  PROVE  Settled(Item(w)) /\ NextItem(w)
<1>1. CASE SkipItem(w)
  <2>1. CASE Item(w).status = "foreign"
    BY <1>1, <2>1 DEF SkipItem, Settled, Ranked, DeliveryStatuses
  <2>2. CASE Recorded(Item(w))
    BY <1>1, <2>2, ItemType DEF SkipItem, LogInv
  <2>. QED
    BY <1>1, <2>1, <2>2 DEF SkipItem
<1>2. CASE RecordEvent(w) /\ ~Orphan(w)
  BY <1>2 DEF RecordEvent, PassedItemsAreSettled
<1>. QED
  BY <1>1, <1>2

\* Every step keeps the items a worker has left behind settled.
LEMMA PassedItemsStep ==
  ASSUME TypeOK, UpdatesAreRanked, LogInv, PassedItemsAreSettled, [Next]_vars
  PROVE  PassedItemsAreSettled'
<1>. SUFFICES ASSUME NEW v \in Workers
              PROVE  /\ \A i \in 1..(pos'[v] - 1) : SettledNext(job'[v][i])
                     /\ pc'[v] = "record" => SettledNext(job'[v][pos'[v]])
  BY DEF PassedItemsAreSettled, Settled, SettledNext, Item
<1>1. CASE pc'[v] = pc[v] /\ job'[v] = job[v] /\ pos'[v] = pos[v]
  BY <1>1, SettledStays DEF PassedItemsAreSettled, Item
<1>2. CASE Finish(v)
  BY <1>2 DEF Finish, TypeOK
<1>3. CASE SkipItem(v) \/ (RecordEvent(v) /\ ~Orphan(v))
  BY <1>3, PassedItemIsSettled, MovingOn
<1>4. ASSUME NEW b \in Batches, Deliver(v, b)
      PROVE  /\ \A i \in 1..(pos'[v] - 1) : SettledNext(job'[v][i])
             /\ pc'[v] = "record" => SettledNext(job'[v][pos'[v]])
  BY <1>4 DEF Deliver, TypeOK
<1>5. CASE Lookup(v) \/ ReadSummary(v) \/ WriteSummary(v) \/ BeginItem(v) \/ LoseRace(v)
  <2>1. CASE LoseRace(v) /\ Finish(v)
    BY <2>1, <1>2
  <2>2. CASE ~(LoseRace(v) /\ Finish(v))
    <3>1. job'[v] = job[v] /\ pos'[v] = pos[v]
      BY <1>5, <2>2 DEF Lookup, ReadSummary, WriteSummary, BeginItem, LoseRace, GiveUp, local
    <3>2. \A i \in 1..(pos'[v] - 1) : SettledNext(job'[v][i])
      BY <3>1, SettledStays DEF PassedItemsAreSettled
    <3>3. pc'[v] = "record" => Item(v) \in applied' \union dropped' \/ ~Ranked(Item(v))
      BY <1>5, <2>2 DEF Lookup, ReadSummary, WriteSummary, BeginItem, LoseRace, GiveUp, TypeOK
    <3>. QED
      BY <3>1, <3>2, <3>3 DEF Item, SettledNext, Ranked
  <2>. QED
    BY <2>1, <2>2
<1>6. ASSUME NEW w \in Workers, w # v, Step(w) \/ Fail(w) \/ \E b \in Batches : Deliver(w, b)
      PROVE  pc'[v] = pc[v] /\ job'[v] = job[v] /\ pos'[v] = pos[v]
  BY <1>6 DEF Step, RejectUnsupported, SkipItem, BeginItem, Lookup, ReadSummary, WriteSummary,
              LoseRace, RecordEvent, Fail, Deliver, GiveUp, Finish, NextItem,
              local, TypeOK
<1>7. RejectUnsupported(v) \/ (RecordEvent(v) /\ Orphan(v)) \/ Fail(v) => Finish(v)
  BY DEF RejectUnsupported, RecordEvent, Fail, GiveUp
<1>8. UNCHANGED vars \/ (\E id \in ProviderIds : ConfirmSend(id)) \/ DeleteMessage
        \/ (\E o \in {"sending", "retryable_failed", "failed"} : RefuseSend(o))
      => pc'[v] = pc[v] /\ job'[v] = job[v] /\ pos'[v] = pos[v]
  BY DEF vars, local, ConfirmSend, RefuseSend, DeleteMessage
<1>. QED
  BY <1>1, <1>2, <1>3, <1>4, <1>5, <1>6, <1>7, <1>8 DEF Next, Step

\* What was applied shows: a merge reflects its event and hides no other.
LEMMA AppliedStep ==
  ASSUME TypeOK, UpdatesAreRanked, LogInv, [Next]_vars
  PROVE  \A e \in applied' : Ranked(e) /\ Reflected(e)'
<1>1. applied' \subseteq Events
  <2>1. applied' = applied \/ \E w \in Workers : applied' = applied \union {Item(w)}
    BY DEF Next, Step, vars, history, Deliver, RejectUnsupported, SkipItem, BeginItem, Lookup,
           ReadSummary, WriteSummary, LoseRace, RecordEvent, Fail, ConfirmSend,
           RefuseSend, DeleteMessage
  <2>. QED
    BY <2>1, ItemType DEF TypeOK
<1>2. (\A w \in Workers : ~WriteSummary(w)) => applied' = applied
  BY DEF Next, Step, vars, history, Deliver, RejectUnsupported, SkipItem, BeginItem, Lookup,
         ReadSummary, LoseRace, RecordEvent, Fail, ConfirmSend, RefuseSend,
         DeleteMessage
<1>. SUFFICES ASSUME NEW e \in applied', NEW k \in KeysOfEvent(e)
              PROVE  /\ Ranked(e)
                     /\ summary'[k] # Unreported
                     /\ RankOf(summary'[k]) >= RankOf(e.status)
  BY DEF Reflected, KeysOfEvent, KeysOf
<1>3. e \in Events /\ k \in Slots /\ e.recipients \in SUBSET Recipients
  <2>1. e \in Events /\ e.recipients \in SUBSET Recipients
    BY <1>1, DeliveryAssumption
  <2>. QED
    BY <2>1 DEF KeysOfEvent, KeysOf, Slots
<1>4. CASE e \in applied
  <2>1. summary[k] # Unreported /\ RankOf(summary[k]) >= RankOf(e.status)
    BY <1>4 DEF LogInv, Reflected
  <2>2. RankOf(summary'[k]) >= RankOf(summary[k]) /\ summary'[k] # Unreported
    <3>1. CASE UNCHANGED summary
      <4>1. RankOf(summary[k]) \in Nat
        BY <1>3, RankType DEF TypeOK, Summaries
      <4>. QED
        BY <2>1, <3>1, <4>1
    <3>2. ASSUME NEW w \in Workers, Item(w).status \in DeliveryStatuses,
                 summary' = updateRecipientSummary(summary, Item(w).recipients, Item(w).status)
          PROVE  RankOf(summary'[k]) >= RankOf(summary[k]) /\ summary'[k] # Unreported
      <4>1. summary \in Summaries
        BY DEF TypeOK
      <4>. QED
        BY <1>3, <2>1, <3>2, <4>1, MergeNeverRegresses
    <3>. QED
      BY <3>1, <3>2, SummarySteps
  <2>3. /\ RankOf(summary[k]) \in Nat
        /\ RankOf(e.status) \in Nat
        /\ RankOf(summary'[k]) \in Nat
    <3>1. e.status \in DeliveryStatuses
      BY <1>4 DEF LogInv, Ranked
    <3>2. summary' \in Summaries
      BY SummarySteps, MergeType DEF TypeOK
    <3>. QED
      BY <1>3, <3>1, <3>2, RankType DEF TypeOK, Summaries
  <2>4. Ranked(e)
    BY <1>4 DEF LogInv
  <2>. QED
    BY <2>1, <2>2, <2>3, <2>4
<1>5. CASE e \notin applied
  <2>1. PICK w \in Workers : WriteSummary(w)
    BY <1>2, <1>5
  <2>2. e = Item(w)
    BY <1>5, <2>1 DEF WriteSummary
  <2>3. /\ Item(w).status \in DeliveryStatuses
        /\ summary' = updateRecipientSummary(summary, Item(w).recipients, Item(w).status)
    BY <2>1 DEF WriteSummary, UpdatesAreRanked, Ranked
  <2>. QED
    BY <1>3, <2>2, <2>3, MergeReflects DEF KeysOfEvent, TypeOK, Ranked
<1>. QED
  BY <1>4, <1>5

\* Every step keeps what the log says of applied, dropped and acknowledged events.
LEMMA LogStep ==
  ASSUME TypeOK, UpdatesAreRanked, LogInv, PassedItemsAreSettled, [Next]_vars
  PROVE  LogInv'
<1>1. \A e \in applied' : Ranked(e) /\ Reflected(e)'
  BY AppliedStep
<1>2. \A e \in dropped' : ~e.tagged \/ ~alive'
  <2>1. ASSUME NEW w \in Workers, Lookup(w) \/ ReadSummary(w)
        PROVE  \A e \in dropped' : ~e.tagged \/ ~alive'
    BY <2>1 DEF LogInv, Lookup, ReadSummary, row
  <2>2. (\A w \in Workers : ~(Lookup(w) \/ ReadSummary(w))) => dropped' = dropped
    BY DEF Next, Step, vars, history, Deliver, RejectUnsupported, SkipItem, BeginItem,
           WriteSummary, LoseRace, RecordEvent, Fail, ConfirmSend, RefuseSend,
           DeleteMessage
  <2>. QED
    BY <2>1, <2>2, HistoryGrows DEF LogInv
<1>3. \A e \in Events : Recorded(e)' => SettledNext(e)
  <2>1. ASSUME NEW w \in Workers, RecordEvent(w), ~Orphan(w)
        PROVE  recorded' \subseteq recorded \union {<<Item(w), matched[w]>>} /\ Settled(Item(w))
    BY <2>1, PassedItemIsSettled DEF RecordEvent
  <2>2. (\A w \in Workers : ~(RecordEvent(w) /\ ~Orphan(w))) => recorded' \subseteq recorded
    BY DEF Next, Step, vars, Deliver, RejectUnsupported, SkipItem, BeginItem, Lookup,
           ReadSummary, WriteSummary, LoseRace, RecordEvent, Fail, ConfirmSend, RefuseSend,
           DeleteMessage
  <2>. QED
    BY <2>1, <2>2, SettledStays DEF LogInv, Recorded
<1>4. \A b \in acked' : \A i \in 1..Len(b) : SettledNext(b[i])
  <2>1. ASSUME NEW w \in Workers, SkipItem(w) \/ (RecordEvent(w) /\ ~Orphan(w))
        PROVE  \A b \in acked' : \A i \in 1..Len(b) : SettledNext(b[i])
    BY <2>1, PassedItemIsSettled, MovingOn
  <2>2. (\A w \in Workers : ~(SkipItem(w) \/ (RecordEvent(w) /\ ~Orphan(w)))) => acked' = acked
    BY DEF Next, Step, vars, Deliver, RejectUnsupported, BeginItem, Lookup, ReadSummary,
           WriteSummary, LoseRace, RecordEvent, Fail, GiveUp, ConfirmSend, RefuseSend,
           DeleteMessage
  <2>. QED
    BY <2>1, <2>2, SettledStays DEF LogInv
<1>. QED
  BY <1>1, <1>2, <1>3, <1>4 DEF LogInv, Settled, SettledNext

\* A success answer is never ahead of the summary: a batch acknowledged to the
\* provider shows in the summary, up to deleted messages and to untagged events
\* that came before the provider's message id was recorded.
THEOREM AckedReflected == Spec => []AckedEventsAreReflected
<1>1. Init => LogInv /\ PassedItemsAreSettled
  BY DEF Init, LogInit, LogInv, PassedItemsAreSettled, Recorded
<1>2. TypeOK /\ UpdatesAreRanked /\ LogInv /\ PassedItemsAreSettled /\ [Next]_vars
        => (LogInv /\ PassedItemsAreSettled)'
  BY LogStep, PassedItemsStep
<1>3. LogInv => AckedEventsAreReflected
  BY DEF LogInv, AckedEventsAreReflected, Settled, Ranked
<1>. QED
  BY <1>1, <1>2, <1>3, TypesAndStages, PTL DEF Spec

-----------------------------------------------------------------------------
\* The refinement: the summary is the join of the events applied.

\* Ranks tell statuses apart.
LEMMA RanksDiffer ==
  \A s, t \in DeliveryStatuses : RankOf(s) = RankOf(t) => s = t
BY DEF DeliveryStatuses, RankOf, DELIVERY_RANK, Unreported

\* A member that no other outranks is the highest-ranked one.
LEMMA HighestRankedIs ==
  ASSUME NEW S \in SUBSET DeliveryStatuses, NEW h \in S, \A t \in S : RankOf(t) <= RankOf(h)
  PROVE  HighestRanked(S) = h
<1>1. PICK m \in S : m = HighestRanked(S) /\ \A t \in S : RankOf(t) <= RankOf(m)
  BY Zenon DEF HighestRanked
<1>2. RankOf(m) \in Nat /\ RankOf(h) \in Nat
  BY RankType
<1>3. RankOf(m) <= RankOf(h) /\ RankOf(h) <= RankOf(m)
  BY <1>1
<1>4. RankOf(m) = RankOf(h)
  BY <1>2, <1>3
<1>. QED
  BY <1>1, <1>4, RanksDiffer

\* The statuses that a set of events reports for a recipient.
ReportedFor(E, k) == {e.status : e \in {x \in E : k \in KeysOfEvent(x)}}

LEMMA JoinAt ==
  ASSUME NEW E, NEW k \in Slots
  PROVE  Join(E)[k] = IF ReportedFor(E, k) = {} THEN Unreported ELSE HighestRanked(ReportedFor(E, k))
BY DEF Join, ReportedFor

\* One more event: the merge of a summary that is a join is the join with it.
LEMMA MergeIsJoin ==
  ASSUME NEW E, \A x \in E : Ranked(x), NEW e, Ranked(e)
  PROVE  updateRecipientSummary(Join(E), e.recipients, e.status) = Join(E \union {e})
<1>. SUFFICES ASSUME NEW k \in Slots
              PROVE  updateRecipientSummary(Join(E), e.recipients, e.status)[k] = Join(E \union {e})[k]
  BY DEF updateRecipientSummary, Join
<1>. DEFINE S == ReportedFor(E, k)
            current == Join(E)[k]
<1>1. S \in SUBSET DeliveryStatuses /\ e.status \in DeliveryStatuses
  BY DEF ReportedFor, Ranked
<1>2. ReportedFor(E \union {e}, k) = IF k \in KeysOfEvent(e) THEN S \union {e.status} ELSE S
  BY DEF ReportedFor
<1>3. updateRecipientSummary(Join(E), e.recipients, e.status)[k] =
        IF k \in KeysOfEvent(e) /\ RankOf(e.status) >= RankOf(current) THEN e.status ELSE current
  BY DEF updateRecipientSummary, KeysOfEvent
<1>4. current = IF S = {} THEN Unreported ELSE HighestRanked(S)
  BY JoinAt
<1>5. Join(E \union {e})[k] =
        IF ReportedFor(E \union {e}, k) = {} THEN Unreported ELSE HighestRanked(ReportedFor(E \union {e}, k))
  BY JoinAt
<1>. HIDE DEF S, current
<1>6. CASE k \notin KeysOfEvent(e)
  BY <1>2, <1>3, <1>4, <1>5, <1>6
<1>7. CASE k \in KeysOfEvent(e) /\ S = {}
  <2>1. RankOf(e.status) >= RankOf(current)
    <3>1. RankOf(current) = 0 /\ RankOf(e.status) \in Nat
      BY <1>1, <1>4, <1>7, RankType DEF RankOf
    <3>. QED
      BY <3>1
  <2>2. HighestRanked({e.status}) = e.status
    BY <1>1, RankType, HighestRankedIs
  <2>. QED
    BY <1>2, <1>3, <1>5, <1>7, <2>1, <2>2
<1>8. CASE k \in KeysOfEvent(e) /\ S # {}
  <2>1. current = HighestRanked(S) /\ current \in S
    BY <1>1, <1>4, <1>8, HighestRankedInSet
  <2>2. \A t \in S : RankOf(t) <= RankOf(current)
    <3>1. \A s \in DeliveryStatuses : RankOf(s) \in 0..9
      BY DEF DeliveryStatuses, RankOf, DELIVERY_RANK, Unreported
    <3>2. \E s \in S : \A t \in S : RankOf(t) <= RankOf(s)
      BY <1>1, <1>8, <3>1
    <3>. QED
      BY <2>1, <3>2, Zenon DEF HighestRanked
  <2>3. /\ RankOf(current) \in Nat /\ RankOf(e.status) \in Nat
        /\ \A t \in S : RankOf(t) \in Nat
    BY <1>1, <2>1, RankType
  <2>4. CASE RankOf(e.status) >= RankOf(current)
    <3>1. \A t \in S \union {e.status} : RankOf(t) <= RankOf(e.status)
      BY <2>2, <2>3, <2>4
    <3>2. HighestRanked(S \union {e.status}) = e.status
      BY <1>1, <3>1, HighestRankedIs
    <3>. QED
      BY <1>2, <1>3, <1>5, <1>8, <2>4, <3>2
  <2>5. CASE ~(RankOf(e.status) >= RankOf(current))
    <3>1. \A t \in S \union {e.status} : RankOf(t) <= RankOf(current)
      BY <2>2, <2>3, <2>5
    <3>2. HighestRanked(S \union {e.status}) = current
      BY <1>1, <2>1, <3>1, HighestRankedIs
    <3>. QED
      BY <1>2, <1>3, <1>5, <1>8, <2>5, <3>2
  <2>. QED
    BY <2>4, <2>5
<1>. QED
  BY <1>6, <1>7, <1>8

SummaryIsJoin == summary = Join(applied)

\* A write of the summary applies its event, whoever wrote before.
LEMMA WriteApplies ==
  ASSUME TypeOK, UpdatesAreRanked, LogInv, SummaryIsJoin, NEW w \in Workers, WriteSummary(w)
  PROVE  Apply(Item(w)) /\ SummaryIsJoin'
<1>1. Ranked(Item(w)) /\ \A x \in applied : Ranked(x)
  BY DEF WriteSummary, UpdatesAreRanked, LogInv
<1>2. /\ applied' = applied \union {Item(w)} /\ UNCHANGED <<dropped, acked>>
      /\ summary' = updateRecipientSummary(summary, Item(w).recipients, Item(w).status)
  BY DEF WriteSummary
<1>3. summary' = Join(applied')
  BY <1>1, <1>2, MergeIsJoin DEF SummaryIsJoin
<1>. QED
  BY <1>1, <1>2, <1>3 DEF Apply, SummaryIsJoin

\* Moving past settled items acknowledges a batch that is settled as a whole, or nothing.
LEMMA MovingOnAcknowledges ==
  ASSUME TypeOK, PassedItemsAreSettled, NEW w \in Workers, NextItem(w), Settled(Item(w)),
         UNCHANGED <<summary, applied, dropped>>
  PROVE  Acknowledge(job[w]) \/ UNCHANGED logVars
<1>1. pos[w] \in Nat \ {0} /\ pos[w] <= Len(job[w]) /\ Len(job[w]) \in Nat
  BY DeliveryAssumption DEF TypeOK
<1>2. CASE pos[w] < Len(job[w])
  BY <1>2 DEF NextItem, logVars
<1>3. CASE ~(pos[w] < Len(job[w]))
  <2>1. acked' = acked \union {job[w]} /\ Len(job[w]) = pos[w]
    BY <1>1, <1>3 DEF NextItem
  <2>2. \A i \in 1..Len(job[w]) : Settled(job[w][i])
    BY <1>1, <2>1 DEF PassedItemsAreSettled, Item
  <2>. QED
    BY <2>1, <2>2 DEF Acknowledge
<1>. QED
  BY <1>2, <1>3

\* Every step applies, drops or acknowledges, or does nothing the log knows of.
LEMMA StepRefines ==
  ASSUME TypeOK, UpdatesAreRanked, LogInv, PassedItemsAreSettled, SummaryIsJoin, [Next]_vars
  PROVE  [LogNext]_logVars /\ SummaryIsJoin'
<1>1. CASE UNCHANGED logVars
  BY <1>1 DEF logVars, SummaryIsJoin
<1>2. ASSUME NEW w \in Workers, WriteSummary(w)
      PROVE  [LogNext]_logVars /\ SummaryIsJoin'
  BY <1>2, WriteApplies, ItemType DEF LogNext
<1>3. ASSUME NEW w \in Workers, Lookup(w) \/ ReadSummary(w)
      PROVE  [LogNext]_logVars /\ SummaryIsJoin'
  <2>1. UNCHANGED <<summary, applied, acked>> /\ (dropped' = dropped \/ dropped' = dropped \union {Item(w)})
    BY <1>3 DEF Lookup, ReadSummary, row
  <2>2. UNCHANGED logVars \/ Drop(Item(w))
    BY <2>1 DEF logVars, Drop
  <2>. QED
    BY <2>1, <2>2, ItemType DEF LogNext, SummaryIsJoin
<1>4. ASSUME NEW w \in Workers, SkipItem(w) \/ (RecordEvent(w) /\ ~Orphan(w))
      PROVE  [LogNext]_logVars /\ SummaryIsJoin'
  <2>1. UNCHANGED <<summary, applied, dropped>>
    BY <1>4 DEF SkipItem, RecordEvent, row, history
  <2>2. Acknowledge(job[w]) \/ UNCHANGED logVars
    BY <1>4, <2>1, PassedItemIsSettled, MovingOnAcknowledges
  <2>3. job[w] \in Batches
    BY DEF TypeOK
  <2>. QED
    BY <2>1, <2>2, <2>3 DEF LogNext, SummaryIsJoin
<1>5. ASSUME NEW w \in Workers,
             RejectUnsupported(w) \/ BeginItem(w) \/ LoseRace(w) \/ (RecordEvent(w) /\ Orphan(w))
               \/ Fail(w) \/ \E b \in Batches : Deliver(w, b)
      PROVE  UNCHANGED logVars
  BY <1>5 DEF RejectUnsupported, BeginItem, LoseRace, RecordEvent, Fail, Deliver, GiveUp, row,
              history, logVars
<1>6. ASSUME \/ \E id \in ProviderIds : ConfirmSend(id)
             \/ \E o \in {"sending", "retryable_failed", "failed"} : RefuseSend(o)
             \/ DeleteMessage
             \/ UNCHANGED vars
      PROVE  UNCHANGED logVars
  BY <1>6 DEF ConfirmSend, RefuseSend, DeleteMessage, vars, row, history, logVars
<1>. QED
  BY <1>1, <1>2, <1>3, <1>4, <1>5, <1>6 DEF Next, Step

\* Webhooks and queue batches, handled statement by statement by any number of invocations that
\* race, fail and are replayed, implement the log that applies events one by one and in which
\* neither their order nor their number matters.
THEOREM Implements == Spec => ImplementsDeliveryLog
<1>1. Init => LogInit /\ SummaryIsJoin /\ LogInv /\ PassedItemsAreSettled
  <2>. SUFFICES ASSUME Init PROVE LogInit /\ SummaryIsJoin /\ LogInv /\ PassedItemsAreSettled
    OBVIOUS
  <2>1. LogInit
    BY DEF Init
  <2>2. SummaryIsJoin
    BY <2>1 DEF LogInit, SummaryIsJoin, Join, EmptySummary
  <2>. QED
    BY <2>1, <2>2 DEF Init, LogInit, LogInv, PassedItemsAreSettled, Recorded
<1>2. /\ TypeOK /\ UpdatesAreRanked /\ LogInv /\ PassedItemsAreSettled /\ SummaryIsJoin
      /\ [Next]_vars
      => (LogInv /\ PassedItemsAreSettled /\ SummaryIsJoin)' /\ [LogNext]_logVars
  BY LogStep, PassedItemsStep, StepRefines
<1>. QED
  BY <1>1, <1>2, TypesAndStages, PTL DEF Spec, ImplementsDeliveryLog, LogSpec
=============================================================================
