------------------------- MODULE OutboundSendProofs -------------------------
(***************************************************************************)
(* Proofs about module OutboundSend, for any number of requests with the   *)
(* key, any providers, windows and deployments, and any bounds.            *)
(***************************************************************************)
EXTENDS OutboundSend, TLAPS

\* The constants are numbers, and a window ends before its provider forgets the key.
LEMMA Constants ==
  /\ None \notin Providers /\ Idempotent \subseteq Providers
  /\ \A p \in Idempotent : Window[p] \in Nat /\ TTL[p] \in Nat /\ Window[p] + MaxRun <= TTL[p]
  /\ \A e \in Environments : e.active \in Providers \union {None}
  /\ EventStatuses \subseteq DeliveryStatuses
  /\ MaxRun \in Nat /\ MaxTime \in Nat /\ MaxSwitches \in Nat /\ MaxFailures \in Nat
BY SendAssumption, WindowAssumption

\* A request at rest has a deployment.
LEMMA FirstEnvIsOne == FirstEnv \in Environments
BY SendAssumption DEF FirstEnv

-----------------------------------------------------------------------------
(* Statuses *)

\* A status has a rank from 0 to 9.
LEMMA RankBounds == \A s \in DeliveryStatuses : RankOf(s) \in 0..9
BY DEF DeliveryStatuses, RankOf, DELIVERY_RANK, Unreported

\* What delivery events report is a status a message can have.
LEMMA AggregateType ==
  ASSUME NEW s \in Summaries
  PROVE  aggregateDeliveryStatus(s) \in MessageStatuses
<1>1. ASSUME NEW S \in SUBSET DeliveryStatuses, S # {}
      PROVE  HighestRanked(S) \in DeliveryStatuses
  <2>1. \E m \in S : \A t \in S : RankOf(t) <= RankOf(m)
    BY <1>1, RankBounds
  <2>2. HighestRanked(S) \in S
    BY <2>1, Zenon DEF HighestRanked
  <2>. QED
    BY <2>2
<1>. DEFINE values   == ReportedStatuses(s)
            negative == values \intersect NegativeStatuses
<1>2. values \subseteq DeliveryStatuses /\ "sent" \in DeliveryStatuses
  BY DEF ReportedStatuses, Summaries, DeliveryStatuses
<1>3. CASE negative # {} /\ values # negative
  BY <1>3 DEF aggregateDeliveryStatus, MessageStatuses
<1>4. CASE negative # {} /\ values = negative
  BY <1>1, <1>2, <1>4 DEF aggregateDeliveryStatus, MessageStatuses
<1>5. CASE negative = {}
  BY <1>1, <1>2, <1>5 DEF aggregateDeliveryStatus, MessageStatuses
<1>. QED
  BY <1>3, <1>4, <1>5

\* The merge of updateRecipientSummary yields a summary.
LEMMA MergeType ==
  ASSUME NEW current \in Summaries, NEW recipients, NEW s \in DeliveryStatuses
  PROVE  updateRecipientSummary(current, recipients, s) \in Summaries
BY DEF updateRecipientSummary, Summaries

\* Statuses of a message that a send writes; "none" is not one.
LEMMA MessageStatusFacts ==
  /\ {"sending", "sent", "failed", "retryable_failed"} \subseteq MessageStatuses
  /\ "none" \notin MessageStatuses
  /\ RETRYABLE_STATUSES \subseteq MessageStatuses /\ SUCCESS_STATUSES \subseteq MessageStatuses
  /\ SUCCESS_STATUSES \intersect {"none", "sending", "retryable_failed", "failed"} = {}
BY DEF MessageStatuses, DeliveryStatuses, RETRYABLE_STATUSES, SUCCESS_STATUSES

-----------------------------------------------------------------------------
(* Types *)

\* The request a worker runs.
RequestsOK ==
  /\ pc \in [Workers -> Stages]
  /\ kind \in [Workers -> {"send", "retry"}]
  /\ envOf \in [Workers -> Environments]
  /\ began \in [Workers -> 0..MaxTime]
  /\ seen \in [Workers -> Rows]
  /\ outcome \in [Workers -> {"none", "ok", "unknown", "retryable", "rejected"}]

\* There is a row before there is a message.
LEMMA NoMessageType == NoMessage \in Rows
BY Constants DEF NoMessage, Rows

\* A request that ends has its locals reset.
LEMMA AnswerType ==
  ASSUME RequestsOK, NEW w \in Workers, Answer(w)
  PROVE  RequestsOK'
BY NoMessageType, FirstEnvIsOne, Constants DEF RequestsOK, Answer, Goto, Stages

\* A guarded write leaves a row.
LEMMA GuardedType ==
  ASSUME message \in Rows, NEW s \in MessageStatuses
  PROVE  /\ Guarded(s) \in Rows
         /\ Guarded(s).status = IF message.status \in RETRYABLE_STATUSES THEN s ELSE message.status
         /\ Guarded(s).pinned = message.pinned /\ Guarded(s).created = message.created
         /\ Guarded(s).archive = message.archive
BY DEF Guarded, Rows

\* The rest of the state.
RestOK ==
  /\ clock \in 0..MaxTime
  /\ env \in Environments
  /\ switches \in 0..MaxSwitches
  /\ failures \in 0..MaxFailures
  /\ message \in Rows
  /\ summary \in Summaries
  /\ took \in [Providers -> 0..MaxTime]
  /\ tookIt \subseteq Providers
  /\ copies \in 0..2
  /\ told \in BOOLEAN

LEMMA TypeParts == TypeOK <=> RequestsOK /\ RestOK
BY DEF TypeOK, RequestsOK, RestOK

\* A failure injected stays within the bound.
LEMMA InjectedType == RestOK /\ Injected => failures' \in 0..MaxFailures
BY Constants DEF RestOK, Injected

\* A request of a worker keeps the types of the requests.
LEMMA StepRequests ==
  ASSUME TypeOK, NEW w \in Workers,
         Step(w) \/ Die(w) \/ \E k \in {"send", "retry"} : Request(w, k),
         message' \in Rows
  PROVE  RequestsOK'
<1>0. RequestsOK /\ RestOK
  BY TypeParts
<1>1. CASE Answer(w)
  BY <1>0, <1>1, AnswerType
<1>2. CASE (\E k \in {"send", "retry"} : Request(w, k))
  BY <1>0, <1>2 DEF Request, Goto, RequestsOK, RestOK, Stages
<1>3. CASE ReadRow(w)
  BY <1>0, <1>3 DEF ReadRow, Goto, RequestsOK, RestOK, Stages
<1>4. CASE DecideToCreate(w)
  BY <1>0, <1>4 DEF DecideToCreate, Goto, RequestsOK, Stages
<1>5. CASE Resume(w)
  BY <1>0, <1>5 DEF Resume, Goto, RequestsOK, Stages
<1>6. CASE Insert(w)
  <2>1. pc' = [pc EXCEPT ![w] = "archive"] /\ seen' = [seen EXCEPT ![w] = message']
        /\ UNCHANGED <<kind, envOf, began, outcome>>
    BY <1>6 DEF Insert, Goto
  <2>. QED
    BY <1>0, <2>1 DEF RequestsOK, Stages
<1>7. CASE Archive(w)
  <2>1. pc' = [pc EXCEPT ![w] = "deliver"] /\ seen' = [seen EXCEPT ![w] = message']
        /\ UNCHANGED <<kind, envOf, began, outcome>>
    BY <1>7 DEF Archive, Goto
  <2>. QED
    BY <1>0, <2>1 DEF RequestsOK, Stages
<1>8. CASE Take(w)
  BY <1>0, <1>8 DEF Take, Goto, RequestsOK, Stages
<1>9. ASSUME NEW o \in {"unknown", "retryable", "rejected"}, NotTaken(w, o)
      PROVE  RequestsOK'
  BY <1>0, <1>9 DEF NotTaken, Goto, RequestsOK, Stages
<1>. QED
  BY <1>1, <1>2, <1>3, <1>4, <1>5, <1>6, <1>7, <1>8, <1>9
     DEF Step, DecideToRefuse, Expire, InsertConflict, ArchiveFails, RecordAnswer, Confirm, Die

\* What a request writes to its row is a row.
LEMMA StepMessage ==
  ASSUME TypeOK, NEW w \in Workers,
         Step(w) \/ Die(w) \/ \E k \in {"send", "retry"} : Request(w, k)
  PROVE  message' \in Rows
<1>0. message \in Rows
  BY DEF TypeOK
<1>1. CASE message' = message
  BY <1>0, <1>1
<1>2. CASE Expire(w)
  BY <1>0, <1>2, MessageStatusFacts DEF Expire, Rows
<1>3. CASE Resume(w)
  <2>1. [message EXCEPT !.status = "sending"] \in Rows /\ Guarded("sending") \in Rows
    BY <1>0, MessageStatusFacts, GuardedType DEF Rows
  <2>. QED
    BY <1>3, <2>1 DEF Resume
<1>4. CASE Insert(w)
  <2>1. envOf[w].active \in Providers \union {None} /\ clock \in 0..MaxTime
    BY Constants DEF TypeOK
  <2>. QED
    BY <1>4, <2>1, MessageStatusFacts DEF Insert, Rows
<1>5. CASE Archive(w)
  BY <1>0, <1>5 DEF Archive, Rows
<1>6. CASE ArchiveFails(w)
  BY <1>0, <1>6, MessageStatusFacts DEF ArchiveFails, Rows
<1>7. CASE RecordAnswer(w)
  <2>1. \E s \in {"sending", "retryable_failed", "failed"} : message' = Guarded(s)
    BY <1>7 DEF RecordAnswer
  <2>. QED
    BY <1>0, <2>1, MessageStatusFacts, GuardedType
<1>8. CASE Confirm(w)
  BY <1>0, <1>8, MessageStatusFacts, GuardedType DEF Confirm
<1>. QED
  BY <1>1, <1>2, <1>3, <1>4, <1>5, <1>6, <1>7, <1>8
     DEF Step, ReadRow, DecideToCreate, DecideToRefuse, InsertConflict, Take, NotTaken, Die, Request

\* A step of a request leaves the other requests alone.
LEMMA OthersStay ==
  ASSUME TypeOK, NEW w \in Workers,
         Step(w) \/ Die(w) \/ \E k \in {"send", "retry"} : Request(w, k),
         NEW v \in Workers \ {w}
  PROVE  /\ pc'[v] = pc[v] /\ kind'[v] = kind[v] /\ envOf'[v] = envOf[v]
         /\ began'[v] = began[v] /\ seen'[v] = seen[v] /\ outcome'[v] = outcome[v]
<1>0. RequestsOK
  BY TypeParts
<1>1. CASE Answer(w)
  BY <1>0, <1>1 DEF Answer, Goto, RequestsOK
<1>2. CASE (\E k \in {"send", "retry"} : Request(w, k))
  BY <1>0, <1>2 DEF Request, Goto, RequestsOK
<1>3. CASE ReadRow(w) \/ DecideToCreate(w) \/ Resume(w)
  BY <1>0, <1>3 DEF ReadRow, DecideToCreate, Resume, Goto, RequestsOK
<1>4. CASE Insert(w)
  BY <1>0, <1>4 DEF Insert, Goto, RequestsOK
<1>5. CASE Archive(w)
  BY <1>0, <1>5 DEF Archive, Goto, RequestsOK
<1>6. CASE Take(w)
  BY <1>0, <1>6 DEF Take, Goto, RequestsOK
<1>7. ASSUME NEW o \in {"unknown", "retryable", "rejected"}, NotTaken(w, o)
      PROVE  /\ pc'[v] = pc[v] /\ kind'[v] = kind[v] /\ envOf'[v] = envOf[v]
             /\ began'[v] = began[v] /\ seen'[v] = seen[v] /\ outcome'[v] = outcome[v]
  BY <1>0, <1>7 DEF NotTaken, Goto, RequestsOK
<1>. QED
  BY <1>1, <1>2, <1>3, <1>4, <1>5, <1>6, <1>7
     DEF Step, DecideToRefuse, Expire, InsertConflict, ArchiveFails, RecordAnswer, Confirm, Die

\* A request that ends is at rest, and has read nothing.
LEMMA AnswerResets ==
  ASSUME TypeOK, NEW w \in Workers, Answer(w)
  PROVE  /\ pc'[w] = "idle" /\ kind'[w] = "send" /\ seen'[w] = NoMessage
         /\ outcome'[w] = "none" /\ NoMessage.status = "none"
BY DEF Answer, Goto, TypeOK, NoMessage

\* The row stays where it is, but for the insert: its provider and its date never change.
LEMMA RowStays ==
  ASSUME TypeOK, NEW w \in Workers,
         Step(w) \/ Die(w) \/ \E k \in {"send", "retry"} : Request(w, k), ~Insert(w)
  PROVE  message'.pinned = message.pinned /\ message'.created = message.created
<1>0. message \in Rows
  BY DEF TypeOK
<1>1. CASE message' = message
  BY <1>1
<1>2. CASE Expire(w) \/ Resume(w) \/ Archive(w) \/ ArchiveFails(w)
  BY <1>0, <1>2 DEF Expire, Resume, Archive, ArchiveFails, Guarded, Rows
<1>3. CASE RecordAnswer(w) \/ Confirm(w)
  <2>1. \E s : message' = Guarded(s)
    BY <1>3 DEF RecordAnswer, Confirm
  <2>. QED
    BY <1>0, <2>1 DEF Guarded, Rows
<1>. QED
  BY <1>1, <1>2, <1>3
     DEF Step, ReadRow, DecideToCreate, DecideToRefuse, InsertConflict, Take, NotTaken, Die, Request

-----------------------------------------------------------------------------
(* A message is delivered through a provider *)

\* A request that sends runs where there is an active provider, it alone inserts, what is
\* delivered was read from a row, and that row has a provider and stays.
RequestRouted(w) ==
  /\ pc[w] # "idle" /\ kind[w] = "send" => envOf[w].active \in Providers
  /\ pc[w] = "insert" => kind[w] = "send"
  /\ pc[w] \in {"archive", "deliver"} => seen[w].status # "none"
  /\ seen[w].status # "none" => seen[w].pinned \in Providers /\ message.status # "none"

Routed ==
  /\ \A w \in Workers : RequestRouted(w)
  /\ message.status # "none" => message.pinned \in Providers
  /\ tookIt # {} => message.status # "none"

\* No step but the insert makes a row, and none removes it.
LEMMA RowIsMadeOnce ==
  ASSUME TypeOK, NEW w \in Workers, RequestRouted(w),
         Step(w) \/ Die(w) \/ \E k \in {"send", "retry"} : Request(w, k)
  PROVE  /\ message.status # "none" => message'.status # "none"
         /\ ~Insert(w) => (message'.status # "none" => message.status # "none")
         /\ Insert(w) => message.status = "none" /\ message'.status # "none"
<1>0. message \in Rows
  BY DEF TypeOK
<1>1. CASE message' = message /\ ~Insert(w)
  BY <1>1
<1>2. CASE Insert(w)
  BY <1>2 DEF Insert
<1>3. CASE Expire(w) \/ Resume(w)
  <2>1. seen[w].status # "none"
    BY <1>3 DEF Expire, Resume, MayRetry, RETRYABLE_STATUSES
  <2>2. message.status # "none" /\ ~Insert(w)
    BY <1>3, <2>1 DEF RequestRouted, Expire, Resume, Insert
  <2>3. message'.status \in {"failed", "sending", message.status}
    BY <1>0, <1>3 DEF Expire, Resume, Guarded, Rows
  <2>. QED
    BY <2>2, <2>3
<1>4. CASE Archive(w) \/ ArchiveFails(w)
  <2>1. message.status # "none" /\ ~Insert(w)
    BY <1>4 DEF RequestRouted, Archive, ArchiveFails, Insert
  <2>2. message'.status \in {"retryable_failed", message.status}
    BY <1>0, <1>4 DEF Archive, ArchiveFails, Rows
  <2>. QED
    BY <2>1, <2>2
<1>5. CASE RecordAnswer(w) \/ Confirm(w)
  <2>1. \E s \in {"sending", "retryable_failed", "failed", "sent"} : message' = Guarded(s)
    BY <1>5 DEF RecordAnswer, Confirm
  <2>2. \/ message'.status = message.status
        \/ /\ message.status # "none"
           /\ message'.status \in {"sending", "retryable_failed", "failed", "sent"}
    BY <1>0, <2>1 DEF Guarded, Rows, RETRYABLE_STATUSES
  <2>3. ~Insert(w)
    BY <1>5 DEF RecordAnswer, Confirm, Insert
  <2>. QED
    BY <2>2, <2>3
<1>6. CASE ReadRow(w) \/ DecideToCreate(w) \/ DecideToRefuse(w) \/ InsertConflict(w) \/ Take(w)
           \/ (\E o \in {"unknown", "retryable", "rejected"} : NotTaken(w, o))
           \/ Die(w) \/ (\E k \in {"send", "retry"} : Request(w, k))
  <2>1. message' = message
    BY <1>6 DEF ReadRow, DecideToCreate, DecideToRefuse, InsertConflict, Take, NotTaken, Die, Request
  <2>2. CASE ~Insert(w)
    BY <1>1, <2>1, <2>2
  <2>3. CASE Insert(w)
    BY <1>2, <2>3
  <2>. QED
    BY <2>2, <2>3
<1>. QED
  BY <1>2, <1>3, <1>4, <1>5, <1>6 DEF Step

\* A message is taken by the provider it is routed to.
LEMMA RouteType ==
  ASSUME TypeOK, NEW w \in Workers, RequestRouted(w), pc[w] = "deliver"
  PROVE  Route(w) \in Providers
BY DEF RequestRouted, Route, TypeOK

\* The steps of a request keep it routed.
LEMMA RequestRoutedStep ==
  ASSUME TypeOK, Routed, NEW w \in Workers,
         Step(w) \/ Die(w) \/ \E k \in {"send", "retry"} : Request(w, k)
  PROVE  RequestRouted(w)'
<1>0. RequestRouted(w) /\ RequestsOK /\ message \in Rows
  BY TypeParts DEF Routed, TypeOK
<1>1. message.status # "none" => message'.status # "none"
  BY <1>0, RowIsMadeOnce
<1>2. CASE Answer(w)
  BY <1>2, AnswerResets DEF RequestRouted
<1>3. ASSUME NEW k \in {"send", "retry"}, Request(w, k)
      PROVE  RequestRouted(w)'
  <2>1. /\ pc'[w] = "read" /\ kind'[w] = k /\ envOf'[w] = env /\ seen'[w] = seen[w]
        /\ (k = "send" => env.active # None) /\ message' = message
    BY <1>0, <1>3 DEF Request, Goto, RequestsOK
  <2>2. env.active \in Providers \union {None}
    BY Constants DEF TypeOK
  <2>. QED
    BY <1>0, <2>1, <2>2 DEF RequestRouted
<1>4. CASE ReadRow(w)
  <2>1. /\ pc[w] = "read" /\ pc'[w] = "decide" /\ kind'[w] = kind[w] /\ envOf'[w] = envOf[w]
        /\ seen'[w] = message /\ message' = message
    BY <1>0, <1>4 DEF ReadRow, Goto, RequestsOK
  <2>. QED
    BY <1>0, <2>1 DEF RequestRouted, Routed
<1>5. CASE DecideToCreate(w)
  <2>1. /\ pc[w] = "decide" /\ pc'[w] = "insert" /\ kind[w] = "send" /\ kind'[w] = kind[w]
        /\ envOf'[w] = envOf[w] /\ seen'[w] = seen[w] /\ message' = message
    BY <1>0, <1>5 DEF DecideToCreate, Goto, RequestsOK
  <2>. QED
    BY <1>0, <2>1 DEF RequestRouted
<1>6. CASE Resume(w)
  <2>1. /\ pc[w] = "decide" /\ pc'[w] \in {"deliver", "archive"} /\ kind'[w] = kind[w]
        /\ envOf'[w] = envOf[w] /\ seen'[w] = seen[w]
    BY <1>0, <1>6 DEF Resume, Goto, RequestsOK
  <2>2. seen[w].status # "none"
    BY <1>6 DEF Resume, MayRetry, RETRYABLE_STATUSES
  <2>. QED
    BY <1>0, <1>1, <2>1, <2>2 DEF RequestRouted
<1>7. CASE Insert(w)
  <2>1. /\ pc[w] = "insert" /\ pc'[w] = "archive" /\ kind'[w] = kind[w] /\ envOf'[w] = envOf[w]
        /\ seen'[w] = message' /\ message'.status # "none" /\ message'.pinned = envOf[w].active
    BY <1>0, <1>7 DEF Insert, Goto, RequestsOK
  <2>. QED
    BY <1>0, <2>1 DEF RequestRouted
<1>8. CASE Archive(w)
  <2>1. /\ pc[w] = "archive" /\ pc'[w] = "deliver" /\ kind'[w] = kind[w] /\ envOf'[w] = envOf[w]
        /\ seen'[w] = message' /\ message'.status = message.status /\ message'.pinned = message.pinned
    BY <1>0, <1>8 DEF Archive, Goto, RequestsOK, Rows
  <2>. QED
    BY <1>0, <2>1 DEF RequestRouted, Routed
<1>9. CASE Take(w) \/ (\E o \in {"unknown", "retryable", "rejected"} : NotTaken(w, o))
  <2>1. /\ pc[w] = "deliver" /\ pc'[w] = "record" /\ kind'[w] = kind[w] /\ envOf'[w] = envOf[w]
        /\ seen'[w] = seen[w] /\ message' = message
    BY <1>0, <1>9 DEF Take, NotTaken, Goto, RequestsOK
  <2>. QED
    BY <1>0, <2>1 DEF RequestRouted
<1>. QED
  BY <1>2, <1>3, <1>4, <1>5, <1>6, <1>7, <1>8, <1>9
     DEF Step, DecideToRefuse, Expire, InsertConflict, ArchiveFails, RecordAnswer, Confirm, Die

\* The steps that are none of a request.
Outside == (\E s \in EventStatuses : Event(s)) \/ (\E e \in Environments : Switch(e)) \/ Tick

\* They leave the requests alone, and the row where it is.
LEMMA OutsideStay ==
  ASSUME TypeOK, Routed, Outside
  PROVE  /\ UNCHANGED requests /\ RequestsOK' /\ message' \in Rows
         /\ message'.pinned = message.pinned /\ message'.created = message.created
         /\ (message'.status = "none" <=> message.status = "none")
<1>0. RequestsOK /\ message \in Rows
  BY TypeParts DEF TypeOK
<1>1. UNCHANGED requests
  BY DEF Outside, Event, Switch, Tick
<1>2. RequestsOK'
  BY <1>0, <1>1 DEF requests, RequestsOK
<1>3. ASSUME NEW s \in EventStatuses, Event(s)
      PROVE  /\ message' \in Rows
             /\ message'.pinned = message.pinned /\ message'.created = message.created
             /\ message'.status # "none" /\ message.status # "none"
  <2>1. s \in DeliveryStatuses /\ summary \in Summaries
    BY Constants DEF TypeOK
  <2>2. summary' \in Summaries
    BY <1>3, <2>1, MergeType DEF Event
  <2>3. aggregateDeliveryStatus(summary') \in MessageStatuses
    BY <2>2, AggregateType
  <2>4. message' = [message EXCEPT !.status = aggregateDeliveryStatus(summary')] /\ tookIt # {}
    BY <1>3 DEF Event
  <2>. HIDE DEF Event
  <2>. QED
    BY <1>0, <2>3, <2>4, MessageStatusFacts DEF Rows, Routed
<1>4. CASE (\E e \in Environments : Switch(e)) \/ Tick
  <2>1. message' = message
    BY <1>4 DEF Switch, Tick
  <2>. QED
    BY <1>0, <1>1, <1>2, <2>1
<1>. QED
  BY <1>1, <1>2, <1>3, <1>4 DEF Outside

\* Every step keeps the types, and the requests routed.
LEMMA TypeStep == TypeOK /\ Routed /\ [Next]_vars => TypeOK' /\ Routed'
<1>. SUFFICES ASSUME TypeOK, Routed, [Next]_vars PROVE TypeOK' /\ Routed'
  OBVIOUS
<1>0. RequestsOK /\ RestOK
  BY TypeParts
<1>1. ASSUME NEW w \in Workers,
             Step(w) \/ Die(w) \/ \E k \in {"send", "retry"} : Request(w, k)
      PROVE  TypeOK' /\ Routed'
  <2>0. RequestRouted(w)
    BY DEF Routed
  <2>1. message' \in Rows /\ RequestsOK'
    BY <1>1, StepMessage, StepRequests
  <2>2. /\ clock' = clock /\ env' = env /\ switches' = switches /\ summary' = summary
    BY <1>1 DEF Step, ReadRow, DecideToCreate, DecideToRefuse, Expire, Resume, Insert,
                InsertConflict, Archive, ArchiveFails, Take, NotTaken, RecordAnswer, Confirm, Die,
                Request
  <2>3. failures' \in 0..MaxFailures
    BY <1>0, <1>1, InjectedType
       DEF RestOK, Step, ReadRow, DecideToCreate, DecideToRefuse, Expire, Resume, Insert,
           InsertConflict, Archive, ArchiveFails, Take, NotTaken, RecordAnswer, Confirm, Die,
           Request
  <2>4. told' \in BOOLEAN
    <3>1. CASE DecideToRefuse(w) \/ Confirm(w)
      BY <3>1 DEF DecideToRefuse, Confirm
    <3>2. CASE ~(DecideToRefuse(w) \/ Confirm(w))
      BY <1>0, <1>1, <3>2
         DEF RestOK, Step, ReadRow, DecideToCreate, Expire, Resume, Insert, InsertConflict, Archive,
             ArchiveFails, Take, NotTaken, RecordAnswer, Die, Request
    <3>. QED
      BY <3>1, <3>2
  <2>5. CASE Take(w)
    <3>1. Route(w) \in Providers /\ seen[w].status # "none" /\ message.status # "none"
      BY <2>0, <2>5, RouteType DEF Take, RequestRouted
    <3>2. /\ took' \in [Providers -> 0..MaxTime] /\ tookIt' \subseteq Providers
      BY <1>0, <2>5, <3>1 DEF Take, RestOK
    <3>3. copies' \in 0..2
      BY <1>0, <2>5 DEF Take, RestOK, Min2
    <3>4. message' = message
      BY <2>5 DEF Take
    <3>5. TypeOK'
      BY <1>0, <2>1, <2>2, <2>3, <2>4, <3>2, <3>3 DEF TypeOK, RequestsOK, RestOK
    <3>6. ASSUME NEW v \in Workers \ {w}
          PROVE  RequestRouted(v)'
      BY <1>1, <3>4, <3>6, OthersStay DEF Routed, RequestRouted
    <3>7. RequestRouted(w)'
      BY <1>1, RequestRoutedStep
    <3>. QED
      BY <3>1, <3>4, <3>5, <3>6, <3>7 DEF Routed
  <2>6. CASE ~Take(w)
    <3>1. UNCHANGED outside
      BY <1>1, <2>6 DEF Step, ReadRow, DecideToCreate, DecideToRefuse, Expire, Resume, Insert,
                InsertConflict, Archive, ArchiveFails, NotTaken, RecordAnswer, Confirm, Die,
                Request
    <3>2. TypeOK'
      BY <1>0, <2>1, <2>2, <2>3, <2>4, <3>1 DEF TypeOK, RequestsOK, RestOK, outside
    <3>3. message.status # "none" => message'.status # "none"
      BY <1>1, <2>0, RowIsMadeOnce
    <3>4. message'.status # "none" => message'.pinned \in Providers
      <4>1. CASE Insert(w)
        BY <2>0, <4>1 DEF Insert, RequestRouted
      <4>2. CASE ~Insert(w)
        BY <1>1, <2>0, <4>2, RowIsMadeOnce, RowStays DEF Routed
      <4>. QED
        BY <4>1, <4>2
    <3>5. tookIt' # {} => message'.status # "none"
      BY <3>1, <3>3 DEF Routed, outside
    <3>6. RequestRouted(w)'
      BY <1>1, RequestRoutedStep
    <3>7. ASSUME NEW v \in Workers \ {w}
          PROVE  RequestRouted(v)'
      BY <1>1, <3>3, <3>7, OthersStay DEF Routed, RequestRouted
    <3>. QED
      BY <3>2, <3>4, <3>5, <3>6, <3>7 DEF Routed
  <2>. QED
    BY <2>5, <2>6
<1>2. CASE Outside
  <2>1. /\ UNCHANGED requests /\ RequestsOK' /\ message' \in Rows
        /\ message'.pinned = message.pinned
        /\ (message'.status = "none" <=> message.status = "none")
    BY <1>2, OutsideStay
  <2>2. UNCHANGED <<took, tookIt, copies, told>>
    BY <1>2 DEF Outside, Event, Switch, Tick, outside
  <2>3. /\ clock' \in 0..MaxTime /\ env' \in Environments
        /\ switches' \in 0..MaxSwitches /\ failures' \in 0..MaxFailures
    BY <1>0, <1>2, Constants DEF Outside, Event, Switch, Tick, RestOK
  <2>4. summary' \in Summaries
    BY <1>0, <1>2, Constants, MergeType DEF Outside, Event, Switch, Tick, RestOK
  <2>5. TypeOK'
    BY <1>0, <2>1, <2>2, <2>3, <2>4 DEF TypeOK, RequestsOK, RestOK
  <2>6. Routed'
    BY <2>1, <2>2 DEF Routed, RequestRouted, requests
  <2>. QED
    BY <2>5, <2>6
<1>3. CASE UNCHANGED vars
  BY <1>3 DEF vars, requests, outside, TypeOK, Routed, RequestRouted
<1>. QED
  BY <1>1, <1>2, <1>3 DEF Next, Outside

\* The first state has the types; nothing was requested.
LEMMA TypeInit == Init => TypeOK /\ Routed
<1>. SUFFICES ASSUME Init PROVE TypeOK /\ Routed
  OBVIOUS
<1>1. EmptySummary \in Summaries
  BY DEF EmptySummary, Summaries
<1>2. RequestsOK
  BY NoMessageType, FirstEnvIsOne, Constants DEF Init, RequestsOK, Stages
<1>3. RestOK
  <2>1. 0 \in 0..MaxTime /\ 0 \in 0..MaxSwitches /\ 0 \in 0..MaxFailures
    BY Constants
  <2>2. /\ clock = 0 /\ env \in Environments /\ switches = 0 /\ failures = 0 /\ message = NoMessage
        /\ summary = EmptySummary /\ took = [p \in Providers |-> 0] /\ tookIt = {} /\ copies = 0
        /\ told = FALSE
    BY DEF Init
  <2>3. summary \in Summaries /\ message \in Rows
    BY <1>1, <2>2, NoMessageType, Zenon
  <2>4. took \in [Providers -> 0..MaxTime]
    BY <2>1, <2>2
  <2>5. told \in BOOLEAN
    BY <2>2, Zenon
  <2>6. copies \in 0..2 /\ tookIt \subseteq Providers
    BY <2>2
  <2>. QED
    BY <2>1, <2>2, <2>3, <2>4, <2>5, <2>6 DEF RestOK
<1>4. TypeOK
  BY <1>2, <1>3, TypeParts
<1>. QED
  BY <1>4 DEF Init, Routed, RequestRouted, NoMessage

LEMMA TypesAndRoutes == Spec => [](TypeOK /\ Routed)
BY TypeInit, TypeStep, PTL DEF Spec

\* The types hold in every reachable state, for all values of the constants.
THEOREM TypeCorrect == Spec => []TypeOK
BY TypesAndRoutes, PTL

-----------------------------------------------------------------------------
(* What is shown as sent was taken *)

\* As long as no provider took the message nothing says that it is sent: not the row, not a
\* request that read it, not a provider's answer.
NothingIsSent ==
  /\ message.status \notin SUCCESS_STATUSES /\ ~told
  /\ \A w \in Workers : seen[w].status \notin SUCCESS_STATUSES /\ outcome[w] # "ok"

TakenIsKnown == tookIt = {} => NothingIsSent

\* What a request writes or tells while no provider took the message.
LEMMA NothingIsSentStep ==
  ASSUME TypeOK, NothingIsSent, NEW w \in Workers,
         Step(w) \/ Die(w) \/ \E k \in {"send", "retry"} : Request(w, k), ~Take(w)
  PROVE  NothingIsSent'
<1>0. RequestsOK /\ message \in Rows
  BY TypeParts DEF TypeOK
<1>1. message'.status \notin SUCCESS_STATUSES
  <2>1. CASE message' = message
    BY <2>1 DEF NothingIsSent
  <2>2. CASE Expire(w) \/ Resume(w) \/ Archive(w) \/ ArchiveFails(w) \/ Insert(w)
    <3>1. message'.status \in {"failed", "sending", "retryable_failed", message.status}
      <4>1. CASE Resume(w)
        <5>1. message' \in {[message EXCEPT !.status = "sending"], Guarded("sending")}
          BY <4>1 DEF Resume
        <5>. QED
          BY <1>0, <5>1 DEF Guarded, Rows
      <4>2. CASE Insert(w)
        BY <4>2 DEF Insert
      <4>3. CASE Expire(w) \/ Archive(w) \/ ArchiveFails(w)
        BY <1>0, <4>3 DEF Expire, Archive, ArchiveFails, Rows
      <4>. QED
        BY <2>2, <4>1, <4>2, <4>3
    <3>. QED
      BY <3>1, MessageStatusFacts DEF NothingIsSent
  <2>3. CASE RecordAnswer(w)
    <3>1. \E s \in {"sending", "retryable_failed", "failed"} : message' = Guarded(s)
      BY <2>3 DEF RecordAnswer
    <3>2. message'.status \in {"failed", "sending", "retryable_failed", message.status}
      BY <1>0, <3>1 DEF Guarded, Rows
    <3>. QED
      BY <3>2, MessageStatusFacts DEF NothingIsSent
  <2>4. ~Confirm(w)
    BY DEF Confirm, NothingIsSent
  <2>. QED
    BY <2>1, <2>2, <2>3, <2>4
       DEF Step, ReadRow, DecideToCreate, DecideToRefuse, InsertConflict, Take, NotTaken, Die, Request
<1>2. ~told'
  BY DEF NothingIsSent, Step, ReadRow, DecideToCreate, DecideToRefuse, Expire, Resume, Insert,
         InsertConflict, Archive, ArchiveFails, NotTaken, RecordAnswer, Confirm, Die, Request
<1>3. \A v \in Workers \ {w} : seen'[v] = seen[v] /\ outcome'[v] = outcome[v]
  BY OthersStay
<1>4. seen'[w].status \notin SUCCESS_STATUSES /\ outcome'[w] # "ok"
  <2>1. CASE Answer(w)
    BY <2>1, AnswerResets, MessageStatusFacts
  <2>2. CASE seen'[w] \in {seen[w], message, message'} /\ outcome' = outcome
    BY <1>1, <2>2 DEF NothingIsSent
  <2>3. ASSUME NEW o \in {"unknown", "retryable", "rejected"}, NotTaken(w, o)
        PROVE  seen'[w] = seen[w] /\ outcome'[w] # "ok"
    BY <1>0, <2>3 DEF NotTaken, RequestsOK
  <2>4. CASE ReadRow(w) \/ DecideToCreate(w) \/ Resume(w) \/ Insert(w) \/ Archive(w)
             \/ (\E k \in {"send", "retry"} : Request(w, k))
    <3>1. seen'[w] \in {seen[w], message, message'} /\ outcome' = outcome
      BY <1>0, <2>4 DEF ReadRow, DecideToCreate, Resume, Insert, Archive, Request, RequestsOK
    <3>. QED
      BY <2>2, <3>1
  <2>. QED
    BY <2>1, <2>2, <2>3, <2>4
       DEF NothingIsSent, Step, DecideToRefuse, Expire, InsertConflict, ArchiveFails, RecordAnswer, Confirm, Die
<1>. QED
  BY <1>1, <1>2, <1>3, <1>4 DEF NothingIsSent

LEMMA TakenIsKnownStep == TypeOK /\ TakenIsKnown /\ [Next]_vars => TakenIsKnown'
<1>. SUFFICES ASSUME TypeOK, TakenIsKnown, [Next]_vars, tookIt' = {} PROVE NothingIsSent'
  BY DEF TakenIsKnown
<1>1. ASSUME NEW w \in Workers,
             Step(w) \/ Die(w) \/ \E k \in {"send", "retry"} : Request(w, k)
      PROVE  NothingIsSent'
  <2>1. ~Take(w)
    BY DEF Take
  <2>2. tookIt = {}
    BY <1>1, <2>1 DEF Step, ReadRow, DecideToCreate, DecideToRefuse, Expire, Resume, Insert,
         InsertConflict, Archive, ArchiveFails, NotTaken, RecordAnswer, Confirm, Die, Request, outside
  <2>. QED
    BY <1>1, <2>1, <2>2, NothingIsSentStep DEF TakenIsKnown
<1>2. CASE Outside \/ UNCHANGED vars
  <2>1. tookIt = {} /\ UNCHANGED <<message, told, seen, outcome>>
    BY <1>2 DEF Outside, Event, Switch, Tick, outside, requests, vars
  <2>. QED
    BY <2>1 DEF TakenIsKnown, NothingIsSent
<1>. QED
  BY <1>1, <1>2 DEF Next, Outside

\* A message is shown or answered as sent only if a provider took it, however requests, lost
\* answers, delivery events and deployments come between.
THEOREM SentTaken == Spec => []SentWasTaken
<1>1. Init => TakenIsKnown
  BY MessageStatusFacts DEF Init, TakenIsKnown, NothingIsSent, NoMessage
<1>2. TakenIsKnown => SentWasTaken
  BY DEF TakenIsKnown, NothingIsSent, SentWasTaken
<1>. QED
  BY <1>1, <1>2, TakenIsKnownStep, TypeCorrect, PTL DEF Spec

-----------------------------------------------------------------------------
(* At most one copy *)

\* A request runs at most MaxRun; what it read is of the row; and when it began, the window of
\* the row it delivers was open.
RequestKnows(w) ==
  /\ pc[w] # "idle" => began[w] <= clock /\ clock <= began[w] + MaxRun
  /\ seen[w].status # "none" => seen[w].pinned = message.pinned /\ seen[w].created = message.created
  /\ pc[w] \in {"archive", "deliver"} /\ message.pinned \in Idempotent =>
       began[w] <= message.created + Window[message.pinned]

\* The row is older than what the providers took, and nothing is sent but what they took.
Known ==
  /\ \A w \in Workers : RequestKnows(w)
  /\ message.created <= clock
  /\ \A p \in tookIt : message.created <= took[p]
  /\ tookIt = {} => copies = 0

\* A message pinned to a provider without a window is delivered by the request that inserted
\* it, once.
DeliversAlone ==
  message.pinned \notin Idempotent =>
    \A w \in Workers : pc[w] \in {"archive", "deliver"} =>
      tookIt = {} /\ \A v \in Workers \ {w} : pc[v] \notin {"archive", "deliver"}

\* As long as nothing is switched, all requests run in one deployment and the message stays
\* with its provider.
OneProvider ==
  switches = 0 =>
    /\ \A w \in Workers : pc[w] # "idle" => envOf[w] = env
    /\ message.status # "none" => message.pinned = env.active
    /\ tookIt \subseteq {message.pinned}
    /\ copies <= 1

\* A step of a request keeps what requests know, but for the insert, which begins it all.
LEMMA RequestKnowsStep ==
  ASSUME TypeOK, Routed, Known, NEW w \in Workers, ~Insert(w),
         Step(w) \/ Die(w) \/ \E k \in {"send", "retry"} : Request(w, k)
  PROVE  RequestKnows(w)'
<1>0. /\ RequestsOK /\ RequestKnows(w) /\ RequestRouted(w) /\ clock \in Nat /\ began[w] \in Nat
      /\ message.created \in Nat /\ seen[w].created \in Nat /\ message \in Rows /\ MaxRun \in Nat
  BY TypeParts, Constants DEF Known, Routed, TypeOK, Rows
<1>1. message'.pinned = message.pinned /\ message'.created = message.created
  BY RowStays
<1>2. CASE Answer(w)
  BY <1>2, AnswerResets DEF RequestKnows
<1>3. ASSUME NEW k \in {"send", "retry"}, Request(w, k)
      PROVE  RequestKnows(w)'
  <2>1. /\ pc'[w] = "read" /\ began'[w] = clock /\ clock' = clock /\ seen'[w] = seen[w]
    BY <1>0, <1>3 DEF Request, Goto, RequestsOK
  <2>. QED
    BY <1>0, <1>1, <2>1 DEF RequestKnows
<1>4. CASE ReadRow(w)
  <2>1. /\ pc[w] = "read" /\ pc'[w] = "decide" /\ began'[w] = began[w] /\ clock' = clock
        /\ seen'[w] = message
    BY <1>0, <1>4 DEF ReadRow, Goto, RequestsOK
  <2>. QED
    BY <1>0, <1>1, <2>1 DEF RequestKnows
<1>5. CASE DecideToCreate(w)
  <2>1. /\ pc[w] = "decide" /\ pc'[w] = "insert" /\ began'[w] = began[w] /\ clock' = clock
        /\ seen'[w] = seen[w]
    BY <1>0, <1>5 DEF DecideToCreate, Goto, RequestsOK
  <2>. QED
    BY <1>0, <1>1, <2>1 DEF RequestKnows
<1>6. CASE Resume(w)
  <2>1. /\ pc[w] = "decide" /\ began'[w] = began[w] /\ clock' = clock /\ seen'[w] = seen[w]
        /\ pc'[w] # "idle"
    BY <1>0, <1>6 DEF Resume, Goto, RequestsOK
  <2>2. seen[w].status # "none" /\ seen[w].pinned \in Idempotent
        /\ clock - seen[w].created <= Window[seen[w].pinned]
    BY <1>6 DEF Resume, MayRetry, RETRYABLE_STATUSES, WindowOpen
  <2>3. /\ seen[w].pinned = message.pinned /\ seen[w].created = message.created
        /\ Window[message.pinned] \in Nat
    BY <1>0, <2>2, Constants DEF RequestKnows
  <2>4. began[w] <= message.created + Window[message.pinned]
    BY <1>0, <2>1, <2>2, <2>3 DEF RequestKnows
  <2>. QED
    BY <1>0, <1>1, <2>1, <2>3, <2>4 DEF RequestKnows
<1>7. CASE Archive(w)
  <2>1. /\ pc[w] = "archive" /\ pc'[w] = "deliver" /\ began'[w] = began[w] /\ clock' = clock
        /\ seen'[w] = message'
    BY <1>0, <1>7 DEF Archive, Goto, RequestsOK
  <2>. QED
    BY <1>0, <1>1, <2>1 DEF RequestKnows
<1>8. CASE Take(w) \/ (\E o \in {"unknown", "retryable", "rejected"} : NotTaken(w, o))
  <2>1. /\ pc[w] = "deliver" /\ pc'[w] = "record" /\ began'[w] = began[w] /\ clock' = clock
        /\ seen'[w] = seen[w]
    BY <1>0, <1>8 DEF Take, NotTaken, Goto, RequestsOK
  <2>. QED
    BY <1>0, <1>1, <2>1 DEF RequestKnows
<1>. QED
  BY <1>2, <1>3, <1>4, <1>5, <1>6, <1>7, <1>8
     DEF Step, DecideToRefuse, Expire, InsertConflict, ArchiveFails, RecordAnswer, Confirm, Die

\* The insert finds no row, hence nobody who read one, and nothing taken.
LEMMA InsertIsFirst ==
  ASSUME TypeOK, Routed, NEW w \in Workers, Insert(w)
  PROVE  /\ \A v \in Workers : seen[v].status = "none" /\ pc[v] \notin {"archive", "deliver"}
         /\ message.status = "none" /\ tookIt = {}
         /\ seen'[w] = message' /\ pc'[w] = "archive" /\ began'[w] = began[w]
         /\ message'.status = "sending" /\ message'.pinned = envOf[w].active
         /\ message'.created = clock
         /\ clock' = clock /\ UNCHANGED outside
BY DEF Insert, Goto, Routed, RequestRouted, TypeOK

\* A request takes nothing but by Take; the clock stands still.
LEMMA OnlyTakeTakes ==
  ASSUME NEW w \in Workers,
         Step(w) \/ Die(w) \/ \E k \in {"send", "retry"} : Request(w, k)
  PROVE  /\ clock' = clock /\ env' = env /\ switches' = switches
         /\ ~Take(w) => UNCHANGED outside
BY DEF Step, ReadRow, DecideToCreate, DecideToRefuse, Expire, Resume, Insert, InsertConflict,
       Archive, ArchiveFails, Take, NotTaken, RecordAnswer, Confirm, Die, Request

\* What is taken is taken now, or was before.
LEMMA TakeIsNow ==
  ASSUME TypeOK, Routed, NEW w \in Workers, Take(w)
  PROVE  /\ Route(w) \in Providers /\ tookIt' = tookIt \union {Route(w)}
         /\ \A p \in tookIt' : took'[p] = clock \/ (p \in tookIt /\ took'[p] = took[p])
         /\ message' = message /\ clock' = clock
<1>1. Route(w) \in Providers
  BY RouteType DEF Take, Routed
<1>2. took' \in {took, [took EXCEPT ![Route(w)] = clock]} /\ tookIt' = tookIt \union {Route(w)}
  BY DEF Take
<1>3. Remembers(Route(w)) => Route(w) \in tookIt /\ took' = took
  BY DEF Take, Remembers
<1>4. ~Remembers(Route(w)) => took' = [took EXCEPT ![Route(w)] = clock]
  BY DEF Take
<1>5. took \in [Providers -> 0..MaxTime] /\ tookIt \subseteq Providers
  BY DEF TypeOK
<1>6. ASSUME NEW p \in tookIt'
      PROVE  took'[p] = clock \/ (p \in tookIt /\ took'[p] = took[p])
  <2>1. CASE Remembers(Route(w))
    BY <1>2, <1>3, <1>6, <2>1
  <2>2. CASE ~Remembers(Route(w))
    <3>1. took' = [took EXCEPT ![Route(w)] = clock]
      BY <1>4, <2>2
    <3>2. CASE p = Route(w)
      BY <1>1, <1>5, <3>1, <3>2
    <3>3. CASE p # Route(w)
      <4>1. p \in tookIt /\ p \in Providers
        BY <1>2, <1>5, <1>6, <3>3
      <4>. QED
        BY <1>5, <3>1, <3>3, <4>1
    <3>. QED
      BY <3>2, <3>3
  <2>. QED
    BY <2>1, <2>2
<1>7. message' = message /\ clock' = clock
  BY DEF Take
<1>. QED
  BY <1>1, <1>2, <1>6, <1>7

\* Every step keeps what is known.
LEMMA KnownStep == TypeOK /\ Routed /\ Known /\ [Next]_vars => Known'
<1>. SUFFICES ASSUME TypeOK, Routed, Known, [Next]_vars PROVE Known'
  OBVIOUS
<1>0. /\ clock \in Nat /\ message.created \in Nat /\ MaxRun \in Nat /\ tookIt \subseteq Providers
      /\ \A w \in Workers : began[w] \in Nat
      /\ \A p \in Providers : took[p] \in Nat
  BY Constants DEF TypeOK, Rows
<1>1. ASSUME NEW w \in Workers, Insert(w)
      PROVE  Known'
  <2>1. /\ \A v \in Workers : seen[v].status = "none" /\ pc[v] \notin {"archive", "deliver"}
        /\ tookIt = {} /\ seen'[w] = message' /\ pc[w] = "insert" /\ began'[w] = began[w]
        /\ message'.created = clock /\ clock' = clock /\ UNCHANGED outside
    BY <1>1, InsertIsFirst DEF Insert
  <2>2. RequestKnows(w)'
    <3>1. began[w] <= clock /\ clock <= began[w] + MaxRun
      BY <2>1 DEF Known, RequestKnows
    <3>2. ASSUME message'.pinned \in Idempotent
          PROVE  began[w] <= clock + Window[message'.pinned]
      BY <1>0, <3>1, <3>2, Constants
    <3>. QED
      BY <2>1, <3>1, <3>2 DEF RequestKnows
  <2>3. ASSUME NEW v \in Workers \ {w}
        PROVE  RequestKnows(v)'
    BY <1>1, <2>1, <2>3, OthersStay DEF Known, RequestKnows, Step
  <2>. QED
    BY <1>0, <2>1, <2>2, <2>3 DEF Known, outside
<1>2. ASSUME NEW w \in Workers, ~Insert(w),
             Step(w) \/ Die(w) \/ \E k \in {"send", "retry"} : Request(w, k)
      PROVE  Known'
  <2>1. message'.pinned = message.pinned /\ message'.created = message.created /\ clock' = clock
    BY <1>2, RowStays, OnlyTakeTakes
  <2>2. RequestKnows(w)'
    BY <1>2, RequestKnowsStep
  <2>3. ASSUME NEW v \in Workers \ {w}
        PROVE  RequestKnows(v)'
    BY <1>2, <2>1, <2>3, OthersStay DEF Known, RequestKnows
  <2>4. (\A p \in tookIt' : message'.created <= took'[p]) /\ (tookIt' = {} => copies' = 0)
    <3>1. CASE Take(w)
      BY <1>0, <2>1, <3>1, TakeIsNow DEF Known
    <3>2. CASE ~Take(w)
      BY <1>2, <2>1, <3>2, OnlyTakeTakes DEF Known, outside
    <3>. QED
      BY <3>1, <3>2
  <2>. QED
    BY <2>1, <2>2, <2>3, <2>4 DEF Known
<1>3. CASE Outside
  <2>1. UNCHANGED requests /\ message'.pinned = message.pinned /\ message'.created = message.created
    BY <1>3, OutsideStay
  <2>2. UNCHANGED outside
    BY <1>3 DEF Outside, Event, Switch, Tick
  <2>3. CASE clock' = clock
    BY <2>1, <2>2, <2>3 DEF Known, RequestKnows, requests, outside
  <2>4. CASE Tick
    <3>1. clock' = clock + 1 /\ \A w \in Workers : pc[w] # "idle" => clock - began[w] < MaxRun
      BY <2>4 DEF Tick
    <3>2. ASSUME NEW w \in Workers
          PROVE  RequestKnows(w)'
      BY <1>0, <2>1, <3>1 DEF Known, RequestKnows, requests
    <3>. QED
      BY <1>0, <2>1, <2>2, <3>1, <3>2 DEF Known, outside
  <2>. QED
    BY <1>3, <2>3, <2>4 DEF Outside, Event, Switch
<1>4. CASE UNCHANGED vars
  BY <1>4 DEF vars, requests, outside, Known, RequestKnows
<1>. QED
  BY <1>1, <1>2, <1>3, <1>4 DEF Next, Outside

\* Every step keeps a message without a window to one request.
LEMMA AloneStep == TypeOK /\ Routed /\ Known /\ DeliversAlone /\ [Next]_vars => DeliversAlone'
<1>. SUFFICES ASSUME TypeOK, Routed, Known, DeliversAlone, [Next]_vars PROVE DeliversAlone'
  OBVIOUS
<1>1. ASSUME NEW w \in Workers, Insert(w)
      PROVE  DeliversAlone'
  <2>1. \A v \in Workers \ {w} : pc'[v] \notin {"archive", "deliver"}
    BY <1>1, InsertIsFirst, OthersStay DEF Step
  <2>2. tookIt' = {}
    BY <1>1, InsertIsFirst DEF outside
  <2>. QED
    BY <2>1, <2>2 DEF DeliversAlone
<1>2. ASSUME NEW w \in Workers, ~Insert(w),
             Step(w) \/ Die(w) \/ \E k \in {"send", "retry"} : Request(w, k)
      PROVE  DeliversAlone'
  <2>. SUFFICES ASSUME message.pinned \notin Idempotent
                PROVE  DeliversAlone'
    BY <1>2, RowStays DEF DeliversAlone
  <2>1. \A v \in Workers \ {w} : pc'[v] = pc[v]
    BY <1>2, OthersStay
  <2>2. pc'[w] \in {"archive", "deliver"} => pc[w] \in {"archive", "deliver"} /\ ~Take(w)
    <3>1. ~Resume(w)
      <4>. SUFFICES ASSUME Resume(w) PROVE FALSE
        OBVIOUS
      <4>1. seen[w].status # "none" /\ seen[w].pinned \in Idempotent
        BY DEF Resume, MayRetry, RETRYABLE_STATUSES, WindowOpen
      <4>. QED
        BY <4>1 DEF Known, RequestKnows
    <3>. QED
      BY <1>2, <3>1, AnswerResets
         DEF Step, ReadRow, DecideToCreate, DecideToRefuse, Expire, InsertConflict, Archive,
             ArchiveFails, Take, NotTaken, RecordAnswer, Confirm, Die, Request, Goto, TypeOK
  <2>3. ~Take(w) => tookIt' = tookIt
    BY <1>2, OnlyTakeTakes DEF outside
  <2>4. CASE Take(w)
    <3>1. pc[w] = "deliver" /\ pc'[w] \notin {"archive", "deliver"}
      BY <2>2, <2>4 DEF Take
    <3>2. \A v \in Workers : pc'[v] \notin {"archive", "deliver"}
      BY <2>1, <3>1 DEF DeliversAlone
    <3>. QED
      BY <3>2 DEF DeliversAlone
  <2>5. CASE ~Take(w)
    BY <2>1, <2>2, <2>3, <2>5 DEF DeliversAlone
  <2>. QED
    BY <2>4, <2>5
<1>3. CASE Outside
  <2>1. UNCHANGED requests /\ message'.pinned = message.pinned /\ UNCHANGED outside
    BY <1>3, OutsideStay DEF Outside, Event, Switch, Tick
  <2>. QED
    BY <2>1 DEF DeliversAlone, requests, outside
<1>4. CASE UNCHANGED vars
  BY <1>4 DEF vars, requests, outside, DeliversAlone
<1>. QED
  BY <1>1, <1>2, <1>3, <1>4 DEF Next, Outside

\* A provider that took the message still remembers the key.
LEMMA StillRemembered ==
  ASSUME TypeOK, Known, NEW w \in Workers, pc[w] = "deliver",
         message.pinned \in Idempotent, message.pinned \in tookIt
  PROVE  Remembers(message.pinned)
<1>. DEFINE p == message.pinned
<1>1. /\ began[w] <= message.created + Window[p] /\ clock <= began[w] + MaxRun
      /\ message.created <= took[p]
  BY DEF Known, RequestKnows
<1>2. /\ Window[p] \in Nat /\ TTL[p] \in Nat /\ MaxRun \in Nat /\ Window[p] + MaxRun <= TTL[p]
      /\ took[p] \in Nat /\ message.created \in Nat /\ began[w] \in Nat /\ clock \in Nat
  BY Constants DEF TypeOK, Rows
<1>3. clock - took[p] <= TTL[p]
  BY <1>1, <1>2
<1>. QED
  BY <1>3 DEF Remembers

\* While nothing is switched a message is delivered through its own provider.
LEMMA RouteIsPinned ==
  ASSUME TypeOK, Routed, Known, OneProvider, switches = 0, NEW w \in Workers, pc[w] = "deliver"
  PROVE  Route(w) = message.pinned /\ message.status # "none"
BY DEF Routed, RequestRouted, Known, RequestKnows, OneProvider, Route, TypeOK

\* Every step keeps the message with its provider, and to one copy.
LEMMA OneProviderStep ==
  TypeOK /\ Routed /\ Known /\ DeliversAlone /\ OneProvider /\ [Next]_vars => OneProvider'
<1>. SUFFICES ASSUME TypeOK, Routed, Known, DeliversAlone, OneProvider, [Next]_vars, switches' = 0
              PROVE  /\ \A w \in Workers : pc'[w] # "idle" => envOf'[w] = env'
                     /\ message'.status # "none" => message'.pinned = env'.active
                     /\ tookIt' \subseteq {message'.pinned}
                     /\ copies' <= 1
  BY DEF OneProvider
<1>0. switches \in Nat /\ copies \in 0..2
  BY Constants DEF TypeOK
<1>1. ASSUME NEW w \in Workers,
             Step(w) \/ Die(w) \/ \E k \in {"send", "retry"} : Request(w, k)
      PROVE  /\ \A v \in Workers : pc'[v] # "idle" => envOf'[v] = env'
             /\ message'.status # "none" => message'.pinned = env'.active
             /\ tookIt' \subseteq {message'.pinned}
             /\ copies' <= 1
  <2>1. clock' = clock /\ env' = env /\ switches = 0
    BY <1>1, OnlyTakeTakes
  <2>2. pc'[w] # "idle" => envOf'[w] = env
    <3>1. CASE Answer(w)
      BY <3>1, AnswerResets
    <3>2. CASE (\E k \in {"send", "retry"} : Request(w, k))
      BY <3>2 DEF Request, TypeOK
    <3>3. CASE envOf' = envOf /\ pc[w] # "idle"
      BY <2>1, <3>3 DEF OneProvider
    <3>. QED
      BY <1>1, <3>1, <3>2, <3>3
         DEF Step, ReadRow, DecideToCreate, DecideToRefuse, Expire, Resume, Insert, InsertConflict,
             Archive, ArchiveFails, Take, NotTaken, RecordAnswer, Confirm, Die
  <2>3. \A v \in Workers : pc'[v] # "idle" => envOf'[v] = env'
    BY <1>1, <2>1, <2>2, OthersStay DEF OneProvider
  <2>4. message'.status # "none" => message'.pinned = env.active
    <3>1. CASE Insert(w)
      BY <2>1, <3>1, InsertIsFirst DEF Insert, OneProvider
    <3>2. CASE ~Insert(w)
      BY <1>1, <2>1, <3>2, RowStays, RowIsMadeOnce DEF OneProvider, Routed
    <3>. QED
      BY <3>1, <3>2
  <2>5. tookIt' \subseteq {message'.pinned} /\ copies' <= 1
    <3>1. CASE Insert(w)
      BY <2>1, <3>1, InsertIsFirst DEF OneProvider, outside
    <3>2. CASE ~Insert(w) /\ ~Take(w)
      BY <1>1, <2>1, <3>2, RowStays, OnlyTakeTakes DEF OneProvider, outside
    <3>3. CASE Take(w)
      <4>1. pc[w] = "deliver" /\ Route(w) = message.pinned
        BY <2>1, <3>3, RouteIsPinned DEF Take
      <4>2. tookIt' \subseteq {message'.pinned}
        BY <2>1, <3>3, <4>1, TakeIsNow DEF OneProvider
      <4>3. CASE tookIt = {}
        <5>1. copies = 0
          BY <4>3 DEF Known
        <5>2. copies' \in {copies, Min2(copies + 1)}
          BY <3>3 DEF Take
        <5>. QED
          BY <4>2, <5>1, <5>2 DEF Min2
      <4>4. CASE tookIt # {}
        <5>1. message.pinned \in tookIt
          BY <2>1, <4>4 DEF OneProvider
        <5>2. message.pinned \in Idempotent
          BY <4>1, <4>4 DEF DeliversAlone
        <5>3. Remembers(Route(w))
          BY <4>1, <5>1, <5>2, StillRemembered
        <5>4. copies' = copies
          BY <3>3, <5>3 DEF Take
        <5>. QED
          BY <2>1, <4>2, <5>4 DEF OneProvider
      <4>. QED
        BY <4>3, <4>4
    <3>. QED
      BY <3>1, <3>2, <3>3
  <2>. QED
    BY <2>1, <2>3, <2>4, <2>5
<1>2. CASE Outside
  <2>1. ~(\E e \in Environments : Switch(e))
    BY <1>0 DEF Switch
  <2>2. env' = env /\ switches = 0 /\ UNCHANGED outside
    BY <1>2, <2>1 DEF Outside, Event, Tick
  <2>3. /\ UNCHANGED requests /\ message'.pinned = message.pinned
        /\ (message'.status = "none" <=> message.status = "none")
    BY <1>2, OutsideStay
  <2>. QED
    BY <2>2, <2>3 DEF OneProvider, requests, outside
<1>3. CASE UNCHANGED vars
  BY <1>3 DEF vars, requests, outside, OneProvider
<1>. QED
  BY <1>1, <1>2, <1>3 DEF Next, Outside

\* However many requests carry the key, are retried, time out or die, the recipients get one
\* copy as long as the provider is not switched: for every window below its TTL by the longest
\* run of a request.
THEOREM OneCopy == Spec => []AtMostOneCopy
<1>1. Init => Known /\ DeliversAlone /\ OneProvider
  <2>. SUFFICES ASSUME Init PROVE Known /\ DeliversAlone /\ OneProvider
    OBVIOUS
  <2>1. /\ clock = 0 /\ message = NoMessage /\ tookIt = {} /\ copies = 0
        /\ pc = [w \in Workers |-> "idle"] /\ seen = [w \in Workers |-> NoMessage]
    BY DEF Init
  <2>. QED
    BY <2>1 DEF Known, RequestKnows, DeliversAlone, OneProvider, NoMessage
<1>2. TypeOK /\ Routed /\ Known /\ DeliversAlone /\ OneProvider /\ [Next]_vars =>
        (Known /\ DeliversAlone /\ OneProvider)'
  BY KnownStep, AloneStep, OneProviderStep
<1>3. OneProvider => AtMostOneCopy
  BY DEF OneProvider, AtMostOneCopy
<1>. QED
  BY <1>1, <1>2, <1>3, TypesAndRoutes, PTL DEF Spec
=============================================================================
