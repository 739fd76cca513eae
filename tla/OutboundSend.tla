---------------------------- MODULE OutboundSend ----------------------------
(***************************************************************************)
(* Sending one outgoing message, identified by its Idempotency-Key:        *)
(* sendMessage and retryMessage of src/mail/outbound.ts and the send()     *)
(* methods of src/providers.  A worker is one running request.  A request  *)
(* reads the row, decides, and writes later: other requests with the same  *)
(* key, delivery events and a switch of the active provider come between.  *)
(*                                                                         *)
(* archiveOutgoing is one step here; module OutboundArchive opens it.      *)
(* Delivery events arrive already merged; module DeliveryEvents opens      *)
(* that.  The providers are external: one that honours idempotency keys    *)
(* (Resend, Brevo) sends one copy per key within its TTL.                  *)
(***************************************************************************)
EXTENDS DeliveryStatus, FiniteSets

CONSTANTS
  Workers,        \* concurrent requests with the same key
  Providers,      \* registered outbound providers
  None,           \* OUTBOUND_PROVIDER=none, or no provider yet
  Idempotent,     \* the providers with a safe retry window
  Window,         \* safeRetryWindowMs of each of them
  TTL,            \* how long each of them remembers a key (external)
  Environments,   \* deployments: [active, configured]
  EventStatuses,  \* statuses the delivery events report
  MaxRun,         \* longest run of a request
  MaxTime,        \* bound: last reading of the clock
  MaxSwitches,    \* bound: deployments with another environment
  MaxFailures     \* bound: unknown outcomes, refusals, evictions, failed archives

ASSUME SendAssumption ==
  /\ None \notin Providers
  /\ Idempotent \subseteq Providers
  /\ Window \in [Idempotent -> Nat]
  /\ TTL \in [Idempotent -> Nat]
  /\ Environments # {}
  /\ Environments \subseteq [active : Providers \union {None}, configured : SUBSET Providers]
  /\ \A e \in Environments : e.active # None => e.active \in e.configured
  /\ EventStatuses \subseteq DeliveryStatuses
  /\ MaxRun \in Nat /\ MaxTime \in Nat /\ MaxSwitches \in Nat /\ MaxFailures \in Nat

\* The windows are chosen below the TTLs (23 h of 24 h, 25 min of about 30 min), and
\* the rest outlasts any request.
ASSUME WindowAssumption == \A p \in Idempotent : Window[p] + MaxRun <= TTL[p]

SUCCESS_STATUSES ==
  { "sent", "delivery_delayed", "delivered", "opened", "clicked",
    "partially_failed", "complained", "bounced", "suppressed" }
RETRYABLE_STATUSES == {"sending", "retryable_failed"}

VARIABLES
  clock,       \* the time
  env,         \* the current deployment
  switches,    \* deployments so far
  failures,    \* failures injected so far
  message,     \* the row: [status, archive, pinned, created]; "none" before it exists
  summary,     \* recipient_status_json
  pc,          \* where each request is
  kind,        \* "send" (POST with the key) or "retry" (POST .../retry)
  envOf,       \* the deployment each request runs in
  began,       \* when it began
  seen,        \* the row as it read it
  outcome,     \* what its provider answered
  took,        \* when each provider first took the message
  tookIt,      \* the providers that took the message
  copies,      \* copies sent to the recipients: 0, 1, or 2 for several
  told         \* some request was answered that the message is sent

requests == <<pc, kind, envOf, began, seen, outcome>>
outside == <<took, tookIt, copies>>
vars == <<clock, env, switches, failures, message, summary, requests, outside, told>>

NoMessage == [status |-> "none", archive |-> "none", pinned |-> None, created |-> 0]

\* A request at rest has no locals.
FirstEnv == CHOOSE e \in Environments : TRUE

Init ==
  /\ clock = 0
  /\ env \in Environments
  /\ switches = 0
  /\ failures = 0
  /\ message = NoMessage
  /\ summary = EmptySummary
  /\ pc = [w \in Workers |-> "idle"]
  /\ kind = [w \in Workers |-> "send"]
  /\ envOf = [w \in Workers |-> FirstEnv]
  /\ began = [w \in Workers |-> 0]
  /\ seen = [w \in Workers |-> NoMessage]
  /\ outcome = [w \in Workers |-> "none"]
  /\ took = [p \in Providers |-> 0]
  /\ tookIt = {}
  /\ copies = 0
  /\ told = FALSE

-----------------------------------------------------------------------------
Goto(w, stage) == pc' = [pc EXCEPT ![w] = stage]

\* The request is answered, or dies.
Answer(w) ==
  /\ Goto(w, "idle")
  /\ kind' = [kind EXCEPT ![w] = "send"]
  /\ envOf' = [envOf EXCEPT ![w] = FirstEnv]
  /\ began' = [began EXCEPT ![w] = 0]
  /\ seen' = [seen EXCEPT ![w] = NoMessage]
  /\ outcome' = [outcome EXCEPT ![w] = "none"]

\* A failure within the bound.
Injected == failures < MaxFailures /\ failures' = failures + 1

\* status=... WHERE status IN ('sending','retryable_failed')
Guarded(status) ==
  [message EXCEPT !.status = IF @ \in RETRYABLE_STATUSES THEN status ELSE @]

\* providerForMessage finds the pinned provider and it is configured.
PinnedIsConfigured(w) == seen[w].pinned \in envOf[w].configured

\* Variant: a provider without a window counts as always open.
WindowOpenForAll(w) ==
  seen[w].pinned \in Idempotent => clock - seen[w].created <= Window[seen[w].pinned]

\* The provider has a window and the message is not older.
WindowOpen(w) ==
  /\ seen[w].pinned \in Idempotent
  /\ clock - seen[w].created <= Window[seen[w].pinned]

-----------------------------------------------------------------------------
\* POST with the key, or a retry of the archived message.
Request(w, k) ==
  /\ pc[w] = "idle"
  /\ k = "send" => env.active # None
  /\ Goto(w, "read")
  /\ kind' = [kind EXCEPT ![w] = k]
  /\ envOf' = [envOf EXCEPT ![w] = env]
  /\ began' = [began EXCEPT ![w] = clock]
  /\ UNCHANGED <<clock, env, switches, failures, message, summary, seen, outcome, outside, told>>

\* SELECT ... WHERE idempotency_key=?, findMessage.
ReadRow(w) ==
  /\ pc[w] = "read"
  /\ seen' = [seen EXCEPT ![w] = message]
  /\ Goto(w, "decide")
  /\ UNCHANGED <<clock, env, switches, failures, message, summary, kind, envOf, began,
                 outcome, outside, told>>

\* No row: a retry answers 404, a send goes on to create it.
DecideToCreate(w) ==
  /\ pc[w] = "decide" /\ kind[w] = "send" /\ seen[w].status = "none"
  /\ Goto(w, "insert")
  /\ UNCHANGED <<clock, env, switches, failures, message, summary, kind, envOf, began, seen,
                 outcome, outside, told>>

MayRetry(w) ==
  /\ seen[w].status \in RETRYABLE_STATUSES
  /\ kind[w] = "retry" => seen[w].archive = "archived"
  /\ PinnedIsConfigured(w)

\* 404, the idempotent answer, 409 send_not_retryable, 409 archive_incomplete, or the
\* pinned provider is not configured.  (A send with other content, 409, changes nothing
\* and is left out.)
DecideToRefuse(w) ==
  /\ pc[w] = "decide"
  /\ ~MayRetry(w)
  /\ kind[w] = "send" => seen[w].status # "none"
  /\ told' = (told \/ seen[w].status \in SUCCESS_STATUSES)
  /\ Answer(w)
  /\ UNCHANGED <<clock, env, switches, failures, message, summary, outside>>

\* Variant: the request is refused and the row left as it is.
ExpireQuietly(w) ==
  /\ pc[w] = "decide"
  /\ MayRetry(w) /\ ~WindowOpen(w)
  /\ Answer(w)
  /\ UNCHANGED <<clock, env, switches, failures, message, summary, outside, told>>

\* The retry window is over, or there is none: the row is marked failed, whatever it
\* has become since it was read.
Expire(w) ==
  /\ pc[w] = "decide"
  /\ MayRetry(w) /\ ~WindowOpen(w)
  /\ message' = [message EXCEPT !.status = "failed"]
  /\ Answer(w)
  /\ UNCHANGED <<clock, env, switches, failures, summary, outside, told>>

\* sendMessage writes 'sending' without a condition, retryMessage with one.
Resume(w) ==
  /\ pc[w] = "decide"
  /\ MayRetry(w) /\ WindowOpen(w)
  /\ message' = IF kind[w] = "send" THEN [message EXCEPT !.status = "sending"]
                                    ELSE Guarded("sending")
  /\ Goto(w, IF seen[w].archive = "archived" THEN "deliver" ELSE "archive")
  /\ UNCHANGED <<clock, env, switches, failures, summary, kind, envOf, began, seen, outcome,
                 outside, told>>

\* The insert; a row with the key makes it fail (409, whichever content it has).
Insert(w) ==
  /\ pc[w] = "insert"
  /\ message.status = "none"
  /\ message' = [status |-> "sending", archive |-> "pending",
                 pinned |-> envOf[w].active, created |-> clock]
  /\ seen' = [seen EXCEPT ![w] = message']
  /\ Goto(w, "archive")
  /\ UNCHANGED <<clock, env, switches, failures, summary, kind, envOf, began, outcome,
                 outside, told>>

InsertConflict(w) ==
  /\ pc[w] = "insert"
  /\ message.status # "none"
  /\ Answer(w)
  /\ UNCHANGED <<clock, env, switches, failures, message, summary, outside, told>>

\* archiveOutgoing; then the row is read again.
Archive(w) ==
  /\ pc[w] = "archive"
  /\ message' = [message EXCEPT !.archive = "archived"]
  /\ seen' = [seen EXCEPT ![w] = message']
  /\ Goto(w, "deliver")
  /\ UNCHANGED <<clock, env, switches, failures, summary, kind, envOf, began, outcome,
                 outside, told>>

ArchiveFails(w) ==
  /\ pc[w] = "archive"
  /\ Injected
  /\ message' = [message EXCEPT !.status = "retryable_failed", !.archive = "failed"]
  /\ Answer(w)
  /\ UNCHANGED <<clock, env, switches, summary, outside, told>>

-----------------------------------------------------------------------------
\* sendMessage delivers through the active provider, retryMessage through the pinned one.
Route(w) == IF kind[w] = "send" THEN envOf[w].active ELSE seen[w].pinned

\* The provider remembers the key: it answers as before and sends no second copy.
Remembers(p) == p \in Idempotent /\ p \in tookIt /\ clock - took[p] <= TTL[p]

Min2(n) == IF n < 2 THEN n ELSE 2

\* The provider takes the message; its answer arrives with an id, or not.
Take(w) ==
  LET p == Route(w)
  IN  /\ pc[w] = "deliver"
      /\ tookIt' = tookIt \union {p}
      /\ took' = IF Remembers(p) THEN took ELSE [took EXCEPT ![p] = clock]
      /\ copies' = IF Remembers(p) THEN copies ELSE Min2(copies + 1)
      /\ \/ outcome' = [outcome EXCEPT ![w] = "ok"] /\ UNCHANGED failures
         \/ outcome' = [outcome EXCEPT ![w] = "unknown"] /\ Injected
      /\ Goto(w, "record")
      /\ UNCHANGED <<clock, env, switches, message, summary, kind, envOf, began, seen, told>>

\* It does not: no answer, a temporary refusal, a refusal.
NotTaken(w, o) ==
  /\ pc[w] = "deliver"
  /\ Injected
  /\ outcome' = [outcome EXCEPT ![w] = o]
  /\ Goto(w, "record")
  /\ UNCHANGED <<clock, env, switches, message, summary, kind, envOf, began, seen, outside, told>>

\* Variant: an answer without an id is recorded as a success.
RecordAnswerAlways(w) ==
  /\ pc[w] = "record" /\ outcome[w] # "ok"
  /\ message' = Guarded("sent")
  /\ Answer(w)
  /\ UNCHANGED <<clock, env, switches, failures, summary, outside, told>>

\* Variant: the provider's answer is stored as the status.
RecordAnswerVerbatim(w) ==
  /\ pc[w] = "record" /\ outcome[w] # "ok"
  /\ message' = Guarded(outcome[w])
  /\ Answer(w)
  /\ UNCHANGED <<clock, env, switches, failures, summary, outside, told>>

\* updateRetryableState
RecordAnswer(w) ==
  /\ pc[w] = "record" /\ outcome[w] # "ok"
  /\ message' = Guarded(CASE outcome[w] = "unknown" -> "sending"
                          [] outcome[w] = "retryable" -> "retryable_failed"
                          [] OTHER -> "failed")
  /\ Answer(w)
  /\ UNCHANGED <<clock, env, switches, failures, summary, outside, told>>

\* The provider's id is stored by send(), then the final batch marks the row sent; the
\* answer says "sent" (a retry answers with the status it reads back).
Confirm(w) ==
  /\ pc[w] = "record" /\ outcome[w] = "ok"
  /\ message' = Guarded("sent")
  /\ told' = (told \/ kind[w] = "send" \/ message'.status \in SUCCESS_STATUSES)
  /\ Answer(w)
  /\ UNCHANGED <<clock, env, switches, failures, summary, outside>>

\* The request is evicted, a D1 or R2 call throws, or sending is rate limited.
Die(w) ==
  /\ pc[w] # "idle"
  /\ Injected
  /\ Answer(w)
  /\ UNCHANGED <<clock, env, switches, message, summary, outside, told>>

-----------------------------------------------------------------------------
\* A delivery event of a message some provider took (applyDeliveryStatus).
Event(s) ==
  /\ tookIt # {}
  /\ summary' = updateRecipientSummary(summary, {}, s)
  /\ message' = [message EXCEPT !.status = aggregateDeliveryStatus(summary')]
  /\ UNCHANGED <<clock, env, switches, failures, requests, outside, told>>

\* The operator deploys with another provider.
Switch(e) ==
  /\ switches < MaxSwitches
  /\ e # env
  /\ env' = e
  /\ switches' = switches + 1
  /\ UNCHANGED <<clock, failures, message, summary, requests, outside, told>>

\* Time passes, but no request runs longer than MaxRun.
Tick ==
  /\ clock < MaxTime
  /\ \A w \in Workers : pc[w] # "idle" => clock - began[w] < MaxRun
  /\ clock' = clock + 1
  /\ UNCHANGED <<env, switches, failures, message, summary, requests, outside, told>>

-----------------------------------------------------------------------------
Step(w) ==
  \/ ReadRow(w) \/ DecideToCreate(w) \/ DecideToRefuse(w) \/ Expire(w) \/ Resume(w)
  \/ Insert(w) \/ InsertConflict(w) \/ Archive(w) \/ ArchiveFails(w) \/ Take(w)
  \/ (\E o \in {"unknown", "retryable", "rejected"} : NotTaken(w, o))
  \/ RecordAnswer(w) \/ Confirm(w)

Next ==
  \/ \E w \in Workers : Step(w) \/ Die(w) \/ \E k \in {"send", "retry"} : Request(w, k)
  \/ \E s \in EventStatuses : Event(s)
  \/ \E e \in Environments : Switch(e)
  \/ Tick

Spec == Init /\ [][Next]_vars

\* Requests run to their end; the client goes on posting with the key until the row
\* shows how the send ended; time passes.
Undecided == message.status \in RETRYABLE_STATUSES \union {"none"}

Fairness ==
  /\ \A w \in Workers : WF_vars(Step(w))
  /\ SF_vars(\E w \in Workers : Undecided /\ Request(w, "send"))
  /\ WF_vars(Tick)

FairSpec == Spec /\ Fairness

-----------------------------------------------------------------------------
Stages == {"idle", "read", "decide", "insert", "archive", "deliver", "record"}
Rows == [status : MessageStatuses \union {"none"},
         archive : {"none", "pending", "archived", "failed"},
         pinned : Providers \union {None},
         created : 0..MaxTime]

\* Types of all variables.
TypeOK ==
  /\ clock \in 0..MaxTime
  /\ env \in Environments
  /\ switches \in 0..MaxSwitches
  /\ failures \in 0..MaxFailures
  /\ message \in Rows
  /\ summary \in Summaries
  /\ pc \in [Workers -> Stages]
  /\ kind \in [Workers -> {"send", "retry"}]
  /\ envOf \in [Workers -> Environments]
  /\ began \in [Workers -> 0..MaxTime]
  /\ seen \in [Workers -> Rows]
  /\ outcome \in [Workers -> {"none", "ok", "unknown", "retryable", "rejected"}]
  /\ took \in [Providers -> 0..MaxTime]
  /\ tookIt \subseteq Providers
  /\ copies \in 0..2
  /\ told \in BOOLEAN

\* However many requests carry the key, are retried, time out or die, the recipients
\* get one copy: as long as the provider is not switched.
AtMostOneCopy == switches = 0 => copies <= 1

\* A message is shown, or answered, as sent only if a provider took it.
SentWasTaken == message.status \in SUCCESS_STATUSES \/ told => tookIt # {}

\* The deployment sends nothing, or has lost the provider the message is pinned to.
CannotSend ==
  \/ env.active = None
  \/ message.status # "none" /\ message.pinned \notin env.configured

\* A client that repeats its request learns in the end how the send ended, unless the
\* deployment cannot send the message any more.
EventuallyDecided == <>(~Undecided) \/ <>[]CannotSend

\* A message stays with the provider recorded on its row.
NeverRerouted == tookIt \subseteq {message.pinned}

\* A send that was answered as sent does not show as failed.
AnsweredSentIsNotFailed == told /\ summary = EmptySummary => message.status # "failed"
=============================================================================
