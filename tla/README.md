# MailGable: verification project

MailGable is a mailbox on Cloudflare: an Email Worker that receives, archives and
forwards mail, an HTTP Worker that sends it through Resend, Brevo or Cloudflare
Email Service, a queue consumer and webhooks for delivery events, D1 for rows and
R2 for raw messages and attachments, a browser console, and Node scripts with
which an operator sets it up.  This directory holds TLA+ models of the parts in
which order, concurrency and failure decide whether mail is lost, doubled or
misreported, whether the console tells the truth, and whether an operator can
finish what a stopped command began; the TLC runs that check them; and TLAPS
proofs.

Every module is translated from the code; `PROJECT.json` maps each definition to
the lines it stands for.  Paths below are relative to the repository.

Contents: 1 the system, 2 the modules, 3 the runs, 4 fairness, 5 what the code does
not promise, 6 the proofs, 7 what is not modelled, 8 the plan.

## 1. The system

| Component | Code | State it keeps | Operations |
|---|---|---|---|
| Inbound archive | `src/mail/inbound.ts`, `attachments.ts`, `archive.ts` | message row, raw object, attachment rows and objects | `handleInbound`, `storeIncomingAttachments` |
| Inbound forwarding | `src/inbound-forwarding.ts` | `inbound_forward_attempts` (status, `last_attempt_at` per target) | `forwardInboundCopies` and its claim and record statements |
| Outbound sending | `src/mail/outbound.ts`, `src/providers/*` | message row (`status`, `archive_status`, `outbound_provider`, `created_at`) | `sendMessage`, `retryMessage`, `forwardMessage`, the providers' `send()` |
| Outbound archive | `src/mail/outbound.ts`, `attachments.ts` | `archive_status`, `raw_r2_key`, objects and attachment rows | `archiveOutgoing`, `storedSendPlan` |
| Delivery events | `src/providers/events.ts`, `src/mail/delivery-events.ts`, `aggregateDeliveryStatus` in `src/lib.ts` | `status`, `recipient_status_json`, `provider_message_id`, `mail_delivery_events` | webhooks, queue batches, `applyDeliveryEvent` |
| Threads | `src/mail/threads.ts`, migration 0010 | thread rows with a denormalised summary | list, read, folder changes, `refreshThread` |
| Retention | `src/mail/retention.ts` | deletes rows and objects | scheduled clean-up, permanent deletion |
| Routing sync | `src/routing-sync.ts` | `mailboxes.routing_managed`, one synchronization in flight per isolate | read the rules, plan, apply, verify |
| Authentication | `src/auth.ts` | administrator, sessions, attempts | bootstrap, login, logout, password change, clean-up |
| Console | `public/js/*` | one state object: list, pane, draft and its key | load, open, act, compose |
| Operator scripts | `scripts/*` | state files, journals, credential store; remote deployment, secrets, webhooks | set-up, configure, provider switch, credential rotation |
| Status | `src/mail/status.ts` | a probe row and object | health and counters |
| Router | `src/index.ts` | none | dispatch, scheduled event, error answers |

How they interact: in production everything meets in D1 rows.  `handleInbound` makes
a thread, calls the archive and then forwarding; the sender's mail server redelivers
when it throws.  `sendMessage` calls the outbound archive and a provider; the provider
later calls back with delivery events, in any order and more than once, on the same
row.  Retention and the console delete threads other invocations still write to.  No
statement spans D1 and R2, no transaction spans two statements (except a D1 batch),
and an invocation may be evicted between any two calls.  The console's handlers share
one object and each goes on after its `await` with what the others have made of it.
The operator's commands share files of which none tells all, and any command may stop
between two of them.

What is hard, therefore: interleaved invocations on one row; reads used after an
`await`; redelivered, replayed and reordered events, messages and answers; claims of
dead invocations; a call that fails after it took effect; a provider whose answer is
lost; clean-up code that removes what another invocation stored; the retry window of a
provider's idempotency key; pages read while what they list changes; commands stopped
between a remote change and the file that records it.  `PROJECT.json` lists these at
their lines under `hazards`, with the properties that would catch each.

What makes each component correct:

* Delivery events: no acknowledged report is lost, no status goes back, a replay
  changes nothing, every good batch is acknowledged in the end.
* Forwarding: accepted is true and terminal, no unexplained second copy, success is
  answered only after a copy was taken, the sender is not kept retrying for ever.
* Sending: one copy per key, never shown as sent without a provider that took it,
  by the provider pinned to it, and the client learns the end.
* Archives: a message marked archived can be rebuilt from D1 and R2; clean-up removes
  only what its own pass stored; duplicates leave nothing behind.
* Threads and retention: the summary equals the messages; the rows outlive the objects
  they name; the trash is emptied.
* Routing sync: a plan is of one moment; what is said to be in sync is; what was made by
  hand stays.
* Sessions: no old password comes back, no session of an old password that did not race
  its change, limits hold up to the requests that overlap.
* Console: the list has each conversation once, the pane is the selected conversation
  without a gap, a key means one content.
* Operator scripts: files that agree tell what the Worker runs; a cleared journal means
  a finished operation; what is pending can be finished.

## 2. The modules

| Module | Models |
|---|---|
| `DeliveryStatus` | ranks, the per-recipient merge `updateRecipientSummary`, `aggregateDeliveryStatus` (pure) |
| `DeliveryLog` | abstract: the summary is the join by rank of the events applied; a batch is acknowledged when all its events are applied or dropped |
| `DeliveryEvents` | the ingress statement by statement; implements `DeliveryLog` |
| `InboundForwarding` | `forwardInboundCopies` with its claims, clock and redeliveries |
| `OutboundSend` | `sendMessage`, `retryMessage`, providers, windows, deployments, events |
| `OutboundArchive` | `archiveOutgoing`, its clean-up, and the reads of a retry |
| `InboundArchive` | `handleInbound`: placeholder, raw object, claim, attachments, verdict |
| `MessageStore` | abstract: rows go only when R2 has none of the objects that were listed for them |
| `ThreadStore` | threads, summaries and permanent deletion against receiving, sending and the console; implements `MessageStore` |
| `RoutingSync` | the synchronization of the mailboxes, per isolate, against edits of the rules |
| `AuthSessions` | every request of `auth.ts`, one D1 call at a time |
| `OperatorState` | what the operator's commands share: files, journals, store, remote state |
| `ProviderSwitch`, `CredentialRotation`, `ProductionSetup` | `provider.mjs`, `credentials.mjs`, `setup.mjs` and `configure.mjs` over that state |
| `OperatorTools` | their composition: one command at a time, stopped anywhere, over commits |
| `ThreadList`, `ThreadDetail`, `Compose` | the console's list, pane and compose dialog, each over the one before |
| `Console` | their composition with the clicks, the actions on a conversation and the failures |
| `ConfigurationProofs`, `AdministrationProofs` | theorems about `RoutingSync` and `OperatorTools`, and about `AuthSessions` and `Console` (section 6) |
| the other `*Proofs` | theorems about the module of that name |
| `MC*` | instances for TLC: model values and definitions for the constants |

Common conventions: a *worker*, *request* or *isolate* is one running invocation with a
program counter; each D1 statement, R2 call, provider call, `fetch` or file replaced is
one action; what an invocation read is in its locals (`seen`, `listed`, `mine`, `req[r].row`,
`sync[i]`), reset when it ends; failures are injected by actions that count against a
bound; variables marked *(history)* only record what happened, for the properties.
Definitions under "Variant:" are plausible mistakes in the code, named by `PROJECT.json`
as mutants; nothing in the specifications uses them.

### DeliveryEvents

`Deliver` starts an invocation with a batch (a webhook is a batch of one);
`RejectUnsupported`, `SkipItem` and `BeginItem` are the start of
`applyDeliveryEvent` and its callers; `Lookup` finds the row by provider id or
tag; `ReadSummary`, `WriteSummary`, `LoseRace` are the loop of
`applyDeliveryStatus` (`MaxCas` attempts, then 503); `RecordEvent` is the
`INSERT OR IGNORE`; `Fail` is a call that throws or an eviction.  The environment:
`ConfirmSend`, `RefuseSend` (guarded updates of the send side) and `DeleteMessage`
(retention).  `DeliveryLog` is instantiated by EXTENDS: its four variables are part of
this module, `applied` and `dropped` as history.

`PayloadRequired` is TRUE for the schema of the migrations, where
`mail_delivery_events.payload_json` is NOT NULL and the insert does not name it, so
the row is never stored.  The runs have TRUE; the theorems hold for both values, so
also for a repaired schema, in which an event whose message was deleted meanwhile is
linked to none (`Orphan`).

### InboundForwarding

`EnsureAttemptRows`, `ClaimTarget`/`MissTarget`/`AttemptStatus` (the claim loop, a
conditional UPDATE and the read of why it missed), `ForwardReturns`/`ForwardThrows`,
`MarkForwardAccepted`/`MarkThrows`/`MarkFailed`, `Conclude`.  Targets are numbered
in their configured order.  The clock gives claims their age; `StaleAfter` stands for
the fifteen minutes.  `lost` and `takenOver` remember the two events after which the code
can send a second copy.  `MarkThrows` has both outcomes of a D1 error: applied or not.

### OutboundSend

A request reads the row (`ReadRow`), decides (`DecideTo...`, `Expire`, `Resume`),
inserts, archives, delivers (`Take`, `NotTaken`) and records (`RecordAnswer`,
`Confirm`).  Each write has the condition the statement has, or none: `Expire` and
`Resume` of `sendMessage` write unconditionally.  A provider in `Idempotent` remembers
a key for `TTL` and sends one copy (external, from its documentation as the code
relies on it).  `WindowAssumption` is the code's choice of 23 h below 24 h and 25
min below 30 min.  `Switch` is a deployment with another `OUTBOUND_PROVIDER`.

Abstracted: archiving is one step (`OutboundArchive`), events arrive merged
(`DeliveryEvents`), the thread row is in `ThreadStore`, content checks and rate limit are
left out (a refusal before the row is read changes nothing, one after it is in `Die`).

### OutboundArchive and InboundArchive

`Find` is the read of the row that finds the message not archived, `Begin` the start of the
pass, which does not look again.  One pass of `archiveOutgoing` is `ListAttachments`,
`DeleteObjects`, `DeleteRows`, `PutObjects`, `InsertRows`, `PutRaw`, `UpdateRow`; its failures are
`InsertThrows`, `UpdateThrows` with the clean-up `DiscardRaw`, `CallThrows`, each with the catch
`MarkFailed`, or `Die`.  `Retry`, `GetRaw`, `SelectRows`, `GetAttachments` rebuild the message.  All
attachments of a pass are one object.

In both archives a call that throws may have been applied, and a clean-up may fail itself.
`misjudged` *(history)* remembers the one such call that costs something: the UPDATE of a pass (as
a set of passes) or the claim of a delivery that was applied, threw, and was cleaned up after as if
it had failed.  `overlapped` *(history)* remembers that a pass began while another one was running,
or on a row that was read before another pass had archived the message.

A delivery in `InboundArchive` is `Placeholder`, `PutRaw`, the claim (`Claim`,
`LoseClaim`, `ClaimThrows`), the clean-up of losers and failures (`DiscardRaw`,
`DiscardThread`, both best effort), `EnsureThread`, `PutAttachments`, `InsertChunk`,
`MarkArchived`, `MarkPartial`, `RefreshThread`, `Forward` (`InboundForwarding` in one
step) and `Die`.

### ThreadStore

A receiving invocation is `Receive` (the placeholder), `Put`, `Claim`, `Ensure`, `Refresh`,
a sending one `Send` (`ensureThread`), `Insert`, `ArchiveRaw`, `Link`, `Refresh`.  The
foreign key from messages to threads is in the guards: `Claim` and `Insert` need the
thread, `DropThread` needs it empty.  The console changes the folder (`setThreadStatus`),
marks (`markThread`, then `Marked`, its refresh) and deletes.  `deleteThreadData` is
`ListKeys`, `Erase` or `EraseFails` (R2 removed some of the objects), `ForgetMessages`,
`DropThread`; `cleanupMail` is `SelectExpired`, `DeleteNext`, `SelectTrash`, `EndRun`.  Ages
are counted in days up to the point where nothing tells them apart; a day passes between
invocations, never within one.  The refinement reads the thread of each message as its
`place` and the keys a deletion listed as `doomed`.

### RoutingSync

`Start` begins the one synchronization an isolate has in flight; a request that finds one
waits for it and is no step.  `FetchRulesPage` takes a page of the rules as they are now
and compares total and ids with the pages before (`Accepted`; the total only if `Counted`, and at most `MaxPages`
pages); `ReadRows` plans and reads the rows;
`ApplyBatch` is one D1 batch, which fails as a whole on an address inserted meanwhile, and
whose answer may be lost; `Verify` reads back and compares.  A batch writes the addresses of the
plan whether they are managed or not, which is the adoption the code means.  `PlanOrder` and
`RowOrder` are the two orders in which the code compares (section 5).

### AuthSessions

`StartBootstrap`/`InsertAdmin`; `StartLogin`, `EnforceLoginRateLimit` (the two counts, for the
address and the email, are steps of their own and come in any order), `ReadAdmin`,
`RecordFailure` (two inserts, likewise) or `UpgradePasswordHash` (the conditional rehash), then `createSession` as
`Stamp` (`created_at` is taken before the hashes are awaited), `InsertSession` and
`TrimSessions`; requests with a cookie (`StartAuthorized`) that revoke one session, all of
them, or change the password (`ReadForChange`, `CommitChange` as one batch); `CleanupAuth`.
A hash is its password, a salt that makes it unique and whether it is of today's scheme.
`raced` marks a login that had verified its password when the password was changed.

### The operator's modules

`OperatorState` has the three files that `validateOperatorState` compares, reduced to the
fields that ever change (provider and commit), the two journals, the store of credentials,
and the remote state: deployed provider, secrets, webhooks, resources.  A secret is a
number, 0 for none, so that an old value differs from a new one.  Each module has `Start...`
actions with the checks a command makes first, and one action per call or file.  `Stop` ends
a command anywhere; `Refused` are the steps that fail without anything being broken (a
missing secret, a missing file).  `gaps` remembers the three situations the files do not
tell (section 5).

### The console's modules

`ThreadList`: `Ask`, `LoadServed`, `LoadShown`, `LoadFails` are a load before its request, at
the server, and after it; `loadThreads` does nothing while one is in flight.  The server orders
the conversations by the time of their last message (`at`) and their id (`Precedes`), and cuts the
page after the cursor.
`ThreadDetail`: `openThread`, `loadOlderMessages`, `closeDetail` and the answers, which come
in any order.  `getThread` is two reads, `countMessages` and then `readMessages`, with the Worker's
other requests between them; an answer is asked, counted, served.  An open may mark the conversation
as read once it is shown (`MarkedRead`); if that request fails, the notice of `OpenFails` takes the
place of what is shown.  `Compose`: `openDraft`, `submitCompose` (fields), `Post` (after the files;
thread and parent are read here), the server's `PostStored`/`PostKnown`/`PostFails`, `Sent`.
The server's side of a key is what `OutboundSend` checks.  `Console` adds the clicks (only
while the modal dialog is closed), the actions on a conversation, and the tail of a
successful submission (`SentReload`, `SentOpen`, `SentEnds`).  What is written in a draft is
chosen when it is submitted; one action on a conversation is in flight at a time.

## 3. The runs

| Run | Configuration | Shows |
|---|---|---|
| `delivery_events` | 2 invocations, 1 webhook, 2 queue batches, `MaxCas` 2, 1 failure | `AckedEventsAreReflected`, `StatusIsAggregate`, `RecipientsNeverRegress`, `ImplementsDeliveryLog`, `CleanBatchesAreAcked` |
| `delivery_replay` | schema of the migrations, two webhooks | **violated**: `AckedReplayIsNoOp` |
| `inbound_forwarding` | 2 invocations, 2 targets, `StaleAfter` 1, clock to 2, 2 failures | `AcceptedWasForwarded`, `SecondCopiesAreExplained`, `SettledMeansForwarded`, `AcceptedIsTerminal`, `EventuallySettled` |
| `outbound_send` | 2 requests, posts and retries, 3 deployments, window 1 of TTL 2, clock to 3, 1 switch, 1 failure | types; `AtMostOneCopy`, `SentWasTaken`, `EventuallyDecided` |
| `send_switch` | 1 request at a time, 1 switch of the provider | **violated**: `NeverRerouted` |
| `outbound_archive` | 2 requests, 3 passes, 2 failures | types; `ArchivedIsComplete`, `RetriesSendWhole`, `RawKeyIsThere` |
| `inbound_archive` | 2 invocations, 3 deliveries, 2 chunks, 3 failures | types; `RawIsThere`, `ArchivedIsComplete`, `NothingLeftBehind`, `TakenIsArchived` |
| `threads` | 1 received and 1 sent message, 2 threads, retentions 1, batches of 1, 1 request of the console, 1 failure | `SummaryIsTrue`, `ImplementsMessageStore`, `TrashIsPurged` |
| `routing` | 2 isolates, 2 synchronizations, 2 addresses, up to 2 rules on pages of 1, 1 edit, rules counted | `PlanIsOfOneMoment`, `LastAnswerIsTrue`, `ByHandIsLeftAlone` |
| `sessions` | 2 requests at a time, 4 in all, 2 passwords, cap 1, limits 1 | `PasswordIsTheChosenOne`, `StaleSessionsRaced`, `LimitsHold` |
| `operator` | Resend, Brevo and none, 3 commands and the recoveries, 1 stop, 1 commit | `LocalTellsRemote`, `DeployedProviderHasItsKey`, `FinishedSwitchIsComplete`, `RotationConverges`, `PendingSwitchSettles` |
| `console` | 2 conversations, 2 folders, pages of 1, 3 arrivals, 2 keys, 3 clicks, 1 failure | `ListIsExact`, `PaneIsWhole`, `KeysFollowContent` |

All runs finish, the longest (`sessions`) in three to four minutes.

Why the bounds are enough for what is asked.

* The races of the Worker are between two invocations on one row; a third only repeats
  what one of the two does, and redelivery lets the same two workers stand for any number
  of invocations one after the other.  `MaxCas` 2 makes both the repeated read and the
  final 503 happen.  Two targets are the fewest with an order in the claim loop and a
  partial result.  A clock of 2 with `StaleAfter` 1 has a claim that is fresh and one
  that is taken over; in `OutboundSend` the clock passes the window (1), the TTL (2) and a
  request that begins in the window and delivers after it; the deployments are one that
  sends, one that sends nothing and one that has lost the key of the pinned provider.
  Three passes or deliveries let a third clean up after a second that met a first.  Two
  chunks are the fewest in which a later insert fails after an earlier one.
* `threads`: a message in the thread being deleted and one that arrives meanwhile, in that
  thread or in the other; batches of 1 leave a candidate for the next run.
* `routing`: two rules on pages of one are the fewest that an edit can shift between pages.
  Two edits lose a rule undetected (section 5); the property says so, and one is the bound.
  The two rules fit `MaxPages`; what happens past that limit, and without a count of the
  rules, is in the theorems only.
* `sessions`: a cap of 1 and limits of 1 are exceeded by two requests; three sessions and
  three salts allow a rehash, a change and another login.
* `operator`: three commands are a set-up, a switch and one that acts on what it left; the
  recoveries are not counted.
* `console`: pages of 1 with 2 conversations have a second page; 3 arrivals are more than the two
  pages of messages that the pane bridges.  `MCBudget` keeps clicks, failures, keys and arrivals
  from reaching their bounds all at once: clicks and keys are 3 together, clicks, failures, keys and
  arrivals 5, and twice the keys and the arrivals 4.

Failures are bounded by 1 to 3 a behaviour; each can strike any call.  `CHECK_DEADLOCK FALSE`
is set where the work is bounded and the system may come to rest with all of it used up (the
two archives, threads, routing, sessions, console).  The texts of a draft and the requests of
`OutboundArchive` are interchangeable and declared symmetric; neither run has a temporal property.

## 4. Fairness

* Weak fairness of an invocation's own steps: one that is not evicted runs on.
* Strong fairness of redelivery (`Deliver`, `Arrive`, `Receive` of the forwarding): svix,
  Brevo and the queue retry a batch that was not acknowledged, a mail server retries a
  message that was not taken.  The code answers errors so that they do.
* Strong fairness of a client that repeats its request while the send is undecided:
  the console offers the retry, and the 409 answer asks for it.
* Weak fairness of the clock.
* `ThreadStore`: weak fairness of each invocation, of the refresh of `markThread`, of each
  deletion and of `cleanupMail` (the cron trigger), strong fairness of `Day`, which is
  enabled between invocations only.
* `OperatorTools`: a command runs until it ends or is refused; the operator, who is told to
  by every other command, runs recover sooner or later (strong, because other commands
  come between).

Failures are finite in a behaviour, so what is repeated meets a good run in the end; no
fairness is assumed of failures, races, arrivals, clicks or the order of anything.

## 5. What the code does not promise

Two runs are expected to find a documented statement violated.

1. `delivery_replay`: the event row is never stored (`src/providers/events.ts:209`,
   `migrations/0001_mailbox.sql:138`), so the duplicate fast path is never taken.
   `RecipientsNeverRegress` still holds: the merge is idempotent.
2. `send_switch`: a post with a known key checks the pinned provider and uses the
   active one (`src/mail/outbound.ts:291,359`).  `retryMessage` uses the pinned one.

The models show further limits, which the properties name as exceptions rather than hide,
or which follow from definitions a reader can drop an exception from.

*Forwarding and archives.*  `forward()` and the record of it share one `try`
(`src/inbound-forwarding.ts:161-166`), so a lost record leads to a second copy (`NoSecondCopy`
fails).  Nothing resumes an archive whose winner was cut short (`src/mail/inbound.ts:122`): its row stays
pending (`cutShort` in `TakenIsArchived`), though it never says archived.  Two overlapping outbound
passes may store the attachments twice (`overlapped`); a pass overlaps too when its request read the
row before another pass had archived it (`src/mail/outbound.ts:278,348`).  A D1 statement that
was applied and whose answer is lost is cleaned up after as if it had failed
(`src/mail/outbound.ts:204`, `src/mail/inbound.ts:115`): the row then names a raw message that is gone.
The properties say how far this goes (`misjudged`): no other pass's or delivery's raw message is
touched; a received message so treated stays pending; a sent one is marked failed by the catch, unless
that fails too or another pass archives it, and a retry that read it as archived in between may
find no attachments and send without.  The loser of an inbound claim
forwards before the winner has archived.  A failed chunk of attachment rows removes the objects
of earlier chunks, whose rows stay (the message is marked partial).

*Sending.*  Without a retry window (Cloudflare) a second post marks the row failed while
the first is answered sent (`src/mail/outbound.ts:295-302`; `AnsweredSentIsNotFailed` fails).
The updates to 'sending' and 'failed' in `sendMessage` have no condition and can overwrite a
status a delivery event established; `StatusIsAggregate` is therefore about the guarded
writes.  An untagged event that precedes the record of the provider's id is dropped.

*Threads and retention.*  The placeholder of a thread is dated 1970 (`src/mail/threads.ts:54`):
with `MESSAGE_RETENTION_DAYS` above 0 the scheduled run may delete the thread of a message
being received, whose claim then fails.  `ensureThread` after a deletion makes an empty thread.
Failed sends (`src/mail/outbound.ts:353-359`) and delivery events do not refresh the summary,
although the header of migration 0010 says every lifecycle change does.  An object put after a
deletion listed its keys stays in R2 without a row.  Candidates are selected once, so a thread
restored meanwhile is deleted (`src/mail/retention.ts:67,85`).

*Routing.*  The plan is sorted by `localeCompare` (`src/routing-sync.ts:121`) and compared index
by index with rows that SQLite orders by bytes (298-312): an address list on which the two orders differ
(info@, info2@) never passes the check; it is answered 503 although the batch was committed.
The mock of `tests/runtime-routing-sync.test.mjs` sorts like the plan.  Two edits during
the paging that keep the total can lose a rule undetected.  A request that joins a synchronization in
flight gets a result older than its own edit (335).

*Sessions.*  A login that verified the old password before a change creates its session after
it (`StaleSessionsRaced` is exact about which).

*Operator scripts* (`gaps`).  "unjournaled": a deployment that took effect although wrangler
failed, or a stop before the journal says it was switched (`scripts/provider.mjs:272-277`).
"undeployed": set-up writes its state before it deploys (`scripts/setup.mjs:377`).  "overtaken":
set-up does not look at the journal of a pending switch.  When NEXT was removed and the journal
was not, recover refuses for good (`recovery_next_missing`); `PendingSwitchSettles` names
this.  Set-up derives the names of D1 and R2 but `config.json` never gets them, so files agree
only after they were added by hand (`NameResources`).  A bucket that was created without its
sentinel is never adopted.  Rotating a key of an inactive provider installs it on the Worker.

*Console.*  `api()` in `state.mjs:61` calls two functions that are not imported when it meets a
401.  A folder chosen during a load shows the old folder's list, and "load more" then mixes
the two (`spoiled`); a reload that failed leaves no cursor, so that "load more" repeats
the first page (the same).  A reply is to the conversation shown last while another is being
opened.  `submitCompose` reads thread and parent after its first `await`; a pane closed between two
submissions of one reply changes the payload, hence the key, hence a second message is sent.  The
pane tests for a status "closed" that does not exist (`messages.mjs:264`).  "Load older"
counts its pages from the newest message: it makes no progress when a page of messages arrived
meanwhile, and leaves a gap in the pane when more than two did (`pane.first`).  `getThread` counts
before it reads (`src/mail/threads.ts:258-259`), so that a message that arrives between the two can
push the first message off the last page, which then says that nothing is older (`pane.read >
pane.total`).  `PaneIsWhole` names both.

## 6. The proofs

TLAPS proves the following for every value of the constants that satisfies the modules' named
assumptions: any number of invocations, events, batches, recipients, targets, isolates,
rules, pages, passwords, sessions, messages, threads, commands, providers, credentials, drafts,
clicks, stops and failures.

| Theorem | Statement |
|---|---|
| `DeliveryEventsProofs!TypeCorrect` | `Spec => []TypeOK` |
| `DeliveryEventsProofs!NeverRegress` | `Spec => RecipientsNeverRegress` |
| `DeliveryEventsProofs!AggregateShown` | `Spec => []StatusIsAggregate` |
| `DeliveryEventsProofs!AckedReflected` | `Spec => []AckedEventsAreReflected` |
| `DeliveryEventsProofs!Implements` | `Spec => ImplementsDeliveryLog` |
| `InboundForwardingProofs!TypeCorrect` | `Spec => []TypeOK` |
| `InboundForwardingProofs!AcceptedStays` | `Spec => AcceptedIsTerminal` |
| `InboundForwardingProofs!SecondCopies` | `Spec => []SecondCopiesAreExplained` |
| `InboundForwardingProofs!AcceptedForwarded` | `Spec => []AcceptedWasForwarded` |
| `InboundForwardingProofs!SettledForwarded` | `Spec => []SettledMeansForwarded` |
| `OutboundSendProofs!TypeCorrect` | `Spec => []TypeOK` |
| `OutboundSendProofs!SentTaken` | `Spec => []SentWasTaken` |
| `OutboundSendProofs!OneCopy` | `Spec => []AtMostOneCopy` |
| `OutboundArchiveProofs!TypeCorrect` | `Spec => []TypeOK` |
| `OutboundArchiveProofs!RawKeyKept` | `Spec => []RawKeyIsThere` |
| `OutboundArchiveProofs!ArchiveComplete` | `Spec => []ArchivedIsComplete` |
| `OutboundArchiveProofs!RetriesWhole` | `Spec => []RetriesSendWhole` |
| `InboundArchiveProofs!TypeCorrect` | `Spec => []TypeOK` |
| `InboundArchiveProofs!RawKept` | `Spec => []RawIsThere` |
| `InboundArchiveProofs!ArchiveComplete` | `Spec => []ArchivedIsComplete` |
| `InboundArchiveProofs!NothingLeft` | `Spec => []NothingLeftBehind` |
| `ThreadStoreProofs!Implements` | `Spec => ImplementsMessageStore` |
| `ThreadStoreProofs!SummariesAreTrue` | `Spec => []SummaryIsTrue` |
| `ConfigurationProofs!TypeCorrect` | `Spec => []TypeOK` |
| `ConfigurationProofs!PlanOfOneMoment` | `Spec => []PlanIsOfOneMoment` |
| `ConfigurationProofs!LastAnswer` | `Spec => []LastAnswerIsTrue` |
| `ConfigurationProofs!ByHand` | `Spec => ByHandIsLeftAlone` |
| `ConfigurationProofs!OperatorTypeCorrect` | `OperatorSpec => []OperatorTypeOK` |
| `ConfigurationProofs!LocalTells` | `OperatorSpec => []LocalTellsRemote` |
| `ConfigurationProofs!DeployedHasItsKey` | `OperatorSpec => []DeployedProviderHasItsKey` |
| `ConfigurationProofs!FinishedSwitches` | `OperatorSpec => FinishedSwitchIsComplete` |
| `ConfigurationProofs!RotationsConverge` | `OperatorSpec => RotationConverges` |
| `AdministrationProofs!TypeCorrect` | `Spec => []TypeOK` |
| `AdministrationProofs!PasswordChosen` | `Spec => []PasswordIsTheChosenOne` |
| `AdministrationProofs!StaleRaced` | `Spec => []StaleSessionsRaced` |
| `AdministrationProofs!LimitsAreKept` | `Spec => []LimitsHold` |
| `AdministrationProofs!ConsoleTypeCorrect` | `ConsoleSpec => []ConsoleTypeOK` |
| `AdministrationProofs!ListedOnce` | `ConsoleSpec => []ListIsExact` |
| `AdministrationProofs!ShownWhole` | `ConsoleSpec => []PaneIsWhole` |
| `AdministrationProofs!KeysFollow` | `ConsoleSpec => []KeysFollowContent` |

The theorems of the two archives hold whether a call that throws was applied or not; the
exceptions (`misjudged`, `overlapped`) are in the properties (section 5).  `PlanIsOfOneMoment` has
`Counted` as its condition.

The assumptions on the constants are those of the code or of the encoding: `OperatorAssumption`
that the tables of `config/credentials.mjs` name known secrets and `Missing` is neither a provider
nor a record; `FoundAssumption` that the resources found at the start are of the kinds `setup-core.mjs`
tells apart; `ListAssumption` that there are finitely many conversations; `ComposeAssumption` that no
serialized payload is the empty string, which stands for no text; and that pages have room for one.

Arguments.

*Delivery events*: `updateRecipientSummary` never lowers a rank (`MergeNeverRegresses`) and
reaches the event's rank (`MergeReflects`), and the summary changes only in `WriteSummary`,
whose condition makes what was read the current value.  So "every applied event shows" is
inductive; with "every item of a batch before the one a worker is at is settled"
(`PassedItemsAreSettled`) it gives `AckedEventsAreReflected`.  For the refinement the
invariant is `SummaryIsJoin`: one merge into the join of a set of events is the join of the set
with the event added (`MergeIsJoin`, from the distinct ranks), so every write is an `Apply` and
moving past the last item an `Acknowledge`.

*Forwarding*: a row that is in the hands of a worker is either still its own claim or
was taken over; a target with a returned `forward()` that is neither lost nor taken
over is either accepted or held by the one worker about to record it, and hence not
claimable.  That is the strengthening without which `SecondCopiesAreExplained` is not
inductive.

*Sending*: `Routed` follows the pinned provider through the requests' copies of the row, so
that a provider is contacted that exists.  `TakenIsKnown` says that while nobody took the
message no row, event or answer shows a success.  For `OneCopy`: `Known` (what a request read is of
the row, it began no longer than `MaxRun` ago and within the window of the row it delivers, and the row is
older than what was taken), `DeliversAlone` (a message pinned to a provider without a window is
delivered once, by the request that inserted it), and `OneProvider` (while nothing is switched all requests
run in one deployment, what was taken was taken by the pinned provider, and there is one copy).
`StillRemembered` puts them together: the window plus the run of a request is within the TTL by
`WindowAssumption`, so a second delivery meets a remembered key.

*Outbound archive*: `Tokens` says that running passes have different tokens, none of
them the one the row names unless its own UPDATE was misjudged, and that a pass about to update has
its raw message in R2; hence the clean-up of a failing pass never hits the object another pass
stored, even when passes overlap.  `Lone` is for passes one after the other: the one running pass
has cleared the rows before it inserts and owns the only row after, and the message is not archived
while it runs, but for a pass that is `Ending`, which writes only its clean-up and its catch.  `Readers`
says that, while no UPDATE was misjudged either (`Calm`), whoever retries reads an archived message.

*Inbound archive*: `Types` adds to the types that whoever archives has a row (else the
verdict would be written to no row).  `Owner` says that running deliveries have different
numbers and that only the invocation the row names archives, `Rows` follows it through its
chunks, and the two give `ArchiveComplete`.  `Custody` says that whoever still contends for
the claim is not the one the row names, so its clean-up is harmless, unless a claim was misjudged;
then nobody archives the message, now or later, so it stays pending (`MisjudgedStays`).  `Kept` is the full account of what is stored while
nothing has failed.

*Threads*: `Positions` says that an invocation that has not claimed or inserted yet has no row,
which makes its clean-up a `Withdraw` and its claim a `Place`, and that a row has a key only when its
invocation is past writing the object; `JobOK` says that a deletion listed objects of such
messages only, and that none of them is in R2 past `Erase`.  Hence what another invocation puts
meanwhile is never an object the deletion listed (`ActDoes`, `DeletionKeeps`).  Every step then maps to a
step of `MessageStore` or a stutter (`NextRefines`).  For the summaries, `Kept` weakens what has to be
true: a thread that someone is yet to refresh, or whose rows were forgotten by a deletion that has
yet to drop it, may say anything (`Pending`), any other thread that is there and not stale says what its
messages say (`Told`), and a thread that is not there has no messages, which is the foreign key.  A step
is about one thread and leaves what is said of the others alone (`Undisturbed`); a day makes the least
age of a thread's messages older by as much as its row (`LeastGrowsOlder`).

*Routing*: `LastPlan` says that whoever verifies, and committed last, compares with the plan it committed;
`LastAnswer` follows because the rows change in a commit only.  `NamesKnown` says that every address in the
pages read, in a plan, or in a managed row was named by some rule; hence neither half of a
batch touches a mailbox made by hand.  For `PlanOfOneMoment`: what a synchronization has read is the
beginning of the list it began with or, after one edit, of that list or of the present one (`Moment`).  An
edit that changes the length is caught by the total of the next page; one that does not changes one
rule (`EditIsOne`), which lies before or after what was read (`ReadKeeps`, `PageExtends`).

*Sessions*: `AuthInv` says that requests have the passwords they came with, that without an
administrator nobody is past bootstrap (`Present`), that a login past its check holds the current password
or raced a change (`LoginsRaced`), and that live sessions do so as well.  The rehash is safe
because the row it compares with holds the password that was verified.  For the limits each
step moves at most one of what is counted: a session inserted is a login that has yet to trim
(`InsertSessionCapped`), a trim leaves the cap (`TrimSessionsCapped`), a login that dies in between is
remembered (`DieCapped`), and an attempt that passed its check is counted from then on
(`CheckBounded`, `RecordBounded`).

*Operator*: `OperatorInv` says, for each step of a command, what the files, the journals and the
Worker agree on already.  `SwitchIsJournaled` and `Converges` follow a switch: the journal and NEXT name
the provider that is switched to, and the files that come before a step are brought up to it, so
that clearing the journal finds all of them done (`FinishedSwitches`).  `FilesTell` is `LocalTellsRemote`
with the exceptions for the steps between a deployment and its record; it needs `SetupTells`, that
set-up deploys what its files say and overtakes a pending switch only with a gap.  A secret is dropped only
for a provider that the setup state does not name (`Removing`), which keeps the key of the deployed one
(`ValuesAreThere`).  `RotationIsHeld` says that past the put the Worker has the value of the rotation, so
a rotation ends with what the operator's shell shows.

*Console*: the list, the pane and the draft are disturbed by different actions (`Moves`), and each has an
invariant of its own.  For the list, `PageServed` says that a page holds each conversation that did
not move, from the cursor it was asked with to its last one, exactly once (`Listing`, `Places`,
`ServedPage`); joined to a list that ends at that cursor it is the longer list (`ListGoesOn`).  For the pane,
`Sound` says of a detail that its messages exist and go without a gap down from the newest (`Range1`),
unless more than two pages came in since it was opened; it holds of what is shown,
of what would be shown by each answer in flight, and survives arrivals (`RowsGrow`); `FirstPage` and `NextPage`
are the arithmetic of the offsets.  For the draft, `KeysInv` says that its key is on the
requests with its present content and no other (`KeysStep`).  `PaneIsWhole` without either of its two
exceptions is false: TLC finds the gap with 3 arrivals, and the lost first message.

Every invariant and action property of the passing runs is stated by one of these theorems.  Only
model-checked is liveness (`CleanBatchesAreAcked`, `EventuallySettled`, `EventuallyDecided`,
`TakenIsArchived`, `TrashIsPurged`, `PendingSwitchSettles`), which the prover does not
reach.  `AckedReplayIsNoOp` and `NeverRerouted` are violated and so have nothing to prove.

## 7. Not modelled

* The router: stateless; every route that changes state is an action of the module of its
  handler.  Status and probes: private rows and objects.
* Text: MIME parsing and building, sanitisation, address normalisation, signature and CSRF
  checks are pure functions on text and bytes.  Thread matching by reference is a choice
  of a thread, the payload of an event the event it yields.
* The send rate limit, which is built like the attempts that `AuthSessions` models, and
  `forwardMessage`, which composes a body and calls `sendMessage`.
* `reconcileProviderMessageId`: nothing in the repository writes the column that would make it
  do anything.
* Operator scripts: DNS and Email Routing reconciliation, the migrations-only form of set-up,
  the commands that only read, hand-written configuration text.
* Console: rendering, the login form, the routing page.
* Generated types, logging, demo data and repository checks.

## 8. The plan

Done in this order: delivery events, forwarding, sending and the two archives with their
proofs; then threads and retention, routing, sessions, operator scripts and the console; then
the proofs of sending, sessions, routing and the two refinements; then those of the operator's commands
and of the console.

What would come next: the composition of `InboundArchive` with `ThreadStore`, so that a deletion meets
attachments as well as raw objects.
