----------------------------- MODULE ThreadStore -----------------------------
(***************************************************************************)
(* src/mail/threads.ts and src/mail/retention.ts: the rows of mail_threads *)
(* with the summary that refreshThread keeps, the messages they hold, and  *)
(* the raw objects of R2; invocations that receive and send (as far as     *)
(* they touch threads), the console's requests, and the permanent deletion *)
(* of conversations by the console and by the scheduled run.               *)
(*                                                                         *)
(* Every step is one call of D1 or R2.  Times are ages in days that stop   *)
(* counting when nothing distinguishes them any more, updated_at only in   *)
(* the trash; a day passes while no invocation runs.  Attachments are      *)
(* opened in modules InboundArchive and OutboundArchive.                   *)
(* reconcileProviderMessageId is left out: nothing in the repository       *)
(* writes the column that would make it do anything.                       *)
(***************************************************************************)
EXTENDS Naturals, FiniteSets, FiniteSetsExt

CONSTANTS
  Messages,          \* the invocations that receive or send, and their messages
  Inbound,           \* the ones that receive
  Threads,
  NoThread,
  Cron, Console,     \* who deletes: the scheduled run and the console
  MessageRetention,  \* MESSAGE_RETENTION_DAYS, 0: keep
  TrashRetention,    \* TRASH_RETENTION_DAYS
  BatchLimit,        \* RETENTION_BATCH_LIMIT
  MaxEdits,          \* bound: requests of the console
  MaxFailures        \* bound: calls that fail, invocations that die

Deleters == {Cron, Console}
Longer(a, b) == IF a > b THEN a ELSE b
Ancient == Longer(MessageRetention, TrashRetention) + 1  \* 1970, and all that has expired
Ages == 0..Ancient

ASSUME ThreadAssumption ==
  /\ Inbound \subseteq Messages
  /\ NoThread \notin Threads /\ Cron # Console
  /\ MessageRetention \in Nat /\ TrashRetention \in Nat \ {0} /\ BatchLimit \in Nat \ {0}
  /\ MaxEdits \in Nat /\ MaxFailures \in Nat

VARIABLES
  threads,   \* mail_threads
  messages,  \* mail_messages
  objects,   \* the messages whose raw object is in R2
  at,        \* the step each invocation is at
  to,        \* the thread it works on
  marking,   \* the thread markThread has still to refresh
  job,       \* the deletion each deleter is at
  run,       \* the scheduled run
  stale,     \* threads whose writer ended without refreshing them (history)
  edits,
  failures

vars == <<threads, messages, objects, at, to, marking, job, run, stale, edits, failures>>
others == <<run, edits, failures>>

Statuses == {"open", "trash"}  \* archived and spam are open to all that is done here
Absent == [there |-> FALSE, status |-> "open", last |-> Ancient, updated |-> 0,
           unread |-> 0, incoming |-> FALSE, outgoing |-> FALSE]
NoRow == [thread |-> NoThread, direction |-> "none", read |-> TRUE, age |-> 0, keyed |-> FALSE]
NoJob == [at |-> "none", thread |-> NoThread, keys |-> {}]
NoRun == [phase |-> "none", todo |-> {}]

Init ==
  /\ threads = [t \in Threads |-> Absent]
  /\ messages = [m \in Messages |-> NoRow]
  /\ objects = {}
  /\ at = [m \in Messages |-> "new"]
  /\ to = [m \in Messages |-> NoThread]
  /\ marking = NoThread
  /\ job = [d \in Deleters |-> NoJob]
  /\ run = NoRun
  /\ stale = {}
  /\ edits = 0
  /\ failures = 0

Of(t) == {m \in Messages : messages[m].thread = t}
Incoming(t) == {m \in Of(t) : messages[m].direction = "incoming"}
Fails == failures < MaxFailures /\ failures' = failures + 1

-----------------------------------------------------------------------------
(* The statements on mail_threads *)

\* A row that satisfies the foreign key and leaves an existing conversation alone.
createThreadPlaceholder(t) ==
  threads' = IF threads[t].there THEN threads
             ELSE [threads EXCEPT ![t] = [Absent EXCEPT !.there = TRUE]]

ensureThread(t) ==
  threads' = [threads EXCEPT ![t].there = TRUE, ![t].last = 0, ![t].updated = 0,
                             ![t].status = IF threads[t].there THEN @ ELSE "open",
                             ![t].unread = IF threads[t].there THEN @ ELSE 0,
                             ![t].incoming = threads[t].there /\ @,
                             ![t].outgoing = threads[t].there /\ @]

\* What the summary of a thread should say.
Summary(t) ==
  [unread   |-> Cardinality({m \in Incoming(t) : ~messages[m].read}),
   incoming |-> Incoming(t) # {},
   outgoing |-> Of(t) \ Incoming(t) # {},
   last     |-> IF Of(t) = {} THEN threads[t].last ELSE Min({messages[m].age : m \in Of(t)})]

\* Variant: the count of unread messages is left as it is.
RefreshedWithout(t) == [threads[t] EXCEPT !.updated = 0, !.last = Summary(t).last,
                                          !.incoming = Summary(t).incoming,
                                          !.outgoing = Summary(t).outgoing]

Refreshed(t) == [threads[t] EXCEPT !.updated = 0, !.last = Summary(t).last,
                                   !.unread = Summary(t).unread,
                                   !.incoming = Summary(t).incoming,
                                   !.outgoing = Summary(t).outgoing]

refreshThread(t) ==
  /\ threads' = IF threads[t].there THEN [threads EXCEPT ![t] = Refreshed(t)] ELSE threads
  /\ stale' = stale \ {t}

DeleteIfEmpty(t) == threads' = IF Of(t) = {} THEN [threads EXCEPT ![t] = Absent] ELSE threads

-----------------------------------------------------------------------------
(* Receiving and sending *)

Goto(m, step) == at' = [at EXCEPT ![m] = step]
Leave(m) == Goto(m, "done") /\ to' = [to EXCEPT ![m] = NoThread]
Step(m, from, next) == at[m] = from /\ Goto(m, next) /\ UNCHANGED <<to, marking, job, others>>

Receive(m, t) ==
  /\ m \in Inbound
  /\ at[m] = "new" /\ Goto(m, "put") /\ to' = [to EXCEPT ![m] = t]
  /\ createThreadPlaceholder(t)
  /\ UNCHANGED <<messages, objects, marking, job, stale, others>>

Put(m) ==
  /\ Step(m, "put", "claim")
  /\ objects' = objects \union {m}
  /\ UNCHANGED <<threads, messages, stale>>

\* A thread that was deleted meanwhile makes the claim throw: the delivery is undone, and comes
\* again as another one.
Claim(m) ==
  /\ Step(m, "claim", "ensure")
  /\ threads[to[m]].there
  /\ messages' = [messages EXCEPT ![m] =
       [thread |-> to[m], direction |-> "incoming", read |-> FALSE, age |-> 0, keyed |-> TRUE]]
  /\ UNCHANGED <<threads, objects, stale>>

ClaimFails(m) ==
  /\ at[m] = "claim" /\ Leave(m)
  /\ \/ ~threads[to[m]].there /\ UNCHANGED failures
     \/ Fails
  /\ objects' = objects \ {m}
  /\ DeleteIfEmpty(to[m])
  /\ UNCHANGED <<messages, marking, job, run, stale, edits>>

PutFails(m) ==
  /\ at[m] = "put" /\ Leave(m) /\ Fails
  /\ DeleteIfEmpty(to[m])
  /\ UNCHANGED <<messages, objects, marking, job, run, stale, edits>>

Ensure(m) ==
  /\ Step(m, "ensure", "refresh")
  /\ ensureThread(to[m])
  /\ UNCHANGED <<messages, objects, stale>>

Send(m, t) ==
  /\ m \notin Inbound
  /\ at[m] = "new" /\ Goto(m, "insert") /\ to' = [to EXCEPT ![m] = t]
  /\ ensureThread(t)
  /\ UNCHANGED <<messages, objects, marking, job, stale, others>>

Insert(m) ==
  /\ Step(m, "insert", "archive")
  /\ threads[to[m]].there
  /\ messages' = [messages EXCEPT ![m] =
       [thread |-> to[m], direction |-> "outgoing", read |-> TRUE, age |-> 0, keyed |-> FALSE]]
  /\ UNCHANGED <<threads, objects, stale>>

\* The thread was deleted meanwhile.
InsertFails(m) ==
  /\ at[m] = "insert" /\ ~threads[to[m]].there /\ Leave(m)
  /\ UNCHANGED <<threads, messages, objects, marking, job, stale, others>>

ArchiveRaw(m) ==
  /\ Step(m, "archive", "link")
  /\ objects' = objects \union {m}
  /\ UNCHANGED <<threads, messages, stale>>

Link(m) ==
  /\ Step(m, "link", "refresh")
  /\ messages' = [messages EXCEPT ![m].keyed = messages[m].thread # NoThread]
  /\ UNCHANGED <<threads, objects, stale>>

Refresh(m) ==
  /\ at[m] = "refresh" /\ Leave(m)
  /\ refreshThread(to[m])
  /\ UNCHANGED <<messages, objects, marking, job, others>>

\* The invocation dies, or a send throws: archiving or the provider failed.
Stop(m) ==
  /\ at[m] \notin {"new", "done"} /\ Leave(m) /\ Fails
  /\ stale' = stale \union {to[m]}
  /\ UNCHANGED <<threads, messages, objects, marking, job, run, edits>>

-----------------------------------------------------------------------------
(* The console *)

Request == edits < MaxEdits /\ edits' = edits + 1

setThreadStatus(t, status) ==
  /\ Request /\ threads[t].there
  /\ threads' = [threads EXCEPT ![t].status = status, ![t].updated = 0]
  /\ UNCHANGED <<messages, objects, at, to, marking, job, run, stale, failures>>

markThread(t, read) ==
  /\ Request /\ threads[t].there /\ marking = NoThread /\ marking' = t
  /\ messages' = [m \in Messages |->
                    IF m \in Incoming(t) THEN [messages[m] EXCEPT !.read = read] ELSE messages[m]]
  /\ UNCHANGED <<threads, objects, at, to, job, run, stale, failures>>

Marked ==
  /\ marking # NoThread /\ marking' = NoThread
  /\ \/ refreshThread(marking) /\ UNCHANGED failures
     \/ Fails /\ stale' = stale \union {marking} /\ UNCHANGED threads
  /\ UNCHANGED <<messages, objects, at, to, job, run, edits>>

-----------------------------------------------------------------------------
(* deleteThreadData *)

Deleting(d, step) == job[d].at = step
Finish(d) == job' = [job EXCEPT ![d] = NoJob]

\* threadR2ObjectKeys
ListKeys(d, t) ==
  /\ Deleting(d, "none")
  /\ job' = [job EXCEPT ![d] = [at |-> "erase", thread |-> t,
                                 keys |-> {m \in Of(t) : messages[m].keyed}]]
  /\ UNCHANGED <<threads, messages, objects, at, to, marking, stale, failures>>

Erase(d) ==
  /\ Deleting(d, "erase")
  /\ objects' = objects \ job[d].keys
  /\ job' = [job EXCEPT ![d].at = "forget"]
  /\ UNCHANGED <<threads, messages, at, to, marking, stale, others>>

\* Variant: the rows go although R2 failed.
EraseFailsOpen(d) ==
  /\ Deleting(d, "erase") /\ Fails
  /\ \E keys \in SUBSET job[d].keys \ {job[d].keys} : objects' = objects \ keys
  /\ job' = [job EXCEPT ![d].at = "forget"]
  /\ UNCHANGED <<threads, messages, at, to, marking, run, stale, edits>>

\* R2 deletes some of the keys, or none, and the deletion ends.
EraseFails(d) ==
  /\ Deleting(d, "erase") /\ Fails
  /\ \E keys \in SUBSET job[d].keys \ {job[d].keys} : objects' = objects \ keys
  /\ Finish(d)
  /\ UNCHANGED <<threads, messages, at, to, marking, run, stale, edits>>

ForgetMessages(d) ==
  /\ Deleting(d, "forget")
  /\ messages' = [m \in Messages |-> IF m \in Of(job[d].thread) THEN NoRow ELSE messages[m]]
  /\ job' = [job EXCEPT ![d].at = "drop"]
  /\ UNCHANGED <<threads, objects, at, to, marking, stale, others>>

\* A message that came meanwhile restricts the delete, and the deletion fails.
DropThread(d) ==
  /\ Deleting(d, "drop")
  /\ DeleteIfEmpty(job[d].thread)
  /\ stale' = IF Of(job[d].thread) = {} THEN stale \ {job[d].thread} ELSE stale
  /\ Finish(d)
  /\ UNCHANGED <<messages, objects, at, to, marking, others>>

\* The invocation dies, the scheduled run with it; or D1 fails, and the run goes on.
DeletionStops(d) ==
  /\ ~Deleting(d, "none") /\ Fails
  /\ stale' = IF Deleting(d, "drop") THEN stale \union {job[d].thread} ELSE stale
  /\ Finish(d)
  /\ run' = IF d = Cron THEN NoRun ELSE run
  /\ UNCHANGED <<threads, messages, objects, at, to, marking, edits>>

DeleteThread(t) == Request /\ ListKeys(Console, t) /\ UNCHANGED run

-----------------------------------------------------------------------------
(* cleanupMail *)

Expired(t) ==
  /\ MessageRetention > 0 /\ threads[t].there
  /\ threads[t].status # "trash" /\ threads[t].last > MessageRetention

\* Variant: the same condition twice.
ExpiredTrashCopied(t) ==
  threads[t].there /\ threads[t].status # "trash" /\ threads[t].updated > TrashRetention

ExpiredTrash(t) ==
  threads[t].there /\ threads[t].status = "trash" /\ threads[t].updated > TrashRetention

\* The oldest ones, at most BatchLimit.
Batch(S, age) ==
  {B \in SUBSET S : /\ Cardinality(B) = IF Cardinality(S) < BatchLimit THEN Cardinality(S) ELSE BatchLimit
                    /\ \A s \in B, t \in S \ B : age[s] >= age[t]}

Last == [t \in Threads |-> threads[t].last]
Updated == [t \in Threads |-> threads[t].updated]

\* Candidates are read once; each is deleted whatever became of it meanwhile.
SelectExpired ==
  /\ run.phase = "none"
  /\ \E B \in Batch({t \in Threads : Expired(t)}, Last) : run' = [phase |-> "expired", todo |-> B]
  /\ UNCHANGED <<threads, messages, objects, at, to, marking, job, stale, edits, failures>>

SelectTrash ==
  /\ run.phase = "expired" /\ run.todo = {} /\ Deleting(Cron, "none")
  /\ \E B \in Batch({t \in Threads : ExpiredTrash(t)}, Updated) : run' = [phase |-> "trash", todo |-> B]
  /\ UNCHANGED <<threads, messages, objects, at, to, marking, job, stale, edits, failures>>

DeleteNext ==
  \E t \in run.todo :
    /\ ListKeys(Cron, t)
    /\ run' = [run EXCEPT !.todo = @ \ {t}]
    /\ UNCHANGED edits

EndRun ==
  /\ run.phase = "trash" /\ run.todo = {} /\ Deleting(Cron, "none")
  /\ run' = NoRun
  /\ UNCHANGED <<threads, messages, objects, at, to, marking, job, stale, edits, failures>>

cleanupMail == SelectExpired \/ DeleteNext \/ SelectTrash \/ EndRun

-----------------------------------------------------------------------------
Quiet ==
  /\ \A m \in Messages : at[m] \in {"new", "done"}
  /\ marking = NoThread /\ run = NoRun
  /\ \A d \in Deleters : Deleting(d, "none")

Older(age) == IF age < Ancient THEN age + 1 ELSE age

Day ==
  /\ Quiet
  /\ threads' = [t \in Threads |-> IF threads[t].there
                   THEN [threads[t] EXCEPT !.last = Older(@),
                                           !.updated = IF threads[t].status = "trash" THEN Older(@) ELSE @]
                   ELSE Absent]
  /\ messages' = [m \in Messages |-> IF messages[m] = NoRow THEN NoRow
                                     ELSE [messages[m] EXCEPT !.age = Older(@)]]
  /\ UNCHANGED <<objects, at, to, marking, job, run, stale, edits, failures>>

Invocation(m) ==
  \/ Put(m) \/ Claim(m) \/ ClaimFails(m) \/ PutFails(m) \/ Ensure(m)
  \/ Insert(m) \/ InsertFails(m) \/ ArchiveRaw(m) \/ Link(m) \/ Refresh(m) \/ Stop(m)

Deletion(d) ==
  Erase(d) \/ EraseFails(d) \/ ForgetMessages(d) \/ DropThread(d) \/ DeletionStops(d)

Next ==
  \/ \E m \in Messages : Invocation(m) \/ \E t \in Threads : Receive(m, t) \/ Send(m, t)
  \/ \E t \in Threads :
       \/ \E status \in Statuses : setThreadStatus(t, status)
       \/ \E read \in BOOLEAN : markThread(t, read)
       \/ DeleteThread(t)
  \/ Marked
  \/ \E d \in Deleters : Deletion(d)
  \/ cleanupMail
  \/ Day

\* Invocations run to their end or die; the cron trigger fires, and days pass.
Fairness ==
  /\ \A m \in Messages : WF_vars(Invocation(m))
  /\ WF_vars(Marked)
  /\ \A d \in Deleters : WF_vars(Deletion(d))
  /\ WF_vars(cleanupMail)
  /\ SF_vars(Day)

Spec == Init /\ [][Next]_vars
FairSpec == Spec /\ Fairness

-----------------------------------------------------------------------------
\* The type of every variable.
TypeOK ==
  /\ \A t \in Threads :
       /\ threads[t].there \in BOOLEAN /\ threads[t].status \in Statuses
       /\ threads[t].last \in Ages /\ threads[t].updated \in Ages
       /\ threads[t].unread \in 0..Cardinality(Messages)
       /\ threads[t].incoming \in BOOLEAN /\ threads[t].outgoing \in BOOLEAN
  /\ \A m \in Messages :
       /\ messages[m].thread \in Threads \union {NoThread}
       /\ messages[m].direction \in {"none", "incoming", "outgoing"}
       /\ messages[m].read \in BOOLEAN /\ messages[m].keyed \in BOOLEAN
       /\ messages[m].age \in Ages
       /\ to[m] \in Threads \union {NoThread}
  /\ objects \subseteq Messages /\ stale \subseteq Threads
  /\ marking \in Threads \union {NoThread}
  /\ \A d \in Deleters : job[d].at \in {"none", "erase", "forget", "drop"}
  /\ run.phase \in {"none", "expired", "trash"} /\ run.todo \subseteq Threads

\* The invocations that have yet to refresh a thread they wrote to.
Refreshing(t) ==
  \/ \E m \in Messages : to[m] = t /\ at[m] \in {"ensure", "insert", "archive", "link", "refresh"}
  \/ marking = t
  \/ \E d \in Deleters : job[d].thread = t /\ Deleting(d, "drop")

\* Receiving, sending, marking and deleting, in any interleaving, leave the summary that the
\* thread list is made of equal to what the messages say, but where an invocation ended before
\* its refresh.
SummaryIsTrue ==
  \A t \in Threads :
    threads[t].there /\ ~Refreshing(t) /\ t \notin stale =>
      LET row == threads[t]
      IN  Summary(t) = [unread |-> row.unread, incoming |-> row.incoming,
                        outgoing |-> row.outgoing, last |-> row.last]

Store == INSTANCE MessageStore WITH
  place  <- [m \in Messages |-> messages[m].thread],
  doomed <- [d \in Deleters |-> [thread |-> job[d].thread, keys |-> job[d].keys]]

\* deleteThreadData removes rows only when R2 has none of the objects it listed, whatever
\* fails in between and however deletions, arrivals and sends interleave.
ImplementsMessageStore == Store!Spec

\* A conversation left in the trash is removed in the end, although each run takes a few, R2
\* fails at times and messages come in meanwhile.
TrashIsPurged ==
  \A t \in Threads : threads[t].there /\ threads[t].status = "trash" ~>
                      ~threads[t].there \/ threads[t].status # "trash"
=============================================================================
