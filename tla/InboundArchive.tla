--------------------------- MODULE InboundArchive ---------------------------
(***************************************************************************)
(* Receiving one incoming message: handleInbound of src/mail/inbound.ts    *)
(* with createThreadPlaceholder, ensureThread, refreshThread and           *)
(* storeIncomingAttachments.  A worker is one running invocation; the      *)
(* sender may deliver the message again at any time, and does so when an   *)
(* invocation throws.  The insert of the message row is the claim: one     *)
(* invocation wins it and archives, the others only forward.               *)
(*                                                                         *)
(* Messages refused before any state is touched (size, unknown or inactive *)
(* recipient) are left out.  Forwarding is one step here; module           *)
(* InboundForwarding opens it.                                             *)
(***************************************************************************)
EXTENDS Naturals, FiniteSets

CONSTANTS
  Workers,         \* concurrent invocations for this message
  Chunks,          \* INSERTs of attachment rows, 8 attachments each
  MaxDeliveries,   \* bound: deliveries by the sender
  MaxFailures      \* bound: calls that throw, evictions

Passes == 1..MaxDeliveries
NoPass == 0

ASSUME InboundAssumption ==
  /\ Chunks \in Nat
  /\ MaxDeliveries \in Nat \ {0}
  /\ MaxFailures \in Nat

VARIABLES
  thread,       \* its mail_threads row: absent, a placeholder of 1970, or live
  others,       \* the thread holds other messages
  message,      \* its mail_messages row: [raw, archive]
  rawObjects,   \* raw messages in R2, by the delivery that put them
  attRows,      \* mail_attachments: <<delivery, chunk>>
  attObjects,   \* attachments in R2, likewise
  deliveries,   \* deliveries so far
  pc,           \* where each invocation is
  pass,         \* the delivery it handles
  chunk,        \* the chunk of rows it is at
  failures,     \* failures injected so far
  taken,        \* some invocation returned normally
  cutShort,     \* an invocation ended between its claim and its forward
  misjudged     \* a claim threw although D1 had applied it

d1 == <<thread, others, message, attRows>>
r2 == <<rawObjects, attObjects>>
history == <<taken, cutShort, misjudged>>
vars == <<d1, r2, deliveries, pc, pass, chunk, failures, history>>

NoMessage == [raw |-> NoPass, archive |-> "none"]
Exists == message # NoMessage

\* The message starts a conversation or continues one.
Init ==
  /\ \/ thread = "absent" /\ others = FALSE
     \/ thread = "live" /\ others = TRUE
  /\ message = NoMessage
  /\ rawObjects = {}
  /\ attRows = {}
  /\ attObjects = {}
  /\ deliveries = 0
  /\ pc = [w \in Workers |-> "idle"]
  /\ pass = [w \in Workers |-> NoPass]
  /\ chunk = [w \in Workers |-> 1]
  /\ failures = 0
  /\ taken = FALSE
  /\ cutShort = FALSE
  /\ misjudged = FALSE

-----------------------------------------------------------------------------
Goto(w, stage) == pc' = [pc EXCEPT ![w] = stage]

Leave(w) ==
  /\ Goto(w, "idle")
  /\ pass' = [pass EXCEPT ![w] = NoPass]
  /\ chunk' = [chunk EXCEPT ![w] = 1]

Move(w, from, to) == pc[w] = from /\ Goto(w, to) /\ UNCHANGED <<pass, chunk>>

Injected == failures < MaxFailures /\ failures' = failures + 1

\* A call whose failure is swallowed: it is made, or fails without a trace.
BestEffort(call, unchanged) ==
  \/ call /\ UNCHANGED failures
  \/ unchanged /\ Injected

\* incomingRawObjectName; the variant has no random token.
RawKeyShared(w) == 1
RawKey(w) == pass[w]

Own(w) == {<<pass[w], c>> : c \in 1..Chunks}

-----------------------------------------------------------------------------
Receive(w) ==
  /\ pc[w] = "idle"
  /\ deliveries < MaxDeliveries
  /\ deliveries' = deliveries + 1
  /\ pass' = [pass EXCEPT ![w] = deliveries + 1]
  /\ Goto(w, "thread")
  /\ UNCHANGED <<d1, r2, chunk, failures, history>>

\* createThreadPlaceholder: INSERT OR IGNORE.
Placeholder(w) ==
  /\ Move(w, "thread", "put")
  /\ thread' = IF thread = "absent" THEN "placeholder" ELSE thread
  /\ UNCHANGED <<others, message, attRows, r2, deliveries, failures, history>>

PutRaw(w) ==
  /\ Move(w, "put", "claim")
  /\ rawObjects' = rawObjects \union {RawKey(w)}
  /\ UNCHANGED <<d1, attObjects, deliveries, failures, history>>

PutRawThrows(w) ==
  /\ Move(w, "put", "undoThread")
  /\ Injected
  /\ UNCHANGED <<d1, r2, deliveries, history>>

\* INSERT OR IGNORE INTO mail_messages: the first to come wins.
Claim(w) ==
  /\ Move(w, "claim", "ensure")
  /\ thread # "absent" /\ ~Exists
  /\ message' = [raw |-> RawKey(w), archive |-> "pending"]
  /\ UNCHANGED <<thread, others, attRows, r2, deliveries, failures, history>>

LoseClaim(w) ==
  /\ Move(w, "claim", "loseRaw")
  /\ Exists
  /\ UNCHANGED <<d1, r2, deliveries, failures, history>>

\* The thread was removed meanwhile (foreign key), or the call throws, applied or not.
ClaimThrows(w) ==
  \E applied \in BOOLEAN :
    /\ Move(w, "claim", "undoRaw")
    /\ IF thread = "absent" THEN UNCHANGED failures ELSE Injected
    /\ applied => thread # "absent" /\ ~Exists
    /\ message' = IF applied THEN [raw |-> RawKey(w), archive |-> "pending"] ELSE message
    /\ misjudged' = (misjudged \/ applied)
    /\ UNCHANGED <<thread, others, attRows, r2, deliveries, taken, cutShort>>

\* Variant: only a failed delivery removes its raw message.
DiscardRawOfFailed(w) ==
  /\ \/ Move(w, "undoRaw", "undoThread") /\ rawObjects' = rawObjects \ {RawKey(w)}
     \/ Move(w, "loseRaw", "loseThread") /\ UNCHANGED rawObjects
  /\ UNCHANGED <<d1, attObjects, deliveries, failures, history>>

\* The raw message of a delivery that threw or lost is deleted again.
DiscardRaw(w) ==
  /\ Move(w, "undoRaw", "undoThread") \/ Move(w, "loseRaw", "loseThread")
  /\ BestEffort(rawObjects' = rawObjects \ {RawKey(w)}, UNCHANGED rawObjects)
  /\ UNCHANGED <<d1, attObjects, deliveries, history>>

\* So is the thread if no message is in it; a loser then forwards, others throw.
DiscardThread(w) ==
  /\ \/ pc[w] = "undoThread" /\ Leave(w)
     \/ Move(w, "loseThread", "forward")
  /\ BestEffort(thread' = IF ~Exists /\ ~others THEN "absent" ELSE thread, UNCHANGED thread)
  /\ UNCHANGED <<others, message, attRows, r2, deliveries, history>>

-----------------------------------------------------------------------------
\* The winner: ensureThread gives the thread its subject and a real date.
EnsureThread(w) ==
  /\ Move(w, "ensure", "attach")
  /\ thread' = "live"
  /\ UNCHANGED <<others, message, attRows, r2, deliveries, failures, history>>

\* storeIncomingAttachments: the objects of all attachments, then rows in chunks.
PutAttachments(w) ==
  /\ Move(w, "attach", IF Chunks = 0 THEN "mark" ELSE "rows")
  /\ attObjects' = attObjects \union Own(w)
  /\ UNCHANGED <<d1, rawObjects, deliveries, failures, history>>

\* A put fails: the objects put before it stay.
PutAttachmentsThrows(w) ==
  \E c \in 1..Chunks :
    /\ Move(w, "attach", "markPartial")
    /\ Injected
    /\ attObjects' = attObjects \union {o \in Own(w) : o[2] < c}
    /\ UNCHANGED <<d1, rawObjects, deliveries, history>>

\* Variant: the loop over the chunks runs once too often.
InsertChunkOnceMore(w) ==
  /\ pc[w] = "rows"
  /\ attRows' = attRows \union {<<pass[w], chunk[w]>>}
  /\ chunk' = [chunk EXCEPT ![w] = IF @ <= Chunks THEN @ + 1 ELSE 1]
  /\ Goto(w, IF chunk[w] <= Chunks THEN "rows" ELSE "mark")
  /\ UNCHANGED <<thread, others, message, r2, deliveries, pass, failures, history>>

InsertChunk(w) ==
  /\ pc[w] = "rows"
  /\ attRows' = attRows \union {<<pass[w], chunk[w]>>}
  /\ chunk' = [chunk EXCEPT ![w] = IF @ < Chunks THEN @ + 1 ELSE 1]
  /\ Goto(w, IF chunk[w] < Chunks THEN "rows" ELSE "mark")
  /\ UNCHANGED <<thread, others, message, r2, deliveries, pass, failures, history>>

\* Variant: the error is swallowed with the clean-up.
InsertChunkThrowsQuietly(w) ==
  /\ pc[w] = "rows"
  /\ Injected
  /\ attObjects' = attObjects \ Own(w)
  /\ chunk' = [chunk EXCEPT ![w] = 1]
  /\ Goto(w, "mark")
  /\ UNCHANGED <<d1, rawObjects, deliveries, pass, history>>

\* A chunk fails, applied or not: every object of the message is deleted, of earlier
\* chunks too, save those whose deletion fails as well.
InsertChunkThrows(w) ==
  /\ pc[w] = "rows"
  /\ Injected
  /\ \E inserted \in {{}, {<<pass[w], chunk[w]>>}} : attRows' = attRows \union inserted
  /\ \E kept \in SUBSET Own(w) : attObjects' = attObjects \ (Own(w) \ kept)
  /\ chunk' = [chunk EXCEPT ![w] = 1]
  /\ Goto(w, "markPartial")
  /\ UNCHANGED <<thread, others, message, rawObjects, deliveries, pass, history>>

\* The row with its verdict: attachments beyond the limits were skipped, or not.
Verdict(skipped) ==
  [message EXCEPT !.archive =
     IF skipped THEN "partial" ELSE IF @ = "pending" THEN "archived" ELSE @]

MarkArchived(w) ==
  \E skipped \in BOOLEAN :
    /\ Move(w, "mark", "refresh")
    /\ message' = Verdict(skipped)
    /\ UNCHANGED <<thread, others, attRows, r2, deliveries, failures, history>>

\* The verdict throws, applied or not.
MarkArchivedThrows(w) ==
  \E skipped \in BOOLEAN :
    /\ Move(w, "mark", "markPartial")
    /\ Injected
    /\ message' \in {message, Verdict(skipped)}
    /\ UNCHANGED <<thread, others, attRows, r2, deliveries, history>>

\* Variant: the catch only logs.
MarkPartialNever(w) ==
  /\ Move(w, "markPartial", "refresh")
  /\ UNCHANGED <<d1, r2, deliveries, failures, history>>

\* The catch around the attachments.
MarkPartial(w) ==
  /\ Move(w, "markPartial", "refresh")
  /\ message' = [message EXCEPT !.archive = "partial"]
  /\ UNCHANGED <<thread, others, attRows, r2, deliveries, failures, history>>

RefreshThread(w) ==
  /\ Move(w, "refresh", "forward")
  /\ UNCHANGED <<d1, r2, deliveries, failures, history>>

\* forwardInboundCopies returns.
Forward(w) ==
  /\ pc[w] = "forward"
  /\ taken' = TRUE
  /\ Leave(w)
  /\ UNCHANGED <<d1, r2, deliveries, failures, cutShort, misjudged>>

\* The winner is between its claim and its forward.
Archiving(w) == pc[w] \in {"ensure", "attach", "rows", "mark", "markPartial"}

\* A call outside every try throws, forwarding throws, or the invocation is evicted.
Die(w) ==
  /\ pc[w] # "idle"
  /\ Injected
  /\ cutShort' = (cutShort \/ Archiving(w))
  /\ Leave(w)
  /\ UNCHANGED <<d1, r2, deliveries, taken, misjudged>>

-----------------------------------------------------------------------------
Step(w) ==
  \/ Placeholder(w) \/ PutRaw(w) \/ PutRawThrows(w) \/ Claim(w) \/ LoseClaim(w) \/ ClaimThrows(w)
  \/ DiscardRaw(w) \/ DiscardThread(w) \/ EnsureThread(w) \/ PutAttachments(w)
  \/ PutAttachmentsThrows(w) \/ InsertChunk(w) \/ InsertChunkThrows(w) \/ MarkArchived(w)
  \/ MarkArchivedThrows(w) \/ MarkPartial(w) \/ RefreshThread(w) \/ Forward(w)

Next == \E w \in Workers : Receive(w) \/ Step(w) \/ Die(w)

Spec == Init /\ [][Next]_vars

\* Invocations run to their end; the sender retries until one returned normally.
Fairness ==
  /\ \A w \in Workers : WF_vars(Step(w))
  /\ SF_vars(\E w \in Workers : ~taken /\ Receive(w))

FairSpec == Spec /\ Fairness

-----------------------------------------------------------------------------
Stages == {"idle", "thread", "put", "claim", "undoRaw", "undoThread", "loseRaw", "loseThread",
           "ensure", "attach", "rows", "mark", "markPartial", "refresh", "forward"}

\* Types of all variables.
TypeOK ==
  /\ thread \in {"absent", "placeholder", "live"}
  /\ others \in BOOLEAN
  /\ message \in [raw : Passes, archive : {"pending", "archived", "partial"}] \union {NoMessage}
  /\ rawObjects \subseteq Passes
  /\ attRows \subseteq Passes \X (1..Chunks)
  /\ attObjects \subseteq Passes \X (1..Chunks)
  /\ deliveries \in 0..MaxDeliveries
  /\ pc \in [Workers -> Stages]
  /\ pass \in [Workers -> Passes \union {NoPass}]
  /\ \A w \in Workers : pc[w] # "idle" => pass[w] # NoPass
  /\ chunk \in [Workers -> Nat \ {0}]
  /\ \A w \in Workers : pc[w] = "rows" => chunk[w] <= Chunks
  /\ failures \in 0..MaxFailures
  /\ {taken, cutShort, misjudged} \subseteq BOOLEAN

\* A losing or failing delivery removes only its own raw message, never the one the row
\* of the winner refers to.  There is one exception, and it goes no further: a claim that
\* threw although it was applied, whose delivery takes its raw message away from its own
\* row.  Such a message is never reported as archived, wholly or in part.
RawIsThere ==
  Exists => message.raw \in rawObjects \/ (misjudged /\ message.archive = "pending")

\* A message marked archived has all its attachments, rows and objects.
ArchivedIsComplete ==
  message.archive = "archived" =>
    \A c \in 1..Chunks : <<message.raw, c>> \in attRows \intersect attObjects

AtRest == \A w \in Workers : pc[w] = "idle"

\* If nothing failed, duplicate deliveries leave one raw message, its attachments and
\* no empty thread.
NothingLeftBehind ==
  AtRest /\ failures = 0 => /\ rawObjects = {message.raw} \ {NoPass}
                            /\ attRows = attObjects
                            /\ thread = "absent" => ~Exists
                            /\ thread = "placeholder" => FALSE

Done == message.archive \in {"archived", "partial"}

\* A message reported as taken is archived in the end, or marked as partly archived,
\* whatever call failed and however its deliveries raced, unless the winner of the claim
\* was cut short or does not know that it won: no later delivery takes over from it.
TakenIsArchived == taken ~> Done \/ cutShort \/ misjudged
=============================================================================
