-------------------------- MODULE OutboundArchive --------------------------
(***************************************************************************)
(* The archive of one outgoing message: archiveOutgoing and its catch in   *)
(* sendMessage, storedSendPlan of a retry (src/mail/outbound.ts), and the  *)
(* attachment functions they call (src/mail/attachments.ts).  The row and  *)
(* the attachment rows are in D1, the raw message and the attachments in   *)
(* R2: nothing spans the two, so each call is a step.                      *)
(*                                                                         *)
(* A pass is one run of archiveOutgoing.  Its keys hold random tokens, so  *)
(* passes never share an object; all attachments of a pass are one object  *)
(* here, and their rows one row.                                           *)
(***************************************************************************)
EXTENDS Naturals, FiniteSets

CONSTANTS
  Workers,      \* requests with the key of the message
  MaxPasses,    \* bound: runs of archiveOutgoing
  MaxFailures   \* bound: calls that throw, evictions

Passes == 1..MaxPasses
NoPass == 0

ASSUME ArchiveAssumption ==
  /\ MaxPasses \in Nat \ {0}
  /\ MaxFailures \in Nat

VARIABLES
  archive,      \* mail_messages.archive_status
  rawKey,       \* mail_messages.raw_r2_key: the pass that wrote it
  rawObjects,   \* raw messages in R2
  attRows,      \* mail_attachments of the message
  attObjects,   \* attachments in R2
  passes,       \* passes begun
  pc,           \* where each request is
  pass,         \* the pass it makes
  listed,       \* the attachment rows it read
  failures,     \* failures injected so far
  handed,       \* how many times the attachments were in a retried message
  overlapped,   \* a pass began while another one was running, or after one had archived
  misjudged     \* passes whose UPDATE threw although D1 had applied it

d1 == <<archive, rawKey, attRows>>
r2 == <<rawObjects, attObjects>>
history == <<handed, overlapped, misjudged>>
vars == <<d1, r2, passes, pc, pass, listed, failures, history>>

Init ==
  /\ archive = "pending"
  /\ rawKey = NoPass
  /\ rawObjects = {}
  /\ attRows = {}
  /\ attObjects = {}
  /\ passes = 0
  /\ pc = [w \in Workers |-> "idle"]
  /\ pass = [w \in Workers |-> NoPass]
  /\ listed = [w \in Workers |-> {}]
  /\ failures = 0
  /\ handed = {}
  /\ overlapped = FALSE
  /\ misjudged = {}

-----------------------------------------------------------------------------
Goto(w, stage) == pc' = [pc EXCEPT ![w] = stage]

Leave(w) ==
  /\ Goto(w, "idle")
  /\ pass' = [pass EXCEPT ![w] = NoPass]
  /\ listed' = [listed EXCEPT ![w] = {}]

Move(w, from, to) == pc[w] = from /\ Goto(w, to) /\ UNCHANGED <<pass, listed>>

\* The key of a pass's raw message; the variant names it original.eml.
RawKeyShared(w) == 1
RawKey(w) == pass[w]

\* The request is inside archiveOutgoing or its catch.
PassStages == {"list", "clear", "unlink", "put", "insert", "raw", "update", "undo", "fail"}
Archiving(w) == pc[w] \in PassStages

\* A pass over a message that another one archives, or has archived meanwhile.
Overlaps == archive = "archived" \/ \E v \in Workers : Archiving(v)

\* sendMessage reads the row and finds the message not archived.
Find(w) ==
  /\ archive # "archived"
  /\ Move(w, "idle", "found")
  /\ UNCHANGED <<d1, r2, passes, failures, history>>

\* Variant: the pass takes the token of the pass before it.
BeginWithOldToken(w) ==
  /\ pc[w] = "found"
  /\ passes < MaxPasses
  /\ passes' = passes + 1
  /\ pass' = [pass EXCEPT ![w] = passes]
  /\ Goto(w, "list")
  /\ overlapped' = (overlapped \/ Overlaps)
  /\ UNCHANGED <<d1, r2, listed, failures, handed, misjudged>>

\* It archives the message as it read it: the row may say something else by now.
Begin(w) ==
  /\ pc[w] = "found"
  /\ passes < MaxPasses
  /\ passes' = passes + 1
  /\ pass' = [pass EXCEPT ![w] = passes + 1]
  /\ Goto(w, "list")
  /\ overlapped' = (overlapped \/ Overlaps)
  /\ UNCHANGED <<d1, r2, listed, failures, handed, misjudged>>

\* Variant: deleteOutgoingAttachments is not called.
ListAttachmentsNever(w) ==
  /\ Move(w, "list", "put")
  /\ UNCHANGED <<d1, r2, passes, failures, history>>

\* deleteOutgoingAttachments: SELECT r2_object_key, delete each, DELETE the rows.
ListAttachments(w) ==
  /\ pc[w] = "list"
  /\ listed' = [listed EXCEPT ![w] = attRows]
  /\ Goto(w, "clear")
  /\ UNCHANGED <<d1, r2, passes, pass, failures, history>>

ObjectsDeleted(w) == attObjects' = attObjects \ listed[w] /\ UNCHANGED <<d1, rawObjects>>
RowsDeleted == attRows' = {} /\ UNCHANGED <<archive, rawKey, r2>>
ObjectsPut(w) == attObjects' = attObjects \union {pass[w]} /\ UNCHANGED <<d1, rawObjects>>
RawPut(w) == rawObjects' = rawObjects \union {RawKey(w)} /\ UNCHANGED <<d1, attObjects>>

DeleteObjects(w) ==
  /\ Move(w, "clear", "unlink")
  /\ ObjectsDeleted(w)
  /\ UNCHANGED <<passes, failures, history>>

\* Variant: the rows of an earlier pass are left in place.
DeleteRowsNever(w) ==
  /\ Move(w, "unlink", "put")
  /\ UNCHANGED <<d1, r2, passes, failures, history>>

DeleteRows(w) ==
  /\ Move(w, "unlink", "put")
  /\ RowsDeleted
  /\ UNCHANGED <<passes, failures, history>>

\* archiveOutgoingAttachments: the objects first, then their rows.
PutObjects(w) ==
  /\ Move(w, "put", "insert")
  /\ ObjectsPut(w)
  /\ UNCHANGED <<passes, failures, history>>

InsertRows(w) ==
  /\ Move(w, "insert", "raw")
  /\ attRows' = attRows \union {pass[w]}
  /\ UNCHANGED <<archive, rawKey, r2, passes, failures, history>>

PutRaw(w) ==
  /\ Move(w, "raw", "update")
  /\ RawPut(w)
  /\ UNCHANGED <<passes, failures, history>>

UpdateRow(w) ==
  /\ Move(w, "update", "send")
  /\ archive' = "archived"
  /\ rawKey' = RawKey(w)
  /\ UNCHANGED <<attRows, r2, passes, failures, history>>

\* The message is handed to the provider from memory.
Send(w) ==
  /\ pc[w] = "send"
  /\ Leave(w)
  /\ UNCHANGED <<d1, r2, passes, failures, history>>

-----------------------------------------------------------------------------
Injected == failures < MaxFailures /\ failures' = failures + 1

\* The insert throws, applied or not: the objects of the pass are deleted again, or stay
\* behind if that fails as well.
InsertThrows(w) ==
  /\ Move(w, "insert", "fail")
  /\ Injected
  /\ attRows' \in {attRows, attRows \union {pass[w]}}
  /\ attObjects' \in {attObjects, attObjects \ {pass[w]}}
  /\ UNCHANGED <<archive, rawKey, rawObjects, passes, history>>

\* The update throws, applied or not.
UpdateThrows(w) ==
  /\ Move(w, "update", "undo")
  /\ Injected
  /\ \/ UNCHANGED <<archive, rawKey, misjudged>>
     \/ /\ archive' = "archived"
        /\ rawKey' = RawKey(w)
        /\ misjudged' = misjudged \union {RawKey(w)}
  /\ UNCHANGED <<attRows, r2, passes, handed, overlapped>>

\* Its catch deletes the raw message of the pass, or leaves it if that fails as well.
DiscardRaw(w) ==
  /\ Move(w, "undo", "fail")
  /\ rawObjects' \in {rawObjects, rawObjects \ {RawKey(w)}}
  /\ UNCHANGED <<d1, attObjects, passes, failures, history>>

\* Any other call of the pass throws, applied or not.
CallThrows(w) ==
  /\ pc[w] \in {"list", "clear", "unlink", "put", "raw"}
  /\ Injected
  /\ \/ UNCHANGED <<d1, r2>>
     \/ pc[w] = "clear" /\ ObjectsDeleted(w)
     \/ pc[w] = "unlink" /\ RowsDeleted
     \/ pc[w] = "put" /\ ObjectsPut(w)
     \/ pc[w] = "raw" /\ RawPut(w)
  /\ Goto(w, "fail")
  /\ UNCHANGED <<passes, pass, listed, history>>

\* The catch of sendMessage.
MarkFailed(w) ==
  /\ pc[w] = "fail"
  /\ archive' = "failed"
  /\ Leave(w)
  /\ UNCHANGED <<rawKey, attRows, r2, passes, failures, history>>

\* The request is evicted, or the statement of the catch throws.
Die(w) ==
  /\ pc[w] # "idle"
  /\ Injected
  /\ Leave(w)
  /\ UNCHANGED <<d1, r2, passes, history>>

-----------------------------------------------------------------------------
\* retryMessage of an archived message: the raw message, then the attachments.
Retry(w) ==
  /\ pc[w] = "idle"
  /\ archive = "archived" /\ rawKey # NoPass
  /\ pass' = [pass EXCEPT ![w] = rawKey]
  /\ Goto(w, "getRaw")
  /\ UNCHANGED <<d1, r2, passes, listed, failures, history>>

\* Without the raw message the retry is answered 503.
GetRaw(w) ==
  /\ pc[w] = "getRaw"
  /\ IF pass[w] \in rawObjects
       THEN Goto(w, "select") /\ UNCHANGED <<pass, listed>>
       ELSE Leave(w)
  /\ UNCHANGED <<d1, r2, passes, failures, history>>

SelectRows(w) ==
  /\ pc[w] = "select"
  /\ listed' = [listed EXCEPT ![w] = attRows]
  /\ Goto(w, "getAttachments")
  /\ UNCHANGED <<d1, r2, passes, pass, failures, history>>

\* So it is when an attachment is missing; otherwise what was found is sent.
GetAttachments(w) ==
  /\ pc[w] = "getAttachments"
  /\ handed' = IF listed[w] \subseteq attObjects
                 THEN handed \union {Cardinality(listed[w])} ELSE handed
  /\ Leave(w)
  /\ UNCHANGED <<d1, r2, passes, failures, overlapped, misjudged>>

-----------------------------------------------------------------------------
Next ==
  \E w \in Workers :
    \/ Find(w) \/ Begin(w) \/ ListAttachments(w) \/ DeleteObjects(w) \/ DeleteRows(w)
    \/ PutObjects(w) \/ InsertRows(w) \/ PutRaw(w) \/ UpdateRow(w) \/ Send(w)
    \/ InsertThrows(w) \/ UpdateThrows(w) \/ DiscardRaw(w) \/ CallThrows(w)
    \/ MarkFailed(w) \/ Die(w)
    \/ Retry(w) \/ GetRaw(w) \/ SelectRows(w) \/ GetAttachments(w)

Spec == Init /\ [][Next]_vars

-----------------------------------------------------------------------------
Stages == {"idle", "found", "list", "clear", "unlink", "put", "insert", "raw", "update",
           "undo", "send", "fail", "getRaw", "select", "getAttachments"}

\* Types of all variables.
TypeOK ==
  /\ archive \in {"pending", "archived", "failed"}
  /\ rawKey \in Passes \union {NoPass}
  /\ rawObjects \subseteq Passes
  /\ attRows \subseteq Passes
  /\ attObjects \subseteq Passes
  /\ passes \in 0..MaxPasses
  /\ pc \in [Workers -> Stages]
  /\ pass \in [Workers -> Passes \union {NoPass}]
  /\ \A w \in Workers : pc[w] \notin {"idle", "found"} => pass[w] # NoPass
  /\ listed \in [Workers -> SUBSET Passes]
  /\ failures \in 0..MaxFailures
  /\ handed \subseteq 0..MaxPasses
  /\ overlapped \in BOOLEAN
  /\ misjudged \subseteq Passes

AtRest == \A w \in Workers : ~Archiving(w)

\* However often the archive failed or was cut short before, a message marked archived
\* can be rebuilt: its raw message and one set of its attachments are there.  Two
\* passes that overlap may leave two sets (deleteOutgoingAttachments removes what it
\* listed, and both insert).  The raw message may be missing after an UPDATE that threw
\* although it was applied; the attachments are complete even then.
ArchivedIsComplete ==
  AtRest /\ archive = "archived" /\ ~overlapped =>
    /\ rawKey \in rawObjects \union misjudged
    /\ \E p \in attObjects : attRows = {p}

\* A retried message carries its attachments once, unless passes overlapped or an UPDATE
\* that threw was applied.
RetriesSendWhole == overlapped \/ misjudged # {} \/ handed \subseteq {1}

\* A pass that fails never takes away the raw message another pass has stored, however
\* many requests archive the message at once; it takes its own away from the row only if
\* its UPDATE threw although it was applied.
RawKeyIsThere == rawKey # NoPass => rawKey \in rawObjects \union misjudged
=============================================================================
