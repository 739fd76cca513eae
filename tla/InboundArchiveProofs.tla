------------------------ MODULE InboundArchiveProofs ------------------------
(***************************************************************************)
(* Proofs about module InboundArchive, for any number of invocations,      *)
(* deliveries, chunks and failures.                                        *)
(***************************************************************************)
EXTENDS InboundArchive, TLAPS

\* The constants are numbers, and no delivery has the number 0.
LEMMA Numbers ==
  /\ MaxDeliveries \in Nat \ {0} /\ MaxFailures \in Nat /\ Chunks \in Nat
  /\ NoPass = 0 /\ NoPass \notin Passes /\ Passes \subseteq Nat
  BY InboundAssumption DEF NoPass, Passes

\* A row and its absence are records of the same fields.
LEMMA Records ==
  /\ NoMessage.raw = NoPass /\ NoMessage.archive = "none"
  /\ \A p, a : [raw |-> p, archive |-> a].raw = p /\ [raw |-> p, archive |-> a].archive = a
  BY DEF NoMessage

\* A step of one invocation leaves the locals of the others alone.
LEMMA OthersStay ==
  ASSUME TypeOK, NEW w \in Workers, Receive(w) \/ Step(w) \/ Die(w)
  PROVE  \A v \in Workers \ {w} : pc'[v] = pc[v] /\ pass'[v] = pass[v] /\ chunk'[v] = chunk[v]
<1>1. CASE Receive(w) \/ Die(w)
  BY <1>1 DEF Receive, Die, Leave, Goto, TypeOK
<1>2. CASE \/ PutRaw(w) \/ Placeholder(w) \/ PutRawThrows(w) \/ Claim(w) \/ LoseClaim(w)
           \/ ClaimThrows(w) \/ DiscardRaw(w) \/ EnsureThread(w) \/ PutAttachments(w)
           \/ PutAttachmentsThrows(w) \/ MarkArchived(w) \/ MarkArchivedThrows(w)
           \/ MarkPartial(w) \/ RefreshThread(w)
  <2>1. PICK to : Goto(w, to) /\ UNCHANGED <<pass, chunk>>
    BY <1>2 DEF PutRaw, Placeholder, PutRawThrows, Claim, LoseClaim, ClaimThrows, DiscardRaw,
                EnsureThread, PutAttachments, PutAttachmentsThrows, MarkArchived,
                MarkArchivedThrows, MarkPartial, RefreshThread, Move
  <2>. QED
    BY <2>1 DEF Goto, TypeOK
<1>3. CASE DiscardThread(w) \/ Forward(w)
  BY <1>3 DEF DiscardThread, Forward, Move, Leave, Goto, TypeOK
<1>4. CASE InsertChunk(w) \/ InsertChunkThrows(w)
  <2>1. \E n : chunk' = [chunk EXCEPT ![w] = n]
    BY <1>4 DEF InsertChunk, InsertChunkThrows
  <2>2. \E to : pc' = [pc EXCEPT ![w] = to]
    BY <1>4 DEF InsertChunk, InsertChunkThrows, Goto
  <2>3. pass' = pass
    BY <1>4 DEF InsertChunk, InsertChunkThrows
  <2>. QED
    BY <2>1, <2>2, <2>3 DEF TypeOK
<1>. QED
  BY <1>1, <1>2, <1>3, <1>4 DEF Step

-----------------------------------------------------------------------------
(* The types, with what they rest on: whoever archives has claimed a row. *)
Types ==
  /\ TypeOK
  /\ \A w \in Workers : Archiving(w) => Exists
  /\ \A w \in Workers : pc[w] # "rows" => chunk[w] = 1

\* The locals of the others are as before, so those of the step's own invocation decide.
LEMMA LocalTypes ==
  ASSUME Types, NEW w \in Workers, Receive(w) \/ Step(w) \/ Die(w),
         pc' \in [Workers -> Stages],
         pass' \in [Workers -> Passes \union {NoPass}],
         chunk' \in [Workers -> Nat \ {0}],
         pc'[w] # "idle" => pass'[w] # NoPass,
         pc'[w] = "rows" => chunk'[w] <= Chunks,
         pc'[w] # "rows" => chunk'[w] = 1,
         Archiving(w)' => Exists',
         Exists => Exists',
         message' \in [raw : Passes, archive : {"pending", "archived", "partial"}]
                        \union {NoMessage},
         thread' \in {"absent", "placeholder", "live"},
         others' = others,
         rawObjects' \subseteq Passes,
         attRows' \subseteq Passes \X (1..Chunks),
         attObjects' \subseteq Passes \X (1..Chunks),
         deliveries' \in 0..MaxDeliveries,
         failures' \in 0..MaxFailures,
         taken' \in BOOLEAN, cutShort' \in BOOLEAN, misjudged' \in BOOLEAN
  PROVE  Types'
<1>. DEFINE Local(v) == /\ pc'[v] # "idle" => pass'[v] # NoPass
                        /\ pc'[v] = "rows" => chunk'[v] <= Chunks
                        /\ pc'[v] # "rows" => chunk'[v] = 1
                        /\ Archiving(v)' => Exists'
<1>1. \A v \in Workers \ {w} : pc'[v] = pc[v] /\ pass'[v] = pass[v] /\ chunk'[v] = chunk[v]
  BY OthersStay DEF Types
<1>2. \A v \in Workers \ {w} : Local(v)
  BY <1>1 DEF Types, TypeOK, Archiving
<1>3. Local(w)
  OBVIOUS
<1>4. \A v \in Workers : Local(v)
  BY <1>2, <1>3
<1>5. TypeOK'
  BY <1>4 DEF Types, TypeOK
<1>. QED
  BY <1>4, <1>5 DEF Types

\* Going on to a stage other than the chunks keeps the locals.
LEMMA MoveTypes ==
  ASSUME Types, NEW w \in Workers, NEW from, NEW to \in Stages \ {"rows"},
         from \notin {"idle", "rows"}, Move(w, from, to)
  PROVE  /\ pc' \in [Workers -> Stages] /\ pc'[w] = to
         /\ pass' \in [Workers -> Passes \union {NoPass}] /\ pass'[w] # NoPass
         /\ chunk' \in [Workers -> Nat \ {0}] /\ chunk'[w] = 1
         /\ pass[w] \in Passes /\ pass' = pass
  BY DEF Types, TypeOK, Move, Goto

\* Ending an invocation resets its locals.
LEMMA LeaveTypes ==
  ASSUME Types, NEW w \in Workers, Leave(w)
  PROVE  /\ pc' \in [Workers -> Stages] /\ pc'[w] = "idle"
         /\ pass' \in [Workers -> Passes \union {NoPass}]
         /\ chunk' \in [Workers -> Nat \ {0}] /\ chunk'[w] = 1
  BY DEF Types, TypeOK, Leave, Goto, Stages

\* Every step keeps the types, and whoever archives has a row.
LEMMA TypesStep == Types /\ [Next]_vars => Types'
<1> SUFFICES ASSUME Types, [Next]_vars
             PROVE  Types'
  OBVIOUS
<1>. USE Numbers, Records
<1>1. ASSUME NEW w \in Workers, Receive(w)
      PROVE  Types'
  <2>1. deliveries + 1 \in Passes /\ deliveries' \in 0..MaxDeliveries
    BY <1>1 DEF Types, TypeOK, Receive, Passes
  <2>2. /\ pc' \in [Workers -> Stages] /\ pc'[w] = "thread"
        /\ pass' \in [Workers -> Passes \union {NoPass}] /\ pass'[w] # NoPass
        /\ chunk' \in [Workers -> Nat \ {0}] /\ chunk'[w] = 1
    BY <1>1, <2>1 DEF Types, TypeOK, Receive, Goto, Stages
  <2>3. ~Archiving(w)'
    BY <2>2 DEF Archiving
  <2>. QED
    BY <1>1, <2>1, <2>2, <2>3, LocalTypes
       DEF Receive, Types, TypeOK, d1, r2, history, Exists
<1>2. ASSUME NEW w \in Workers,
             \/ Placeholder(w) \/ PutRaw(w) \/ PutRawThrows(w) \/ LoseClaim(w) \/ DiscardRaw(w)
             \/ EnsureThread(w) \/ RefreshThread(w)
      PROVE  Types'
  <2>1. PICK from \in Stages \ {"idle", "rows"}, to \in Stages \ {"rows"} :
          /\ Move(w, from, to)
          /\ to \in {"attach", "markPartial", "ensure", "mark"} => Archiving(w)
    BY <1>2 DEF Placeholder, PutRaw, PutRawThrows, LoseClaim, DiscardRaw, EnsureThread,
                RefreshThread, Stages, Archiving, Move
  <2>2. /\ pc' \in [Workers -> Stages] /\ pc'[w] = to
        /\ pass' \in [Workers -> Passes \union {NoPass}] /\ pass'[w] # NoPass
        /\ chunk' \in [Workers -> Nat \ {0}] /\ chunk'[w] = 1
        /\ pass[w] \in Passes
    BY <2>1, MoveTypes
  <2>3. /\ message' = message /\ others' = others /\ deliveries' = deliveries
        /\ attRows' = attRows /\ attObjects' = attObjects
        /\ taken' = taken /\ cutShort' = cutShort /\ misjudged' = misjudged
    BY <1>2 DEF Placeholder, PutRaw, PutRawThrows, LoseClaim, DiscardRaw, EnsureThread,
                RefreshThread, d1, r2, history
  <2>4. /\ thread' \in {"absent", "placeholder", "live"}
        /\ rawObjects' \subseteq Passes
        /\ failures' \in 0..MaxFailures
    <3>1. thread' \in {"absent", "placeholder", "live"}
      BY <1>2 DEF Placeholder, PutRaw, PutRawThrows, LoseClaim, DiscardRaw, EnsureThread,
                  RefreshThread, d1, Types, TypeOK
    <3>2. rawObjects' \subseteq Passes
      <4>1. \/ rawObjects' = rawObjects
            \/ rawObjects' = rawObjects \union {pass[w]}
            \/ rawObjects' = rawObjects \ {pass[w]}
        BY <1>2 DEF Placeholder, PutRaw, PutRawThrows, LoseClaim, DiscardRaw, EnsureThread,
                    RefreshThread, BestEffort, RawKey, r2
      <4>2. rawObjects \subseteq Passes
        BY DEF Types, TypeOK
      <4>. QED
        BY <2>2, <4>1, <4>2
    <3>3. failures' = failures \/ Injected
      BY <1>2 DEF Placeholder, PutRaw, PutRawThrows, LoseClaim, DiscardRaw, EnsureThread,
                  RefreshThread, BestEffort
    <3>. QED
      BY <3>1, <3>2, <3>3 DEF Injected, Types, TypeOK
  <2>5. Archiving(w)' => Exists'
    BY <2>1, <2>2, <2>3 DEF Archiving, Types, Exists
  <2>6. Step(w)
    BY <1>2 DEF Step
  <2>. QED
    BY <2>1, <2>2, <2>3, <2>4, <2>5, <2>6, LocalTypes DEF Types, TypeOK, Exists
<1>3. ASSUME NEW w \in Workers, Claim(w) \/ ClaimThrows(w)
      PROVE  Types'
  <2>1. PICK to \in {"ensure", "undoRaw"} : Move(w, "claim", to)
    BY <1>3 DEF Claim, ClaimThrows
  <2>2. /\ pc' \in [Workers -> Stages] /\ pc'[w] = to
        /\ pass' \in [Workers -> Passes \union {NoPass}] /\ pass'[w] # NoPass
        /\ chunk' \in [Workers -> Nat \ {0}] /\ chunk'[w] = 1
        /\ pass[w] \in Passes
    BY <2>1, MoveTypes DEF Stages
  <2>3. /\ others' = others /\ deliveries' = deliveries /\ thread' = thread
        /\ attRows' = attRows /\ attObjects' = attObjects /\ rawObjects' = rawObjects
        /\ taken' = taken /\ cutShort' = cutShort /\ misjudged' \in BOOLEAN
    BY <1>3 DEF Claim, ClaimThrows, r2, history, Types, TypeOK
  <2>4. failures' \in 0..MaxFailures
    BY <1>3 DEF Claim, ClaimThrows, Injected, Types, TypeOK
  <2>5. message' = [raw |-> pass[w], archive |-> "pending"] \/ message' = message
    BY <1>3 DEF Claim, ClaimThrows, RawKey
  <2>6. [raw |-> pass[w], archive |-> "pending"] # NoMessage
    BY <2>2
  <2>7. Exists => Exists'
    BY <2>5, <2>6 DEF Exists
  <2>8. Archiving(w)' => Exists'
    <3>1. CASE Claim(w)
      BY <3>1, <2>6 DEF Claim, RawKey, Exists
    <3>2. CASE ClaimThrows(w)
      BY <3>2, <2>2 DEF ClaimThrows, Move, Goto, Archiving, Types, TypeOK
    <3>. QED
      BY <1>3, <3>1, <3>2
  <2>9. message' \in [raw : Passes, archive : {"pending", "archived", "partial"}]
                       \union {NoMessage}
    BY <2>2, <2>5 DEF Types, TypeOK
  <2>10. Step(w)
    BY <1>3 DEF Step
  <2>. QED
    BY <2>1, <2>2, <2>3, <2>4, <2>7, <2>8, <2>9, <2>10, LocalTypes DEF Types, TypeOK
<1>4. ASSUME NEW w \in Workers, DiscardThread(w) \/ Forward(w) \/ Die(w)
      PROVE  Types'
  <2>1. /\ pc' \in [Workers -> Stages] /\ pc'[w] \in {"idle", "forward"}
        /\ pass' \in [Workers -> Passes \union {NoPass}]
        /\ pc'[w] # "idle" => pass'[w] # NoPass
        /\ chunk' \in [Workers -> Nat \ {0}] /\ chunk'[w] = 1
    <3>1. CASE Leave(w)
      BY <3>1, LeaveTypes
    <3>2. CASE Move(w, "loseThread", "forward")
      BY <3>2, MoveTypes DEF Stages
    <3>. QED
      BY <1>4, <3>1, <3>2 DEF DiscardThread, Forward, Die
  <2>2. /\ message' = message /\ others' = others /\ deliveries' = deliveries
        /\ attRows' = attRows /\ attObjects' = attObjects /\ rawObjects' = rawObjects
    BY <1>4 DEF DiscardThread, Forward, Die, d1, r2
  <2>3. /\ thread' \in {"absent", "placeholder", "live"}
        /\ failures' \in 0..MaxFailures
    BY <1>4 DEF DiscardThread, Forward, Die, BestEffort, Injected, d1, Types, TypeOK
  <2>4. taken' \in BOOLEAN /\ cutShort' \in BOOLEAN /\ misjudged' \in BOOLEAN
    BY <1>4 DEF DiscardThread, Forward, Die, history, Types, TypeOK
  <2>5. ~Archiving(w)'
    BY <2>1 DEF Archiving
  <2>6. Step(w) \/ Die(w)
    BY <1>4 DEF Step
  <2>. QED
    BY <2>1, <2>2, <2>3, <2>4, <2>5, <2>6, LocalTypes DEF Types, TypeOK, Exists

<1>5. ASSUME NEW w \in Workers, MarkArchived(w) \/ MarkArchivedThrows(w) \/ MarkPartial(w)
      PROVE  Types'
  <2>1. PICK from \in {"mark", "markPartial"}, to \in {"markPartial", "refresh"} :
          Move(w, from, to)
    BY <1>5 DEF MarkArchived, MarkArchivedThrows, MarkPartial
  <2>2. /\ pc' \in [Workers -> Stages] /\ pc'[w] \in {"markPartial", "refresh"}
        /\ pass' \in [Workers -> Passes \union {NoPass}] /\ pass'[w] # NoPass
        /\ chunk' \in [Workers -> Nat \ {0}] /\ chunk'[w] = 1
    BY <2>1, MoveTypes DEF Stages
  <2>3. message \in [raw : Passes, archive : {"pending", "archived", "partial"}]
    BY <2>1 DEF Move, Archiving, Types, TypeOK, Exists
  <2>4. message' \in [raw : Passes, archive : {"pending", "archived", "partial"}]
    BY <1>5, <2>3 DEF MarkArchived, MarkArchivedThrows, MarkPartial, Verdict
  <2>5. Exists'
    BY <2>4 DEF Exists
  <2>6. /\ UNCHANGED <<thread, others, attRows, rawObjects, attObjects, deliveries,
                       taken, cutShort, misjudged>>
        /\ failures' \in 0..MaxFailures
    BY <1>5 DEF MarkArchived, MarkArchivedThrows, MarkPartial, Injected, r2, history,
                Types, TypeOK
  <2>7. Step(w)
    BY <1>5 DEF Step
  <2>. QED
    BY <2>2, <2>4, <2>5, <2>6, <2>7, LocalTypes DEF Types, TypeOK
<1>6. ASSUME NEW w \in Workers, PutAttachments(w) \/ PutAttachmentsThrows(w)
      PROVE  Types'
  <2>1. /\ pc[w] = "attach" /\ Archiving(w) /\ pass' = pass /\ chunk' = chunk /\ chunk[w] = 1
        /\ pc' \in [Workers -> Stages]
        /\ pc'[w] = "rows" => Chunks # 0
    BY <1>6 DEF PutAttachments, PutAttachmentsThrows, Move, Goto, Archiving, Stages,
                Types, TypeOK
  <2>2. pass[w] \in Passes /\ chunk \in [Workers -> Nat \ {0}]
    BY <2>1 DEF Types, TypeOK
  <2>3. Own(w) \subseteq Passes \X (1..Chunks)
    BY <2>2 DEF Own
  <2>4. attObjects' \subseteq Passes \X (1..Chunks)
    BY <1>6, <2>3 DEF PutAttachments, PutAttachmentsThrows, Types, TypeOK
  <2>5. /\ UNCHANGED <<thread, others, message, attRows, rawObjects, deliveries, history>>
        /\ failures' \in 0..MaxFailures
    BY <1>6 DEF PutAttachments, PutAttachmentsThrows, Injected, d1, history, Types, TypeOK
  <2>6. Exists /\ Exists'
    BY <2>1, <2>5 DEF Types, Exists
  <2>7. Step(w)
    BY <1>6 DEF Step
  <2>8. pc'[w] = "rows" => chunk'[w] <= Chunks
    BY <2>1
  <2>. QED
    BY <2>1, <2>2, <2>4, <2>5, <2>6, <2>7, <2>8, LocalTypes DEF Types, TypeOK, history
<1>7. ASSUME NEW w \in Workers, InsertChunk(w) \/ InsertChunkThrows(w)
      PROVE  Types'
  <2>1. /\ pc[w] = "rows" /\ Archiving(w) /\ pass' = pass
        /\ pass[w] \in Passes /\ chunk[w] \in 1..Chunks
    BY <1>7 DEF InsertChunk, InsertChunkThrows, Archiving, Types, TypeOK
  <2>2. /\ chunk' \in [Workers -> Nat \ {0}]
        /\ pc' \in [Workers -> Stages]
        /\ pc'[w] = "rows" => chunk'[w] <= Chunks
        /\ pc'[w] # "rows" => chunk'[w] = 1
    <3>1. CASE InsertChunk(w)
      BY <2>1, <3>1 DEF InsertChunk, Goto, Stages, Types, TypeOK
    <3>2. CASE InsertChunkThrows(w)
      BY <2>1, <3>2 DEF InsertChunkThrows, Goto, Stages, Types, TypeOK
    <3>. QED
      BY <1>7, <3>1, <3>2
  <2>3. /\ attRows' \subseteq Passes \X (1..Chunks)
        /\ attObjects' \subseteq Passes \X (1..Chunks)
    BY <1>7, <2>1 DEF InsertChunk, InsertChunkThrows, d1, r2, Types, TypeOK
  <2>4. /\ UNCHANGED <<thread, others, message, rawObjects, deliveries, history>>
        /\ failures' \in 0..MaxFailures
    BY <1>7 DEF InsertChunk, InsertChunkThrows, Injected, d1, r2, history, Types, TypeOK
  <2>5. Exists /\ Exists'
    BY <2>1, <2>4 DEF Types, Exists
  <2>6. Step(w)
    BY <1>7 DEF Step
  <2>. QED
    BY <2>1, <2>2, <2>3, <2>4, <2>5, <2>6, LocalTypes DEF Types, TypeOK, history
<1>8. CASE UNCHANGED vars
  BY <1>8 DEF vars, d1, r2, history, Types, TypeOK, Archiving, Exists
<1>. QED
  BY <1>1, <1>2, <1>3, <1>4, <1>5, <1>6, <1>7, <1>8 DEF Next, Step

\* Types holds from the start.
LEMMA TypesHold == Spec => []Types
<1>1. Init => Types
  <2> SUFFICES ASSUME Init PROVE Types
    OBVIOUS
  <2>1. /\ pc \in [Workers -> Stages] /\ \A w \in Workers : pc[w] = "idle"
        /\ pass \in [Workers -> Passes \union {NoPass}]
        /\ chunk \in [Workers -> Nat \ {0}] /\ \A w \in Workers : chunk[w] = 1
    BY DEF Init, Stages
  <2>2. deliveries \in 0..MaxDeliveries /\ failures \in 0..MaxFailures
    BY Numbers DEF Init
  <2>3. TypeOK
    BY <2>1, <2>2 DEF Init, TypeOK
  <2>. QED
    BY <2>1, <2>3 DEF Types, Archiving
<1>. QED
  BY <1>1, TypesStep, PTL DEF Spec

\* Every variable keeps its type: in particular no chunk beyond the last is inserted, and
\* only an existing row is marked (UPDATE of the verdict in handleInbound).
THEOREM TypeCorrect == Spec => []TypeOK
<1>1. Types => TypeOK
  BY DEF Types
<1>. QED
  BY <1>1, TypesHold, PTL

-----------------------------------------------------------------------------
(***************************************************************************)
(* Who archives: every running delivery has a number of its own, and only  *)
(* the one the row names archives.                                         *)
(***************************************************************************)
Owner ==
  /\ message.raw <= deliveries
  /\ \A w \in Workers : pc[w] # "idle" => pass[w] <= deliveries
  /\ \A v, w \in Workers : pc[v] # "idle" /\ pc[w] # "idle" /\ pass[v] = pass[w] => v = w
  /\ \A w \in Workers : Archiving(w) =>
       message.raw = pass[w] /\ (pc[w] # "markPartial" => message.archive = "pending")

\* The row changes only by a claim, which finds none, and by the verdict of the winner.
LEMMA RowChanges ==
  ASSUME Types, NEW w \in Workers, Receive(w) \/ Step(w) \/ Die(w)
  PROVE  \/ message' = message /\ misjudged' = misjudged
         \/ /\ ~Exists /\ pc[w] = "claim" /\ pass' = pass
            /\ message' = [raw |-> pass[w], archive |-> "pending"]
            /\ \/ pc'[w] = "ensure" /\ misjudged' = misjudged
               \/ pc'[w] = "undoRaw" /\ misjudged' = TRUE /\ Injected
         \/ /\ Archiving(w) /\ pc'[w] \in {"markPartial", "refresh"}
            /\ message'.raw = message.raw /\ misjudged' = misjudged
<1>1. CASE MarkArchived(w) \/ MarkArchivedThrows(w) \/ MarkPartial(w)
  <2>1. PICK from \in {"mark", "markPartial"}, to \in {"markPartial", "refresh"} :
          Move(w, from, to)
    BY <1>1 DEF MarkArchived, MarkArchivedThrows, MarkPartial
  <2>2. Archiving(w) /\ pc'[w] \in {"markPartial", "refresh"}
    BY <2>1 DEF Move, Goto, Archiving, Types, TypeOK
  <2>3. message \in [raw : Passes, archive : {"pending", "archived", "partial"}]
    BY <2>2 DEF Types, TypeOK, Exists
  <2>4. message'.raw = message.raw
    BY <1>1, <2>3 DEF MarkArchived, MarkArchivedThrows, MarkPartial, Verdict
  <2>5. misjudged' = misjudged
    BY <1>1 DEF MarkArchived, MarkArchivedThrows, MarkPartial, history
  <2>. QED
    BY <2>2, <2>4, <2>5
<1>2. CASE Claim(w)
  BY <1>2 DEF Claim, Move, Goto, RawKey, history, Types, TypeOK
<1>3. CASE ClaimThrows(w)
  <2>1. pc[w] = "claim" /\ pc'[w] = "undoRaw" /\ pass' = pass
    BY <1>3 DEF ClaimThrows, Move, Goto, Types, TypeOK
  <2>2. \/ message' = message /\ misjudged' = misjudged
        \/ /\ ~Exists /\ misjudged' = TRUE /\ Injected
           /\ message' = [raw |-> pass[w], archive |-> "pending"]
    <3>1. PICK applied \in BOOLEAN :
            /\ IF thread = "absent" THEN UNCHANGED failures ELSE Injected
            /\ applied => thread # "absent" /\ ~Exists
            /\ message' = IF applied THEN [raw |-> pass[w], archive |-> "pending"] ELSE message
            /\ misjudged' = (misjudged \/ applied)
      BY <1>3 DEF ClaimThrows, RawKey
    <3>2. CASE applied = TRUE
      BY <3>1, <3>2
    <3>3. CASE applied = FALSE
      BY <3>1, <3>3 DEF Types, TypeOK
    <3>. QED
      BY <3>2, <3>3
  <2>. QED
    BY <2>1, <2>2
<1>4. CASE ~(\/ MarkArchived(w) \/ MarkArchivedThrows(w) \/ MarkPartial(w)
             \/ Claim(w) \/ ClaimThrows(w))
  BY <1>4 DEF Receive, Step, Die, Placeholder, PutRaw, PutRawThrows, LoseClaim, DiscardRaw,
              DiscardThread, EnsureThread, PutAttachments, PutAttachmentsThrows, InsertChunk,
              InsertChunkThrows, RefreshThread, Forward, d1, history
<1>. QED
  BY <1>1, <1>2, <1>3, <1>4

\* An invocation keeps its delivery; it archives if it did, or has claimed the row.
LEMMA LocalChanges ==
  ASSUME Types, NEW w \in Workers, Step(w) \/ Die(w)
  PROVE  /\ pc[w] # "idle" /\ deliveries' = deliveries
         /\ pc'[w] # "idle" => pass'[w] = pass[w]
         /\ Archiving(w)' => Archiving(w) \/ Claim(w)
         /\ Archiving(w)' => pc[w] # "markPartial"
<1>1. CASE \/ Placeholder(w) \/ PutRaw(w) \/ PutRawThrows(w) \/ LoseClaim(w) \/ ClaimThrows(w)
           \/ DiscardRaw(w) \/ DiscardThread(w) \/ RefreshThread(w) \/ Forward(w) \/ Die(w)
           \/ MarkArchived(w) \/ MarkPartial(w)
  <2>1. /\ pc[w] # "idle" /\ deliveries' = deliveries
        /\ pc'[w] # "idle" => pass'[w] = pass[w]
    BY <1>1 DEF Placeholder, PutRaw, PutRawThrows, LoseClaim, ClaimThrows, DiscardRaw,
                DiscardThread, RefreshThread, Forward, Die, MarkArchived, MarkPartial, Move,
                Leave, Goto, Types, TypeOK
  <2>2. ~Archiving(w)'
    BY <1>1 DEF Placeholder, PutRaw, PutRawThrows, LoseClaim, ClaimThrows, DiscardRaw,
                DiscardThread, RefreshThread, Forward, Die, MarkArchived, MarkPartial, Move,
                Leave, Goto, Archiving, Types, TypeOK
  <2>. QED
    BY <2>1, <2>2
<1>2. CASE \/ Claim(w) \/ EnsureThread(w) \/ PutAttachments(w) \/ PutAttachmentsThrows(w)
           \/ InsertChunk(w) \/ InsertChunkThrows(w) \/ MarkArchivedThrows(w)
  <2>1. /\ pc[w] # "idle" /\ deliveries' = deliveries /\ pass' = pass
        /\ Archiving(w) \/ Claim(w)
        /\ pc[w] # "markPartial"
    BY <1>2 DEF Claim, EnsureThread, PutAttachments, PutAttachmentsThrows, InsertChunk,
                InsertChunkThrows, MarkArchivedThrows, Move, Goto, Archiving, Types, TypeOK
  <2>. QED
    BY <2>1
<1>. QED
  BY <1>1, <1>2 DEF Step

\* Every step keeps Owner.
LEMMA OwnerStep == Types /\ Owner /\ [Next]_vars => Owner'
<1> SUFFICES ASSUME Types, Owner, [Next]_vars
             PROVE  Owner'
  OBVIOUS
<1>. USE Numbers, Records
<1>1. ASSUME NEW w \in Workers, Receive(w)
      PROVE  Owner'
  <2>1. /\ pc'[w] = "thread" /\ pass'[w] = deliveries + 1 /\ deliveries' = deliveries + 1
        /\ message' = message
    BY <1>1 DEF Receive, Goto, d1, Types, TypeOK
  <2>2. \A v \in Workers \ {w} : pc'[v] = pc[v] /\ pass'[v] = pass[v]
    BY <1>1, OthersStay DEF Types
  <2>3. /\ deliveries \in Nat /\ \A v \in Workers : pass[v] \in Nat
        /\ message.raw \in Nat
    BY DEF Types, TypeOK, Passes
  <2>4. /\ message'.raw <= deliveries'
        /\ \A v \in Workers : pc'[v] # "idle" => pass'[v] <= deliveries'
    BY <2>1, <2>2, <2>3 DEF Owner
  <2>5. \A v \in Workers \ {w} : pc'[v] # "idle" => pass'[v] # pass'[w]
    BY <2>1, <2>2, <2>3 DEF Owner
  <2>6. \A u, v \in Workers : pc'[u] # "idle" /\ pc'[v] # "idle" /\ pass'[u] = pass'[v] => u = v
    <3>1. \A u, v \in Workers \ {w} :
            pc'[u] # "idle" /\ pc'[v] # "idle" /\ pass'[u] = pass'[v] => u = v
      BY <2>2 DEF Owner
    <3>. QED
      BY <2>5, <3>1
  <2>7. \A v \in Workers : Archiving(v)' =>
          message'.raw = pass'[v] /\ (pc'[v] # "markPartial" => message'.archive = "pending")
    BY <2>1, <2>2 DEF Owner, Archiving
  <2>. QED
    BY <2>4, <2>6, <2>7 DEF Owner
<1>2. ASSUME NEW w \in Workers, Step(w) \/ Die(w)
      PROVE  Owner'
  <2>1. /\ pc[w] # "idle" /\ deliveries' = deliveries
        /\ pc'[w] # "idle" => pass'[w] = pass[w]
        /\ Archiving(w)' => Archiving(w) \/ Claim(w)
        /\ Archiving(w)' => pc[w] # "markPartial"
    BY <1>2, LocalChanges
  <2>2. \A v \in Workers \ {w} : pc'[v] = pc[v] /\ pass'[v] = pass[v]
    BY <1>2, OthersStay DEF Types
  <2>3. \A v \in Workers : pc'[v] # "idle" => pc[v] # "idle" /\ pass'[v] = pass[v]
    BY <2>1, <2>2
  <2>4. \A v \in Workers \ {w} : Archiving(v)' => Archiving(v) /\ pass'[v] = pass[v]
    BY <2>2 DEF Archiving
  <2>5. Archiving(w)' => pass'[w] = pass[w]
    BY <2>1 DEF Archiving
  <2>6. CASE message' = message
    <3>1. ~Claim(w)
      <4>1. Claim(w) => ~Exists /\ message' = [raw |-> pass[w], archive |-> "pending"]
        BY DEF Claim, RawKey
      <4>2. [raw |-> pass[w], archive |-> "pending"] # NoMessage
        OBVIOUS
      <4>. QED
        BY <2>6, <4>1, <4>2 DEF Exists
    <3>2. \A v \in Workers : Archiving(v)' =>
            Archiving(v) /\ pass'[v] = pass[v] /\ (pc[v] = "markPartial" => pc'[v] = "markPartial")
      BY <2>1, <2>2, <2>4, <2>5, <3>1
    <3>3. \A v \in Workers : Archiving(v)' =>
            message'.raw = pass'[v] /\ (pc'[v] # "markPartial" => message'.archive = "pending")
      BY <2>6, <3>2 DEF Owner
    <3>4. message'.raw <= deliveries'
      BY <2>1, <2>6 DEF Owner
    <3>. QED
      BY <2>1, <2>3, <3>3, <3>4 DEF Owner
  <2>7. CASE /\ ~Exists /\ pc[w] = "claim" /\ pass' = pass
             /\ message' = [raw |-> pass[w], archive |-> "pending"]
    <3>1. \A v \in Workers : ~Archiving(v)
      BY <2>7 DEF Types
    <3>2. \A v \in Workers : Archiving(v)' => v = w
      BY <2>4, <3>1
    <3>3. message'.raw <= deliveries'
      BY <2>1, <2>7 DEF Owner
    <3>. QED
      BY <2>1, <2>3, <2>7, <3>2, <3>3 DEF Owner
  <2>8. CASE /\ Archiving(w) /\ pc'[w] \in {"markPartial", "refresh"}
             /\ message'.raw = message.raw
    <3>1. message.raw = pass[w]
      BY <2>8 DEF Owner
    <3>2. \A v \in Workers \ {w} : pass[v] = pass[w] => pc[v] = "idle"
      BY <2>1 DEF Owner
    <3>3. \A v \in Workers \ {w} : ~Archiving(v)
      BY <3>1, <3>2 DEF Owner, Archiving
    <3>4. \A v \in Workers : Archiving(v)' => v = w /\ pc'[v] = "markPartial"
      BY <2>4, <2>8, <3>3 DEF Archiving
    <3>5. message'.raw <= deliveries'
      BY <2>1, <2>8 DEF Owner
    <3>. QED
      BY <2>1, <2>3, <2>5, <2>8, <3>1, <3>4, <3>5 DEF Owner
  <2>. QED
    BY <1>2, <2>6, <2>7, <2>8, RowChanges
<1>3. CASE UNCHANGED vars
  BY <1>3 DEF vars, d1, Owner, Archiving
<1>. QED
  BY <1>1, <1>2, <1>3 DEF Next

\* Owner holds.
LEMMA OwnerHolds == Spec => []Owner
<1>1. Init => Owner
  <2> SUFFICES ASSUME Init PROVE Owner
    OBVIOUS
  <2>1. \A w \in Workers : pc[w] = "idle"
    BY DEF Init
  <2>2. message.raw = 0 /\ deliveries = 0
    BY Numbers, Records DEF Init
  <2>. QED
    BY <2>1, <2>2 DEF Owner, Archiving
<1>. QED
  BY <1>1, OwnerStep, TypesHold, PTL DEF Spec

-----------------------------------------------------------------------------
(***************************************************************************)
(* The raw messages: whoever still contends for the claim is not the one   *)
(* the row names, unless a claim was applied that threw; then nobody       *)
(* archives the message, now or later.                                     *)
(***************************************************************************)
Contending == {"thread", "put", "claim", "undoRaw", "undoThread", "loseRaw", "loseThread"}

Custody ==
  /\ misjudged => /\ failures # 0 /\ message.archive = "pending"
                  /\ \A w \in Workers : ~Archiving(w)
  /\ ~misjudged => \A w \in Workers : pc[w] \in Contending => pass[w] # message.raw
  /\ \A w \in Workers : pc[w] = "claim" => pass[w] \in rawObjects
  /\ ~misjudged /\ Exists => message.raw \in rawObjects

\* Failures are only counted up.
LEMMA FailuresCount ==
  ASSUME NEW w \in Workers, Receive(w) \/ Step(w) \/ Die(w)
  PROVE  failures' = failures \/ failures' = failures + 1
  BY DEF Receive, Step, Die, Placeholder, PutRaw, PutRawThrows, Claim, LoseClaim, ClaimThrows,
         DiscardRaw, DiscardThread, EnsureThread, PutAttachments, PutAttachmentsThrows,
         InsertChunk, InsertChunkThrows, MarkArchived, MarkArchivedThrows, MarkPartial,
         RefreshThread, Forward, BestEffort, Injected

\* While nothing has failed, nothing had failed before.
LEMMA CleanBefore == Types /\ [Next]_vars /\ failures' = 0 => failures = 0
<1> SUFFICES ASSUME Types, [Next]_vars, failures' = 0
             PROVE  failures = 0
  OBVIOUS
<1>1. failures \in Nat
  BY Numbers DEF Types, TypeOK
<1>2. failures' = failures \/ failures' = failures + 1
  <2>1. CASE UNCHANGED vars
    BY <2>1 DEF vars
  <2>2. CASE \E w \in Workers : Receive(w) \/ Step(w) \/ Die(w)
    BY <2>2, FailuresCount
  <2>. QED
    BY <2>1, <2>2 DEF Next
<1>. QED
  BY <1>1, <1>2

\* An invocation deletes its own raw message at most, while it contends for the claim.
LEMMA RawChanges ==
  ASSUME Types, NEW w \in Workers, Step(w) \/ Die(w)
  PROVE  /\ pc'[w] \in Contending => pc[w] \in Contending
         /\ pc'[w] = "claim" => pass[w] \in rawObjects'
         /\ \/ rawObjects \subseteq rawObjects'
            \/ pc[w] \in Contending /\ rawObjects \ {pass[w]} \subseteq rawObjects'
<1>1. CASE \/ Placeholder(w) \/ PutRaw(w) \/ PutRawThrows(w) \/ LoseClaim(w) \/ ClaimThrows(w)
           \/ DiscardRaw(w) \/ DiscardThread(w) \/ RefreshThread(w) \/ Forward(w) \/ Die(w)
  <2>1. pc'[w] \in Contending => pc[w] \in Contending
    BY <1>1 DEF Placeholder, PutRaw, PutRawThrows, LoseClaim, ClaimThrows, DiscardRaw,
                DiscardThread, RefreshThread, Forward, Die, Move, Leave, Goto, Contending,
                Types, TypeOK
  <2>2. \/ rawObjects \subseteq rawObjects'
        \/ pc[w] \in Contending /\ rawObjects \ {pass[w]} \subseteq rawObjects'
    BY <1>1 DEF Placeholder, PutRaw, PutRawThrows, LoseClaim, ClaimThrows, DiscardRaw,
                DiscardThread, RefreshThread, Forward, Die, Move, BestEffort, RawKey, r2,
                Contending
  <2>3. pc'[w] = "claim" => pass[w] \in rawObjects'
    BY <1>1 DEF Placeholder, PutRaw, PutRawThrows, LoseClaim, ClaimThrows, DiscardRaw,
                DiscardThread, RefreshThread, Forward, Die, Move, Leave, Goto, RawKey,
                Types, TypeOK
  <2>. QED
    BY <2>1, <2>2, <2>3
<1>2. CASE \/ Claim(w) \/ EnsureThread(w) \/ PutAttachments(w) \/ PutAttachmentsThrows(w)
           \/ InsertChunk(w) \/ InsertChunkThrows(w) \/ MarkArchived(w)
           \/ MarkArchivedThrows(w) \/ MarkPartial(w)
  <2>1. pc'[w] \in {"ensure", "attach", "rows", "mark", "markPartial", "refresh"}
    BY <1>2 DEF Claim, EnsureThread, PutAttachments, PutAttachmentsThrows, InsertChunk,
                InsertChunkThrows, MarkArchived, MarkArchivedThrows, MarkPartial, Move, Goto,
                Types, TypeOK
  <2>2. rawObjects' = rawObjects
    BY <1>2 DEF Claim, EnsureThread, PutAttachments, PutAttachmentsThrows, InsertChunk,
                InsertChunkThrows, MarkArchived, MarkArchivedThrows, MarkPartial, r2
  <2>. QED
    BY <2>1, <2>2 DEF Contending
<1>. QED
  BY <1>1, <1>2 DEF Step

\* The raw message of whoever claims is there: only its own invocation deletes it.
LEMMA ClaimantsKept ==
  ASSUME Types, Owner, Custody, NEW w \in Workers, Step(w) \/ Die(w),
         NEW v \in Workers, pc'[v] = "claim"
  PROVE  pass'[v] \in rawObjects'
<1>1. CASE v = w
  BY <1>1, RawChanges, LocalChanges
<1>2. CASE v # w
  <2>1. pc[v] = "claim" /\ pass'[v] = pass[v]
    BY <1>2, OthersStay DEF Types
  <2>2. pass[v] # pass[w]
    BY <1>2, <2>1, LocalChanges DEF Owner
  <2>3. pass[v] \in rawObjects
    BY <2>1 DEF Custody
  <2>. QED
    BY <2>1, <2>2, <2>3, RawChanges
<1>. QED
  BY <1>1, <1>2

\* Once a claim was applied that threw, the row stays as it is and nobody archives.
LEMMA MisjudgedStays ==
  ASSUME Types, Custody, misjudged, NEW w \in Workers, Receive(w) \/ Step(w) \/ Die(w)
  PROVE  /\ failures' # 0 /\ misjudged' /\ message' = message
         /\ \A v \in Workers : ~Archiving(v)'
<1>. USE Records
<1>1. failures \in Nat
  BY Numbers DEF Types, TypeOK
<1>2. failures' # 0
  BY <1>1, FailuresCount DEF Custody
<1>3. Exists
  BY DEF Custody, Exists
<1>4. message' = message /\ misjudged'
  BY <1>3, RowChanges DEF Custody
<1>5. ~Archiving(w)'
  <2>1. CASE Receive(w)
    BY <2>1 DEF Receive, Goto, Archiving, Types, TypeOK
  <2>2. CASE Step(w) \/ Die(w)
    BY <1>3, <2>2, LocalChanges DEF Custody, Claim
  <2>. QED
    BY <2>1, <2>2
<1>6. \A v \in Workers \ {w} : ~Archiving(v)'
  BY OthersStay DEF Types, Custody, Archiving
<1>. QED
  BY <1>2, <1>4, <1>5, <1>6

\* Every step keeps Custody.
LEMMA CustodyStep == Types /\ Owner /\ Custody /\ [Next]_vars => Custody'
<1> SUFFICES ASSUME Types, Owner, Custody, [Next]_vars
             PROVE  Custody'
  OBVIOUS
<1>. USE Numbers, Records
<1>1. ASSUME NEW w \in Workers, Receive(w)
      PROVE  Custody'
  <2>1. /\ pc'[w] = "thread" /\ pass'[w] = deliveries + 1
        /\ message' = message /\ rawObjects' = rawObjects /\ misjudged' = misjudged
    BY <1>1 DEF Receive, Goto, d1, r2, history, Types, TypeOK
  <2>2. \A v \in Workers \ {w} : pc'[v] = pc[v] /\ pass'[v] = pass[v]
    BY <1>1, OthersStay DEF Types
  <2>3. deliveries \in Nat /\ message.raw \in Nat
    BY DEF Types, TypeOK, Passes
  <2>4. pass'[w] # message'.raw
    BY <2>1, <2>3 DEF Owner
  <2>5. ~misjudged' => \A v \in Workers : pc'[v] \in Contending => pass'[v] # message'.raw
    BY <2>1, <2>2, <2>4 DEF Custody
  <2>6. \A v \in Workers : pc'[v] = "claim" => pass'[v] \in rawObjects'
    BY <2>1, <2>2 DEF Custody
  <2>7. misjudged' => /\ failures' # 0 /\ message'.archive = "pending"
                      /\ \A v \in Workers : ~Archiving(v)'
    BY <1>1, <2>1, MisjudgedStays DEF Custody
  <2>8. ~misjudged' /\ Exists' => message'.raw \in rawObjects'
    BY <2>1 DEF Custody, Exists
  <2>. QED
    BY <2>5, <2>6, <2>7, <2>8 DEF Custody
<1>2. ASSUME NEW w \in Workers, Step(w) \/ Die(w)
      PROVE  Custody'
  <2>1. /\ \A v \in Workers \ {w} : pc'[v] = pc[v] /\ pass'[v] = pass[v]
        /\ pc[w] # "idle" /\ (pc'[w] # "idle" => pass'[w] = pass[w])
        /\ pc'[w] \in Contending => pc[w] \in Contending
    BY <1>2, OthersStay, LocalChanges, RawChanges DEF Types
  <2>2. \A v \in Workers : pc'[v] = "claim" => pass'[v] \in rawObjects'
    BY <1>2, ClaimantsKept
  <2>3. \A v \in Workers : pc'[v] \in Contending => pc[v] \in Contending /\ pass'[v] = pass[v]
    BY <2>1 DEF Contending
  <2>4. CASE misjudged
    <3>1. /\ failures' # 0 /\ misjudged' /\ message' = message
          /\ \A v \in Workers : ~Archiving(v)'
      BY <1>2, <2>4, MisjudgedStays
    <3>. QED
      BY <2>2, <2>4, <3>1 DEF Custody
  <2>5. CASE ~misjudged /\ message'.raw = message.raw /\ ~misjudged' /\ (Exists' => Exists)
    <3>1. Exists' => message'.raw \in rawObjects'
      BY <1>2, <2>5, RawChanges DEF Custody
    <3>. QED
      BY <2>2, <2>3, <2>5, <3>1 DEF Custody
  <2>6. CASE /\ ~Exists /\ pc[w] = "claim" /\ pass' = pass
             /\ message' = [raw |-> pass[w], archive |-> "pending"]
             /\ pc'[w] = "ensure" /\ ~misjudged'
    <3>1. \A v \in Workers \ {w} : pc[v] # "idle" => pass[v] # pass[w]
      BY <2>1 DEF Owner
    <3>2. \A v \in Workers : pc'[v] \in Contending => pass'[v] # message'.raw
      BY <2>1, <2>6, <3>1 DEF Contending
    <3>3. message'.raw \in rawObjects'
      <4>1. Claim(w)
        BY <1>2, <2>6, LocalChanges DEF Archiving
      <4>. QED
        BY <2>6, <4>1 DEF Claim, r2, Custody
    <3>. QED
      BY <2>2, <2>6, <3>2, <3>3 DEF Custody
  <2>7. CASE /\ ~Exists /\ pc'[w] = "undoRaw" /\ misjudged' = TRUE /\ Injected
             /\ message' = [raw |-> pass[w], archive |-> "pending"]
    <3>1. \A v \in Workers : ~Archiving(v)
      BY <2>7 DEF Types
    <3>2. \A v \in Workers : ~Archiving(v)'
      BY <2>1, <2>7, <3>1 DEF Archiving
    <3>3. failures' # 0
      BY <2>7 DEF Injected, Types, TypeOK
    <3>. QED
      BY <2>2, <2>7, <3>2, <3>3 DEF Custody
  <2>8. Archiving(w) => Exists
    BY DEF Types
  <2>. QED
    BY <1>2, <2>4, <2>5, <2>6, <2>7, <2>8, RowChanges DEF Exists
<1>3. CASE UNCHANGED vars
  BY <1>3 DEF vars, d1, r2, history, Custody, Exists, Archiving
<1>. QED
  BY <1>1, <1>2, <1>3 DEF Next

\* Custody holds.
LEMMA CustodyHolds == Spec => []Custody
<1>1. Init => Custody
  <2> SUFFICES ASSUME Init PROVE Custody
    OBVIOUS
  <2>1. /\ \A w \in Workers : pc[w] = "idle"
        /\ ~misjudged
    BY DEF Init
  <2>2. ~Exists
    BY DEF Init, Exists
  <2>. QED
    BY <2>1, <2>2 DEF Custody, Contending
<1>. QED
  BY <1>1, CustodyStep, OwnerHolds, TypesHold, PTL DEF Spec

\* The raw message the row names is in R2, however many deliveries race: those that lose
\* or fail delete the object of their own delivery (the clean-up in handleInbound).  It is
\* missing only after a claim that threw although it was applied, and such a message is
\* never marked archived or partial.
THEOREM RawKept == Spec => []RawIsThere
<1>1. Custody => RawIsThere
  BY DEF Custody, RawIsThere
<1>. QED
  BY <1>1, CustodyHolds, PTL

-----------------------------------------------------------------------------
(***************************************************************************)
(* The attachments of the winner: all objects are there before the first   *)
(* chunk, all rows before the verdict.                                     *)
(***************************************************************************)
Stored(w) ==
  /\ pc[w] \in {"rows", "mark"} => Own(w) \subseteq attObjects
  /\ pc[w] = "rows" => \A c \in 1..Chunks : c < chunk[w] => <<pass[w], c>> \in attRows
  /\ pc[w] = "mark" => Own(w) \subseteq attRows

Rows == ArchivedIsComplete /\ \A w \in Workers : Stored(w)

\* Own attachments are told apart by the delivery.
LEMMA OwnApart ==
  ASSUME NEW v \in Workers, NEW w \in Workers, pass[v] # pass[w]
  PROVE  Own(v) \intersect Own(w) = {}
  BY DEF Own

\* A step of one invocation keeps what the others have stored.
LEMMA OthersStored ==
  ASSUME Types, Owner, Rows, NEW w \in Workers, Receive(w) \/ Step(w) \/ Die(w),
         attRows \subseteq attRows',
         \/ attObjects \subseteq attObjects'
         \/ Archiving(w) /\ attObjects \ Own(w) \subseteq attObjects'
  PROVE  \A v \in Workers \ {w} : Stored(v)'
<1> SUFFICES ASSUME NEW v \in Workers \ {w}
             PROVE  Stored(v)'
  OBVIOUS
<1>1. pc'[v] = pc[v] /\ pass'[v] = pass[v] /\ chunk'[v] = chunk[v]
  BY OthersStay DEF Types
<1>2. Own(v)' = Own(v)
  BY <1>1 DEF Own
<1>3. Stored(v)
  BY DEF Rows
<1>4. CASE attObjects \subseteq attObjects'
  BY <1>1, <1>2, <1>3, <1>4 DEF Stored
<1>5. CASE Archiving(w) /\ attObjects \ Own(w) \subseteq attObjects'
  <2>1. CASE pc[v] \in {"rows", "mark"}
    <3>1. pc[v] # "idle" /\ pc[w] # "idle"
      BY <1>5, <2>1 DEF Archiving
    <3>2. pass[v] # pass[w]
      BY <3>1 DEF Owner
    <3>3. Own(v) \subseteq attObjects'
      BY <1>3, <1>5, <2>1, <3>2, OwnApart DEF Stored
    <3>. QED
      BY <1>1, <1>2, <1>3, <3>3 DEF Stored
  <2>2. CASE pc[v] \notin {"rows", "mark"}
    BY <1>1, <2>2 DEF Stored
  <2>. QED
    BY <2>1, <2>2
<1>. QED
  BY <1>4, <1>5

\* Every step keeps Rows.
LEMMA RowsStep == Types /\ Owner /\ Rows /\ [Next]_vars => Rows'
<1> SUFFICES ASSUME Types, Owner, Rows, [Next]_vars
             PROVE  Rows'
  OBVIOUS
<1>. USE Records
<1>1. Owner /\ Rows
  OBVIOUS
<1>2. ASSUME NEW w \in Workers, Receive(w) \/ Step(w) \/ Die(w),
             attRows \subseteq attRows',
             attObjects \subseteq attObjects',
             Stored(w)',
             message'.archive = "archived" => message' = message
      PROVE  Rows'
  <2>1. \A v \in Workers : Stored(v)'
    BY <1>1, <1>2, OthersStored
  <2>2. ArchivedIsComplete'
    BY <1>1, <1>2 DEF Rows, ArchivedIsComplete
  <2>. QED
    BY <2>1, <2>2 DEF Rows
<1>3. ASSUME NEW w \in Workers,
             \/ Receive(w) \/ Placeholder(w) \/ PutRaw(w) \/ PutRawThrows(w) \/ Claim(w)
             \/ LoseClaim(w) \/ ClaimThrows(w) \/ DiscardRaw(w) \/ DiscardThread(w)
             \/ EnsureThread(w) \/ MarkPartial(w) \/ RefreshThread(w) \/ Forward(w) \/ Die(w)
      PROVE  Rows'
  <2>1. attRows' = attRows /\ attObjects' = attObjects
    BY <1>3 DEF Receive, Placeholder, PutRaw, PutRawThrows, Claim, LoseClaim, ClaimThrows,
                DiscardRaw, DiscardThread, EnsureThread, MarkPartial, RefreshThread,
                Forward, Die, d1, r2
  <2>2. pc'[w] \notin {"rows", "mark"}
    BY <1>3 DEF Receive, Placeholder, PutRaw, PutRawThrows, Claim, LoseClaim, ClaimThrows,
                DiscardRaw, DiscardThread, EnsureThread, MarkPartial, RefreshThread,
                Forward, Die, Move, Leave, Goto, Types, TypeOK
  <2>3. Stored(w)'
    BY <2>2 DEF Stored
  <2>4. message'.archive = "archived" => message' = message
    <3>1. CASE Claim(w) \/ ClaimThrows(w)
      BY <3>1 DEF Claim, ClaimThrows
    <3>2. CASE MarkPartial(w)
      <4>1. message \in [raw : Passes, archive : {"pending", "archived", "partial"}]
        BY <3>2 DEF MarkPartial, Move, Archiving, Types, TypeOK, Exists
      <4>. QED
        BY <3>2, <4>1 DEF MarkPartial
    <3>3. CASE ~(Claim(w) \/ ClaimThrows(w) \/ MarkPartial(w))
      BY <1>3, <3>3 DEF Receive, Placeholder, PutRaw, PutRawThrows, LoseClaim, DiscardRaw,
                        DiscardThread, EnsureThread, RefreshThread,
                        Forward, Die, d1
    <3>. QED
      BY <3>1, <3>2, <3>3
  <2>5. Receive(w) \/ Step(w) \/ Die(w)
    BY <1>3 DEF Step
  <2>. QED
    BY <1>2, <2>1, <2>3, <2>4, <2>5
<1>4. ASSUME NEW w \in Workers, PutAttachments(w) \/ PutAttachmentsThrows(w)
      PROVE  Rows'
  <2>1. /\ pass' = pass /\ chunk' = chunk /\ pc[w] = "attach" /\ chunk[w] = 1
        /\ message' = message /\ attRows' = attRows /\ attObjects \subseteq attObjects'
    BY <1>4 DEF PutAttachments, PutAttachmentsThrows, Move, d1, Types
  <2>2. Own(w)' = Own(w)
    BY <2>1 DEF Own
  <2>3. Stored(w)'
    <3>1. CASE PutAttachments(w)
      <4>1. /\ pc'[w] = IF Chunks = 0 THEN "mark" ELSE "rows"
            /\ Own(w) \subseteq attObjects'
        BY <3>1 DEF PutAttachments, Move, Goto, Types, TypeOK
      <4>2. pc'[w] = "mark" => Own(w) = {}
        BY <4>1 DEF Own
      <4>3. \A c \in 1..Chunks : ~(c < chunk'[w])
        BY <2>1
      <4>. QED
        BY <2>2, <4>1, <4>2, <4>3 DEF Stored
    <3>2. CASE PutAttachmentsThrows(w)
      BY <3>2 DEF PutAttachmentsThrows, Move, Goto, Types, TypeOK, Stored
    <3>. QED
      BY <1>4, <3>1, <3>2
  <2>4. Step(w)
    BY <1>4 DEF Step
  <2>. QED
    BY <1>2, <2>1, <2>3, <2>4
<1>5. ASSUME NEW w \in Workers, InsertChunk(w)
      PROVE  Rows'
  <2>1. /\ pc[w] = "rows" /\ pass' = pass /\ message' = message /\ attObjects' = attObjects
        /\ attRows' = attRows \union {<<pass[w], chunk[w]>>}
        /\ chunk[w] \in 1..Chunks
        /\ chunk'[w] = IF chunk[w] < Chunks THEN chunk[w] + 1 ELSE 1
        /\ pc'[w] = IF chunk[w] < Chunks THEN "rows" ELSE "mark"
    BY <1>5 DEF InsertChunk, Goto, r2, Types, TypeOK
  <2>2. Own(w)' = Own(w) /\ Own(w) \subseteq attObjects
    BY <1>1, <2>1 DEF Own, Rows, Stored
  <2>3. \A c \in 1..Chunks : c <= chunk[w] => <<pass[w], c>> \in attRows'
    BY <1>1, <2>1 DEF Rows, Stored
  <2>4. pc'[w] = "rows" => \A c \in 1..Chunks : c < chunk'[w] => <<pass'[w], c>> \in attRows'
    BY <2>1, <2>3
  <2>5. pc'[w] = "mark" => Own(w) \subseteq attRows'
    <3>1. pc'[w] = "mark" => chunk[w] = Chunks
      BY <2>1, Numbers
    <3>2. pc'[w] = "mark" => \A c \in 1..Chunks : <<pass[w], c>> \in attRows'
      BY <2>3, <3>1, Numbers
    <3>. QED
      BY <3>2 DEF Own
  <2>6. Stored(w)'
    BY <2>1, <2>2, <2>4, <2>5 DEF Stored
  <2>7. Step(w)
    BY <1>5 DEF Step
  <2>. QED
    BY <1>2, <2>1, <2>6, <2>7
<1>6. ASSUME NEW w \in Workers, InsertChunkThrows(w)
      PROVE  Rows'
  <2>1. /\ Archiving(w) /\ pc'[w] = "markPartial"
        /\ message' = message /\ attRows \subseteq attRows'
        /\ attObjects \ Own(w) \subseteq attObjects'
        /\ pc[w] # "markPartial"
    BY <1>6 DEF InsertChunkThrows, Goto, Archiving, Types, TypeOK
  <2>2. Stored(w)'
    BY <2>1 DEF Stored
  <2>3. \A v \in Workers : Stored(v)'
    BY <1>1, <1>6, <2>1, <2>2, OthersStored DEF Step
  <2>4. message'.archive # "archived"
    BY <1>1, <2>1 DEF Owner
  <2>. QED
    BY <2>3, <2>4 DEF Rows, ArchivedIsComplete
<1>7. ASSUME NEW w \in Workers, MarkArchived(w) \/ MarkArchivedThrows(w)
      PROVE  Rows'
  <2>1. /\ pc[w] = "mark" /\ Archiving(w) /\ pc'[w] \in {"markPartial", "refresh"}
        /\ attRows' = attRows /\ attObjects' = attObjects
    BY <1>7 DEF MarkArchived, MarkArchivedThrows, Move, Goto, Archiving, r2, Types, TypeOK
  <2>2. /\ message \in [raw : Passes, archive : {"pending", "archived", "partial"}]
        /\ message.raw = pass[w]
    BY <1>1, <2>1 DEF Owner, Types, TypeOK, Exists
  <2>3. message'.raw = pass[w]
    BY <1>7, <2>2 DEF MarkArchived, MarkArchivedThrows, Verdict
  <2>4. Own(w) \subseteq attRows' \intersect attObjects'
    BY <1>1, <2>1 DEF Rows, Stored
  <2>5. ArchivedIsComplete'
    BY <2>3, <2>4 DEF Own, ArchivedIsComplete
  <2>6. Stored(w)'
    BY <2>1 DEF Stored
  <2>7. \A v \in Workers : Stored(v)'
    BY <1>1, <1>7, <2>1, <2>6, OthersStored DEF Step
  <2>. QED
    BY <2>5, <2>7 DEF Rows
<1>8. CASE UNCHANGED vars
  BY <1>1, <1>8 DEF vars, d1, r2, Rows, Stored, Own, ArchivedIsComplete
<1>. QED
  BY <1>3, <1>4, <1>5, <1>6, <1>7, <1>8 DEF Next, Step

\* Rows holds.
LEMMA RowsHold == Spec => []Rows
<1>1. Init => Rows
  BY Records DEF Init, Rows, Stored, ArchivedIsComplete
<1>. QED
  BY <1>1, RowsStep, OwnerHolds, TypesHold, PTL DEF Spec

\* A message marked archived has the objects and rows of all its attachments, whichever
\* chunk or put failed before and however many deliveries raced (storeIncomingAttachments
\* and the verdict after it).
THEOREM ArchiveComplete == Spec => []ArchivedIsComplete
<1>1. Rows => ArchivedIsComplete
  BY DEF Rows
<1>. QED
  BY <1>1, RowsHold, PTL

-----------------------------------------------------------------------------
(***************************************************************************)
(* What is stored while nothing fails: the raw messages of the winner and  *)
(* of those still to claim or clean up, the attachments of the winner, and *)
(* a placeholder only while someone is about to fill or remove it.         *)
(***************************************************************************)
Holding(w) == pc[w] \in {"claim", "undoRaw", "loseRaw"}

RawsKept ==
  \A p : p \in rawObjects <=> \/ p = message.raw /\ p # NoPass
                              \/ \E v \in Workers : Holding(v) /\ pass[v] = p

AttachmentsKept ==
  /\ \A w \in Workers : pc[w] # "markPartial"
  /\ \A w \in Workers : pc[w] \in {"ensure", "attach"} => attObjects = {}
  /\ \A w \in Workers : pc[w] = "rows" => attObjects = Own(w)
  /\ attRows \subseteq attObjects
  /\ (\A w \in Workers : pc[w] # "rows") => attObjects \subseteq attRows
  /\ ~Exists => attObjects = {}

ThreadKept ==
  /\ thread = "absent" => ~Exists
  /\ others => thread = "live"
  /\ thread = "placeholder" =>
       \E w \in Workers : IF Exists THEN pc[w] = "ensure"
                                    ELSE pc[w] \in {"put", "claim", "undoRaw", "undoThread"}

Kept == RawsKept /\ AttachmentsKept /\ ThreadKept

\* While nothing fails, no failure was injected.
LEMMA NotInjected ==
  ASSUME failures = 0, failures' = 0
  PROVE  ~Injected
  BY DEF Injected

\* While nothing fails, one invocation archives at most.
LEMMA OneArchives ==
  ASSUME Types, Owner, NEW v \in Workers, NEW w \in Workers, Archiving(v), Archiving(w)
  PROVE  v = w
<1>1. pass[v] = pass[w]
  BY Records DEF Owner
<1>. QED
  BY <1>1 DEF Owner, Archiving

\* The raw messages: a step that neither stores nor claims nor deletes keeps them.
LEMMA RawsStay ==
  ASSUME Types, RawsKept, NEW w \in Workers, Receive(w) \/ Step(w),
         message'.raw = message.raw, rawObjects' = rawObjects,
         Holding(w)' <=> Holding(w),
         Holding(w) => pass'[w] = pass[w]
  PROVE  RawsKept'
<1>1. \A v \in Workers \ {w} : pc'[v] = pc[v] /\ pass'[v] = pass[v]
  BY OthersStay DEF Types
<1>2. \A v \in Workers : Holding(v)' <=> Holding(v)
  BY <1>1 DEF Holding
<1>3. \A v \in Workers : Holding(v) => pass'[v] = pass[v]
  BY <1>1
<1>. QED
  BY <1>2, <1>3 DEF RawsKept

\* While nothing fails, every step keeps the account of the raw messages.
LEMMA RawsStep ==
  ASSUME Types, Owner, Custody, RawsKept, failures = 0, failures' = 0,
         NEW w \in Workers, Receive(w) \/ Step(w)
  PROVE  RawsKept'
<1>. USE NotInjected, Numbers, Records
<1>1. \A v \in Workers \ {w} : pc'[v] = pc[v] /\ pass'[v] = pass[v]
  BY OthersStay DEF Types
<1>2. CASE \/ Receive(w) \/ Placeholder(w) \/ DiscardThread(w) \/ EnsureThread(w)
           \/ PutAttachments(w) \/ InsertChunk(w) \/ RefreshThread(w) \/ Forward(w)
  <2>1. ~Holding(w) /\ ~Holding(w)'
    BY <1>2 DEF Receive, Placeholder, DiscardThread, EnsureThread, PutAttachments, InsertChunk,
                RefreshThread, Forward, Move, Leave, Goto, Holding, Types, TypeOK
  <2>2. message' = message /\ rawObjects' = rawObjects
    BY <1>2 DEF Receive, Placeholder, DiscardThread, EnsureThread, PutAttachments, InsertChunk,
                RefreshThread, Forward, d1, r2
  <2>. QED
    BY <2>1, <2>2, RawsStay
<1>3. CASE LoseClaim(w) \/ ClaimThrows(w)
  <2>1. /\ Holding(w) /\ Holding(w)' /\ pass' = pass
        /\ message' = message /\ rawObjects' = rawObjects
    BY <1>3 DEF LoseClaim, ClaimThrows, Move, Goto, Holding, d1, r2, Types, TypeOK
  <2>. QED
    BY <2>1, RawsStay
<1>4. CASE MarkArchived(w) \/ MarkPartial(w)
  <2>1. ~Holding(w) /\ ~Holding(w)' /\ rawObjects' = rawObjects /\ Archiving(w)
    BY <1>4 DEF MarkArchived, MarkPartial, Move, Goto, Holding, Archiving, r2, Types, TypeOK
  <2>2. message'.raw = message.raw
    <3>1. message \in [raw : Passes, archive : {"pending", "archived", "partial"}]
      BY <2>1 DEF Types, TypeOK, Exists
    <3>. QED
      BY <1>4, <3>1 DEF MarkArchived, MarkPartial, Verdict
  <2>. QED
    BY <2>1, <2>2, RawsStay
<1>5. CASE PutRaw(w)
  <2>1. /\ pass' = pass /\ ~Holding(w) /\ Holding(w)' /\ message' = message
        /\ rawObjects' = rawObjects \union {pass[w]}
    BY <1>5 DEF PutRaw, Move, Goto, Holding, RawKey, d1, Types, TypeOK
  <2>2. \A v \in Workers \ {w} : Holding(v)' <=> Holding(v)
    BY <1>1 DEF Holding
  <2>. QED
    BY <2>1, <2>2 DEF RawsKept
<1>6. CASE Claim(w)
  <2>1. /\ pass' = pass /\ Holding(w) /\ ~Holding(w)'
        /\ message = NoMessage /\ message'.raw = pass[w] /\ pass[w] # NoPass
        /\ rawObjects' = rawObjects
    BY <1>6 DEF Claim, Move, Goto, Holding, RawKey, r2, Exists, Types, TypeOK
  <2>2. \A v \in Workers \ {w} : Holding(v)' <=> Holding(v)
    BY <1>1 DEF Holding
  <2>3. \A p : p \in rawObjects <=> \E v \in Workers : Holding(v) /\ pass[v] = p
    BY <2>1 DEF RawsKept
  <2>. QED
    BY <2>1, <2>2, <2>3 DEF RawsKept
<1>7. CASE DiscardRaw(w)
  <2>1. /\ pass' = pass /\ Holding(w) /\ ~Holding(w)' /\ pc[w] \in Contending
        /\ message' = message /\ rawObjects' = rawObjects \ {pass[w]}
    BY <1>7 DEF DiscardRaw, BestEffort, Move, Goto, Holding, Contending, RawKey, d1,
                Types, TypeOK
  <2>2. \A v \in Workers \ {w} : Holding(v)' <=> Holding(v)
    BY <1>1 DEF Holding
  <2>3. \A v \in Workers \ {w} : Holding(v) => pass[v] # pass[w]
    BY <2>1 DEF Owner, Holding
  <2>4. pass[w] # message.raw
    BY <2>1 DEF Custody
  <2>. QED
    BY <2>1, <2>2, <2>3, <2>4 DEF RawsKept
<1>8. CASE \/ PutRawThrows(w) \/ PutAttachmentsThrows(w) \/ InsertChunkThrows(w)
           \/ MarkArchivedThrows(w)
  BY <1>8 DEF PutRawThrows, PutAttachmentsThrows, InsertChunkThrows, MarkArchivedThrows
<1>. QED
  BY <1>2, <1>3, <1>4, <1>5, <1>6, <1>7, <1>8 DEF Step

\* While nothing fails, every step keeps the account of the attachments.
LEMMA AttachmentsStep ==
  ASSUME Types, Types', Owner, Rows, AttachmentsKept, failures = 0, failures' = 0,
         NEW w \in Workers, Receive(w) \/ Step(w)
  PROVE  AttachmentsKept'
<1>. USE NotInjected, Numbers, Records
<1>1. \A v \in Workers \ {w} : pc'[v] = pc[v] /\ pass'[v] = pass[v]
  BY OthersStay DEF Types
<1>2. ASSUME UNCHANGED <<attRows, attObjects>>, Exists => Exists',
             pc[w] # "rows",
             pc'[w] \notin {"rows", "markPartial"},
             pc'[w] \in {"ensure", "attach"} => attObjects = {}
      PROVE  AttachmentsKept'
  <2>1. \A v \in Workers : /\ pc'[v] # "markPartial"
                           /\ pc'[v] \in {"ensure", "attach"} => attObjects' = {}
    BY <1>1, <1>2 DEF AttachmentsKept
  <2>2. \A v \in Workers : pc'[v] = "rows" => attObjects' = Own(v)'
    BY <1>1, <1>2 DEF AttachmentsKept, Own
  <2>3. (\A v \in Workers : pc'[v] # "rows") => \A v \in Workers : pc[v] # "rows"
    BY <1>1, <1>2
  <2>4. ~Exists' => attObjects' = {}
    BY <1>2 DEF AttachmentsKept
  <2>. QED
    BY <1>2, <2>1, <2>2, <2>3, <2>4 DEF AttachmentsKept
<1>3. CASE \/ Receive(w) \/ Placeholder(w) \/ PutRaw(w) \/ LoseClaim(w) \/ ClaimThrows(w)
           \/ DiscardRaw(w) \/ DiscardThread(w) \/ RefreshThread(w) \/ Forward(w)
           \/ EnsureThread(w) \/ MarkArchived(w) \/ MarkPartial(w)
  <2>1. UNCHANGED <<attRows, attObjects>>
    BY <1>3 DEF Receive, Placeholder, PutRaw, LoseClaim, ClaimThrows, DiscardRaw, DiscardThread,
                RefreshThread, Forward, EnsureThread, MarkArchived, MarkPartial, d1, r2
  <2>2. /\ pc[w] # "rows"
        /\ pc'[w] \notin {"rows", "markPartial"}
        /\ pc'[w] \in {"ensure", "attach"} => pc[w] = "ensure"
    BY <1>3 DEF Receive, Placeholder, PutRaw, LoseClaim, ClaimThrows, DiscardRaw, DiscardThread,
                RefreshThread, Forward, EnsureThread, MarkArchived, MarkPartial, Move, Leave,
                Goto, Types, TypeOK
  <2>3. Exists => Exists'
    <3>1. CASE MarkArchived(w) \/ MarkPartial(w)
      <4>1. Archiving(w)
        BY <3>1 DEF MarkArchived, MarkPartial, Move, Archiving
      <4>2. message \in [raw : Passes, archive : {"pending", "archived", "partial"}]
        BY <4>1 DEF Types, TypeOK, Exists
      <4>3. message'.archive \in {"partial", "archived"}
        BY <3>1, <4>2 DEF MarkArchived, MarkPartial, Verdict
      <4>. QED
        BY <4>3 DEF Exists
    <3>2. CASE ~(MarkArchived(w) \/ MarkPartial(w))
      <4>1. message' = message \/ ~Exists
        BY <1>3, <3>2 DEF Receive, Placeholder, PutRaw, LoseClaim, ClaimThrows, DiscardRaw,
                    DiscardThread, RefreshThread, Forward, EnsureThread, d1
      <4>. QED
        BY <4>1 DEF Exists
    <3>. QED
      BY <3>1, <3>2
  <2>. QED
    BY <1>2, <2>1, <2>2, <2>3 DEF AttachmentsKept
<1>4. CASE Claim(w)
  <2>1. /\ UNCHANGED <<attRows, attObjects>> /\ ~Exists
        /\ pc[w] = "claim" /\ pc'[w] = "ensure"
    BY <1>4 DEF Claim, Move, Goto, r2, Types, TypeOK
  <2>. QED
    BY <1>2, <2>1 DEF AttachmentsKept
<1>5. CASE PutAttachments(w)
  <2>1. /\ pc[w] = "attach" /\ Archiving(w) /\ pass' = pass
        /\ attObjects' = attObjects \union Own(w)
        /\ attRows' = attRows /\ message' = message
        /\ pc'[w] = IF Chunks = 0 THEN "mark" ELSE "rows"
    BY <1>5 DEF PutAttachments, Move, Goto, Archiving, d1, Types, TypeOK
  <2>2. attObjects' = Own(w) /\ Own(w)' = Own(w) /\ attRows' = {}
    BY <2>1 DEF AttachmentsKept, Own
  <2>3. \A v \in Workers \ {w} : ~Archiving(v) /\ pc'[v] = pc[v]
    BY <1>1, <2>1, OneArchives
  <2>4. pc'[w] = "mark" => Own(w) = {}
    BY <2>1 DEF Own
  <2>5. Exists'
    BY <2>1 DEF Types, Exists
  <2>6. \A v \in Workers : /\ pc'[v] \notin {"markPartial", "ensure", "attach"}
                           /\ pc'[v] = "rows" => v = w
    BY <2>1, <2>3 DEF Archiving
  <2>. QED
    BY <2>1, <2>2, <2>4, <2>5, <2>6 DEF AttachmentsKept
<1>6. CASE InsertChunk(w)
  <2>1. /\ pc[w] = "rows" /\ Archiving(w) /\ pass' = pass
        /\ attObjects' = attObjects /\ message' = message
        /\ attRows' = attRows \union {<<pass[w], chunk[w]>>}
        /\ pc'[w] \in {"rows", "mark"} /\ chunk[w] \in 1..Chunks
        /\ pc'[w] = "mark" => chunk[w] = Chunks
    BY <1>6 DEF InsertChunk, Goto, Archiving, r2, Types, TypeOK
  <2>2. \A v \in Workers \ {w} : ~Archiving(v) /\ pc'[v] = pc[v]
    BY <1>1, <2>1, OneArchives
  <2>3. \A v \in Workers : /\ pc'[v] \notin {"markPartial", "ensure", "attach"}
                           /\ pc'[v] = "rows" => v = w
    BY <2>1, <2>2 DEF Archiving
  <2>4. attObjects' = Own(w) /\ Own(w)' = Own(w) /\ attRows' \subseteq Own(w)
    BY <2>1 DEF AttachmentsKept, Own
  <2>5. pc'[w] = "mark" => Own(w) \subseteq attRows'
    <3>1. \A c \in 1..Chunks : c < chunk[w] => <<pass[w], c>> \in attRows
      BY <2>1 DEF Rows, Stored
    <3>2. pc'[w] = "mark" => \A c \in 1..Chunks : <<pass[w], c>> \in attRows'
      BY <2>1, <3>1
    <3>. QED
      BY <3>2 DEF Own
  <2>6. Exists'
    BY <2>1 DEF Types, Exists
  <2>. QED
    BY <2>1, <2>3, <2>4, <2>5, <2>6 DEF AttachmentsKept
<1>7. CASE \/ PutRawThrows(w) \/ PutAttachmentsThrows(w) \/ InsertChunkThrows(w)
           \/ MarkArchivedThrows(w)
  BY <1>7 DEF PutRawThrows, PutAttachmentsThrows, InsertChunkThrows, MarkArchivedThrows
<1>. QED
  BY <1>3, <1>4, <1>5, <1>6, <1>7 DEF Step

\* While nothing fails, every step keeps the account of the thread.
LEMMA ThreadStep ==
  ASSUME Types, Types', Owner, ThreadKept, failures = 0, failures' = 0,
         NEW w \in Workers, Receive(w) \/ Step(w)
  PROVE  ThreadKept'
<1>. USE NotInjected, Records
<1>1. \A v \in Workers \ {w} : pc'[v] = pc[v]
  BY OthersStay DEF Types
<1>2. ASSUME thread' = thread, others' = others, Exists' = Exists,
             \/ pc[w] \notin {"put", "claim", "undoRaw", "undoThread", "ensure"}
             \/ /\ pc[w] \in {"put", "claim", "undoRaw", "undoThread"}
                /\ pc'[w] \in {"put", "claim", "undoRaw", "undoThread"}
             \/ pc[w] # "ensure" /\ Exists
      PROVE  ThreadKept'
  <2>1. ASSUME thread = "placeholder"
        PROVE  \E v \in Workers :
                 IF Exists THEN pc'[v] = "ensure"
                           ELSE pc'[v] \in {"put", "claim", "undoRaw", "undoThread"}
    <3>1. PICK v \in Workers : IF Exists THEN pc[v] = "ensure"
                                  ELSE pc[v] \in {"put", "claim", "undoRaw", "undoThread"}
      BY <2>1 DEF ThreadKept
    <3>2. CASE v = w
      BY <1>2, <3>1, <3>2
    <3>3. CASE v # w
      BY <1>1, <3>1, <3>3
    <3>. QED
      BY <3>2, <3>3
  <2>. QED
    BY <1>2, <2>1 DEF ThreadKept
<1>3. CASE \/ Receive(w) \/ PutRaw(w) \/ LoseClaim(w) \/ DiscardRaw(w) \/ RefreshThread(w)
           \/ Forward(w) \/ PutAttachments(w) \/ InsertChunk(w)
  <2>1. thread' = thread /\ others' = others /\ message' = message
    BY <1>3 DEF Receive, PutRaw, LoseClaim, DiscardRaw, RefreshThread, Forward, PutAttachments,
                InsertChunk, d1
  <2>2. \/ pc[w] \notin {"put", "claim", "undoRaw", "undoThread", "ensure"}
        \/ /\ pc[w] \in {"put", "claim", "undoRaw", "undoThread"}
           /\ pc'[w] \in {"put", "claim", "undoRaw", "undoThread"}
        \/ pc[w] # "ensure" /\ Exists
    BY <1>3 DEF Receive, PutRaw, LoseClaim, DiscardRaw, RefreshThread, Forward, PutAttachments,
                InsertChunk, Move, Goto, Types, TypeOK
  <2>. QED
    BY <1>2, <2>1, <2>2 DEF Exists
<1>4. CASE MarkArchived(w) \/ MarkPartial(w)
  <2>1. Archiving(w) /\ pc[w] # "ensure" /\ thread' = thread /\ others' = others
    BY <1>4 DEF MarkArchived, MarkPartial, Move, Archiving
  <2>2. message'.archive \in {"partial", "archived"}
    <3>1. message \in [raw : Passes, archive : {"pending", "archived", "partial"}]
      BY <2>1 DEF Types, TypeOK, Exists
    <3>. QED
      BY <1>4, <3>1 DEF MarkArchived, MarkPartial, Verdict
  <2>3. Exists /\ Exists'
    BY <2>1, <2>2 DEF Types, Exists
  <2>. QED
    BY <1>2, <2>1, <2>3
<1>5. CASE Placeholder(w)
  <2>1. /\ pc[w] = "thread" /\ pc'[w] = "put"
        /\ thread' = IF thread = "absent" THEN "placeholder" ELSE thread
        /\ others' = others /\ message' = message
    BY <1>5 DEF Placeholder, Move, Goto, Types, TypeOK
  <2>2. CASE thread = "absent"
    <3>1. ~Exists /\ ~Exists' /\ ~others
      BY <2>1, <2>2 DEF ThreadKept, Exists
    <3>2. thread' = "placeholder" /\ ~others'
      BY <2>1, <2>2, <3>1
    <3>. QED
      BY <2>1, <3>1, <3>2 DEF ThreadKept
  <2>3. CASE thread # "absent"
    BY <1>2, <2>1, <2>3 DEF Exists
  <2>. QED
    BY <2>2, <2>3
<1>6. CASE Claim(w)
  <2>1. /\ pc'[w] = "ensure" /\ thread' = thread /\ others' = others /\ thread # "absent"
        /\ Archiving(w)'
    BY <1>6 DEF Claim, Move, Goto, Archiving, Types, TypeOK
  <2>2. Exists'
    BY <2>1 DEF Types
  <2>. QED
    BY <2>1, <2>2 DEF ThreadKept
<1>7. CASE ClaimThrows(w)
  <2>1. thread = "absent" /\ thread' = thread /\ others' = others /\ message' = message
    BY <1>7 DEF ClaimThrows
  <2>. QED
    BY <2>1 DEF ThreadKept, Exists
<1>8. CASE DiscardThread(w)
  <2>1. /\ pc[w] \in {"undoThread", "loseThread"} /\ others' = others /\ message' = message
        /\ thread' = IF ~Exists /\ ~others THEN "absent" ELSE thread
    BY <1>8 DEF DiscardThread, BestEffort, Move
  <2>2. CASE Exists
    BY <1>2, <2>1, <2>2 DEF Exists
  <2>3. CASE ~Exists /\ ~others
    BY <2>1, <2>3 DEF ThreadKept, Exists
  <2>4. CASE others
    <3>1. thread = "live" /\ thread' = "live"
      BY <2>1, <2>4 DEF ThreadKept
    <3>. QED
      BY <2>1, <3>1 DEF ThreadKept
  <2>. QED
    BY <2>2, <2>3, <2>4
<1>9. CASE EnsureThread(w)
  BY <1>9 DEF EnsureThread, ThreadKept
<1>10. CASE \/ PutRawThrows(w) \/ PutAttachmentsThrows(w) \/ InsertChunkThrows(w)
            \/ MarkArchivedThrows(w)
  BY <1>10 DEF PutRawThrows, PutAttachmentsThrows, InsertChunkThrows, MarkArchivedThrows
<1>. QED
  BY <1>3, <1>4, <1>5, <1>6, <1>7, <1>8, <1>9, <1>10 DEF Step

\* Kept holds as long as nothing has failed.
LEMMA KeptHolds == Spec => [](failures = 0 => Kept)
<1>1. Init => Kept
  <2> SUFFICES ASSUME Init PROVE Kept
    OBVIOUS
  <2>1. RawsKept
    BY Records DEF Init, RawsKept, Holding
  <2>2. AttachmentsKept
    BY DEF Init, AttachmentsKept
  <2>3. ThreadKept
    BY DEF Init, ThreadKept, Exists
  <2>. QED
    BY <2>1, <2>2, <2>3 DEF Kept
<1>2. /\ Types /\ Types' /\ Owner /\ Rows /\ Custody /\ (failures = 0 => Kept)
      /\ [Next]_vars
      => (failures = 0 => Kept)'
  <2> SUFFICES ASSUME Types, Types', Owner, Rows, Custody, failures = 0 => Kept,
                      [Next]_vars, failures' = 0
               PROVE  Kept'
    OBVIOUS
  <2>1. failures = 0
    BY CleanBefore
  <2>2. Kept
    BY <2>1
  <2>3. CASE UNCHANGED vars
    BY <2>2, <2>3 DEF vars, d1, r2, Kept, RawsKept, AttachmentsKept, ThreadKept, Holding, Own,
                      Exists
  <2>4. ASSUME NEW w \in Workers, Receive(w) \/ Step(w)
        PROVE  Kept'
    BY <2>1, <2>2, <2>4, RawsStep, AttachmentsStep, ThreadStep DEF Kept
  <2>5. ASSUME NEW w \in Workers, Die(w)
        PROVE  FALSE
    BY <2>1, <2>5, NotInjected DEF Die
  <2>. QED
    BY <2>3, <2>4, <2>5 DEF Next
<1>. QED
  BY <1>1, <1>2, TypesHold, OwnerHolds, CustodyHolds, RowsHold, PTL DEF Spec

\* If nothing failed, however many deliveries raced, at rest there is exactly one raw
\* message, the winner's, every stored attachment has its row, and no empty thread is
\* left: the losers of the claim clean up what they stored, whichever order they come in.
THEOREM NothingLeft == Spec => []NothingLeftBehind
<1>1. (failures = 0 => Kept) => NothingLeftBehind
  <2> SUFFICES ASSUME failures = 0 => Kept, AtRest, failures = 0
               PROVE  /\ rawObjects = {message.raw} \ {NoPass}
                      /\ attRows = attObjects
                      /\ thread = "absent" => ~Exists
                      /\ thread = "placeholder" => FALSE
    BY DEF NothingLeftBehind
  <2>1. \A w \in Workers : pc[w] = "idle"
    BY DEF AtRest
  <2>2. rawObjects = {message.raw} \ {NoPass}
    BY <2>1 DEF Kept, RawsKept, Holding
  <2>3. attRows = attObjects
    BY <2>1 DEF Kept, AttachmentsKept
  <2>4. thread # "placeholder" /\ (thread = "absent" => ~Exists)
    BY <2>1 DEF Kept, ThreadKept
  <2>. QED
    BY <2>2, <2>3, <2>4
<1>. QED
  BY <1>1, KeptHolds, PTL
=============================================================================
