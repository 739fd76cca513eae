----------------------- MODULE OutboundArchiveProofs -----------------------
(***************************************************************************)
(* Proofs about module OutboundArchive, for any number of requests, passes *)
(* and failures.                                                           *)
(***************************************************************************)
EXTENDS OutboundArchive, TLAPS, FiniteSetTheorems

\* The constants are numbers, and no pass has the number 0.
LEMMA Numbers == MaxPasses \in Nat \ {0} /\ MaxFailures \in Nat /\ NoPass = 0 /\ NoPass \notin Passes
  BY ArchiveAssumption DEF NoPass, Passes

\* Going on within an invocation keeps the locals and the other program counters.
LEMMA MoveEffect ==
  ASSUME TypeOK, NEW w \in Workers, NEW from, NEW to \in Stages, Move(w, from, to),
         from \in {"idle", "found"} => to \in {"idle", "found"}
  PROVE  /\ pc' \in [Workers -> Stages]
         /\ UNCHANGED <<pass, listed>>
         /\ \A v \in Workers : pc'[v] \notin {"idle", "found"} => pass'[v] # NoPass
  BY DEF TypeOK, Move, Goto

\* The end of an invocation resets its locals to values of their types.
LEMMA LeaveEffect ==
  ASSUME TypeOK, NEW w \in Workers, Leave(w)
  PROVE  /\ pc' \in [Workers -> Stages]
         /\ pass' \in [Workers -> Passes \union {NoPass}]
         /\ listed' \in [Workers -> SUBSET Passes]
         /\ \A v \in Workers : pc'[v] \notin {"idle", "found"} => pass'[v] # NoPass
  BY DEF TypeOK, Leave, Goto, Stages

\* Every step preserves the types.
LEMMA TypeStep == TypeOK /\ [Next]_vars => TypeOK'
<1> SUFFICES ASSUME TypeOK, [Next]_vars
             PROVE  TypeOK'
  OBVIOUS
<1>. USE Numbers
<1>1. ASSUME NEW w \in Workers, Begin(w)
      PROVE  TypeOK'
  <2>1. passes + 1 \in Passes /\ passes' \in 0..MaxPasses
    BY <1>1 DEF TypeOK, Begin, Passes
  <2>2. pass' \in [Workers -> Passes \union {NoPass}] /\ pc' \in [Workers -> Stages]
    BY <1>1, <2>1 DEF TypeOK, Begin, Goto, Stages
  <2>0. overlapped' \in BOOLEAN
    BY <1>1 DEF TypeOK, Begin
  <2>3. \A v \in Workers : pc'[v] \notin {"idle", "found"} => pass'[v] # NoPass
    BY <1>1, <2>1 DEF TypeOK, Begin, Goto
  <2>. QED
    BY <1>1, <2>0, <2>1, <2>2, <2>3 DEF TypeOK, Begin, d1, r2
<1>2. ASSUME NEW w \in Workers, ListAttachments(w) \/ SelectRows(w)
      PROVE  TypeOK'
  <2>1. listed' \in [Workers -> SUBSET Passes] /\ pc' \in [Workers -> Stages]
    BY <1>2 DEF TypeOK, ListAttachments, SelectRows, Goto, Stages
  <2>2. \A v \in Workers : pc'[v] \notin {"idle", "found"} => pass'[v] # NoPass
    BY <1>2 DEF TypeOK, ListAttachments, SelectRows, Goto
  <2>. QED
    BY <1>2, <2>1, <2>2 DEF TypeOK, ListAttachments, SelectRows, d1, r2, history
<1>3. ASSUME NEW w \in Workers, \/ Find(w) \/ DeleteObjects(w) \/ DeleteRows(w) \/ PutObjects(w)
                                \/ InsertRows(w) \/ PutRaw(w) \/ UpdateRow(w)
                                \/ InsertThrows(w) \/ UpdateThrows(w) \/ DiscardRaw(w)
      PROVE  TypeOK'
  <2>1. PICK from \in Stages, to \in Stages :
          /\ Move(w, from, to)
          /\ from \in {"idle", "found"} => to \in {"idle", "found"} /\ Find(w)
    BY <1>3 DEF Find, DeleteObjects, DeleteRows, PutObjects, InsertRows, PutRaw, UpdateRow,
                InsertThrows, UpdateThrows, DiscardRaw, Stages
  <2>2. /\ pc' \in [Workers -> Stages]
        /\ UNCHANGED <<pass, listed>>
        /\ \A v \in Workers : pc'[v] \notin {"idle", "found"} => pass'[v] # NoPass
    BY <2>1, MoveEffect
  <2>3. ~Find(w) => pass[w] \in Passes
    BY <2>1 DEF TypeOK, Move
  <2>4. /\ archive' \in {"pending", "archived", "failed"}
        /\ rawKey' \in Passes \union {NoPass}
        /\ failures' \in 0..MaxFailures
        /\ misjudged' \subseteq Passes
        /\ UNCHANGED <<passes, handed, overlapped>>
    BY <1>3, <2>3 DEF TypeOK, Find, DeleteObjects, DeleteRows, PutObjects, InsertRows, PutRaw,
                      UpdateRow, InsertThrows, UpdateThrows, DiscardRaw, Injected, RawKey,
                      ObjectsDeleted, RowsDeleted, ObjectsPut, RawPut, d1, r2, history
  <2>5. rawObjects' \subseteq Passes /\ attRows' \subseteq Passes /\ attObjects' \subseteq Passes
    BY <1>3, <2>3 DEF TypeOK, Find, DeleteObjects, DeleteRows, PutObjects, InsertRows, PutRaw,
                      UpdateRow, InsertThrows, UpdateThrows, DiscardRaw, RawKey,
                      ObjectsDeleted, RowsDeleted, ObjectsPut, RawPut, d1, r2
  <2>. QED
    BY <2>2, <2>4, <2>5 DEF TypeOK
<1>4. ASSUME NEW w \in Workers, CallThrows(w)
      PROVE  TypeOK'
  <2>1. /\ pc' \in [Workers -> Stages] /\ failures' \in 0..MaxFailures
        /\ pass[w] \in Passes
        /\ UNCHANGED <<passes, pass, listed, history>>
    BY <1>4 DEF TypeOK, CallThrows, Goto, Injected, Stages
  <2>2. \A v \in Workers : pc'[v] \notin {"idle", "found"} => pass'[v] # NoPass
    BY <1>4 DEF TypeOK, CallThrows, Goto
  <2>3. /\ UNCHANGED <<archive, rawKey>>
        /\ rawObjects' \subseteq Passes /\ attRows' \subseteq Passes /\ attObjects' \subseteq Passes
    BY <1>4, <2>1 DEF TypeOK, CallThrows, ObjectsDeleted, RowsDeleted, ObjectsPut, RawPut, RawKey,
                      d1, r2
  <2>. QED
    BY <2>1, <2>2, <2>3 DEF TypeOK, history
<1>5. ASSUME NEW w \in Workers, Send(w) \/ MarkFailed(w) \/ Die(w) \/ GetAttachments(w)
      PROVE  TypeOK'
  <2>1. /\ pc' \in [Workers -> Stages]
        /\ pass' \in [Workers -> Passes \union {NoPass}]
        /\ listed' \in [Workers -> SUBSET Passes]
        /\ \A v \in Workers : pc'[v] \notin {"idle", "found"} => pass'[v] # NoPass
    BY <1>5, LeaveEffect DEF Send, MarkFailed, Die, GetAttachments
  <2>2. Cardinality(listed[w]) \in 0..MaxPasses
    <3>1. IsFiniteSet(1..MaxPasses) /\ Cardinality(1..MaxPasses) = MaxPasses
      BY FS_Interval
    <3>2. listed[w] \subseteq 1..MaxPasses
      BY DEF TypeOK, Passes
    <3>3. IsFiniteSet(listed[w]) /\ Cardinality(listed[w]) <= MaxPasses
      BY <3>1, <3>2, FS_Subset
    <3>. QED
      BY <3>3, FS_CardinalityType
  <2>3. handed' \subseteq 0..MaxPasses
    BY <1>5, <2>2 DEF TypeOK, Send, MarkFailed, Die, GetAttachments, history
  <2>4. /\ archive' \in {"pending", "archived", "failed"}
        /\ failures' \in 0..MaxFailures
        /\ UNCHANGED <<rawKey, rawObjects, attRows, attObjects, passes, overlapped, misjudged>>
    BY <1>5 DEF TypeOK, Send, MarkFailed, Die, GetAttachments, Injected, d1, r2, history
  <2>. QED
    BY <2>1, <2>3, <2>4 DEF TypeOK
<1>6. ASSUME NEW w \in Workers, Retry(w)
      PROVE  TypeOK'
  <2>1. pc' \in [Workers -> Stages] /\ pass' \in [Workers -> Passes \union {NoPass}]
    BY <1>6 DEF TypeOK, Retry, Goto, Stages
  <2>2. \A v \in Workers : pc'[v] \notin {"idle", "found"} => pass'[v] # NoPass
    BY <1>6 DEF TypeOK, Retry, Goto
  <2>. QED
    BY <1>6, <2>1, <2>2 DEF TypeOK, Retry, d1, r2, history
<1>7. ASSUME NEW w \in Workers, GetRaw(w)
      PROVE  TypeOK'
  <2>1. /\ pc' \in [Workers -> Stages]
        /\ pass' \in [Workers -> Passes \union {NoPass}]
        /\ listed' \in [Workers -> SUBSET Passes]
        /\ \A v \in Workers : pc'[v] \notin {"idle", "found"} => pass'[v] # NoPass
    <3>1. CASE Leave(w)
      BY <3>1, LeaveEffect
    <3>2. CASE pc[w] = "getRaw" /\ Goto(w, "select") /\ UNCHANGED <<pass, listed>>
      BY <3>2 DEF TypeOK, Goto, Stages
    <3>. QED
      BY <1>7, <3>1, <3>2 DEF GetRaw
  <2>. QED
    BY <1>7, <2>1 DEF TypeOK, GetRaw, d1, r2, history
<1>8. CASE UNCHANGED vars
  BY <1>8 DEF TypeOK, vars, d1, r2, history
<1>. QED
  BY <1>1, <1>2, <1>3, <1>4, <1>5, <1>6, <1>7, <1>8 DEF Next

\* Every variable keeps its type (the statements of archiveOutgoing and its clean-up
\* write nothing else).
THEOREM TypeCorrect == Spec => []TypeOK
<1>1. Init => TypeOK
  <2> SUFFICES ASSUME Init PROVE TypeOK
    OBVIOUS
  <2>1. passes \in 0..MaxPasses /\ failures \in 0..MaxFailures
    BY Numbers DEF Init
  <2>2. /\ pc \in [Workers -> Stages]
        /\ pass \in [Workers -> Passes \union {NoPass}]
        /\ listed \in [Workers -> SUBSET Passes]
        /\ \A w \in Workers : pc[w] \notin {"idle", "found"} => pass[w] # NoPass
    BY DEF Init, Stages
  <2>. QED
    BY <2>1, <2>2 DEF Init, TypeOK
<1>. QED
  BY <1>1, TypeStep, PTL DEF Spec

-----------------------------------------------------------------------------
(***************************************************************************)
(* The raw message: each running pass has a token of its own, not the one  *)
(* the row names unless its UPDATE was applied and threw, so that no other *)
(* pass deletes the object of the row.                                     *)
(***************************************************************************)
Tokens ==
  /\ rawKey <= passes
  /\ \A w \in Workers : Archiving(w) =>
       pass[w] <= passes /\ (pass[w] # rawKey \/ pass[w] \in misjudged)
  /\ \A v, w \in Workers : Archiving(v) /\ Archiving(w) /\ pass[v] = pass[w] => v = w
  /\ \A w \in Workers : pc[w] = "update" => pass[w] \in rawObjects
  /\ RawKeyIsThere

\* A step that begins no pass keeps the tokens if it leaves the row's key alone and
\* deletes, in the catch of the UPDATE, its own raw message at most.
LEMMA TokensKept ==
  ASSUME TypeOK, Tokens, NEW w \in Workers,
         \A v \in Workers \ {w} : pc'[v] = pc[v] /\ pass'[v] = pass[v],
         Archiving(w)' => Archiving(w) /\ pass'[w] = pass[w],
         pc'[w] = "update" => pass[w] \in rawObjects',
         \/ rawObjects \subseteq rawObjects'
         \/ pc[w] = "undo" /\ rawObjects \ {pass[w]} \subseteq rawObjects',
         UNCHANGED <<rawKey, passes, misjudged>>
  PROVE  Tokens'
<1>1. \A v \in Workers : Archiving(v)' => Archiving(v) /\ pass'[v] = pass[v]
  BY DEF Archiving
<1>2. \A v \in Workers : pc'[v] = "update" => pass'[v] \in rawObjects'
  <2>1. \A v \in Workers \ {w} : pc'[v] = "update" => pass'[v] \in rawObjects'
    BY <1>1 DEF Tokens, Archiving, PassStages
  <2>. QED
    BY <1>1, <2>1 DEF Archiving, PassStages
<1>3. RawKeyIsThere'
  BY DEF Tokens, RawKeyIsThere, Archiving, PassStages
<1>. QED
  BY <1>1, <1>2, <1>3 DEF Tokens

\* Every step keeps the tokens apart.
LEMMA TokensStep == TypeOK /\ Tokens /\ [Next]_vars => Tokens'
<1> SUFFICES ASSUME TypeOK, Tokens, [Next]_vars
             PROVE  Tokens'
  OBVIOUS
<1>. USE Numbers
<1>1. ASSUME NEW w \in Workers, Begin(w)
      PROVE  Tokens'
  <2>1. /\ pc' = [pc EXCEPT ![w] = "list"]
        /\ pass' = [pass EXCEPT ![w] = passes + 1]
        /\ passes' = passes + 1
        /\ rawKey' = rawKey /\ rawObjects' = rawObjects /\ misjudged' = misjudged
    BY <1>1 DEF Begin, Goto, d1, r2
  <2>2. passes \in Nat /\ rawKey \in Nat /\ \A v \in Workers : pass[v] \in Nat
    BY DEF TypeOK, Passes
  <2>3. \A v \in Workers \ {w} : pc'[v] = pc[v] /\ pass'[v] = pass[v]
    BY <2>1 DEF TypeOK
  <2>4. pc'[w] = "list" /\ pass'[w] = passes + 1
    BY <2>1 DEF TypeOK
  <2>5. \A v \in Workers \ {w} : Archiving(v)' => Archiving(v)
    BY <2>3 DEF Archiving
  <2>6. \A v \in Workers \ {w} : Archiving(v)' =>
          pass'[v] <= passes /\ (pass'[v] # rawKey \/ pass'[v] \in misjudged)
    BY <2>3, <2>5 DEF Tokens
  <2>7. rawKey' <= passes' /\ pass'[w] <= passes' /\ pass'[w] # rawKey'
    BY <2>1, <2>2, <2>4 DEF Tokens
  <2>8. \A v \in Workers : Archiving(v)' =>
          pass'[v] <= passes' /\ (pass'[v] # rawKey' \/ pass'[v] \in misjudged')
    BY <2>1, <2>2, <2>3, <2>6, <2>7
  <2>9. \A u, v \in Workers : Archiving(u)' /\ Archiving(v)' /\ pass'[u] = pass'[v] => u = v
    <3>1. \A v \in Workers \ {w} : Archiving(v)' => pass'[v] # pass'[w]
      BY <2>2, <2>3, <2>4, <2>6
    <3>2. \A u, v \in Workers \ {w} :
            Archiving(u)' /\ Archiving(v)' /\ pass'[u] = pass'[v] => u = v
      BY <2>3, <2>5 DEF Tokens
    <3>. QED
      BY <3>1, <3>2
  <2>10. \A v \in Workers : pc'[v] = "update" => pass'[v] \in rawObjects'
    BY <2>1, <2>3, <2>4 DEF Tokens
  <2>. QED
    BY <2>1, <2>7, <2>8, <2>9, <2>10 DEF Tokens, RawKeyIsThere
<1>2. ASSUME NEW w \in Workers,
             \/ ListAttachments(w) \/ DeleteObjects(w) \/ DeleteRows(w) \/ PutObjects(w)
             \/ InsertRows(w) \/ InsertThrows(w) \/ CallThrows(w) \/ DiscardRaw(w) \/ PutRaw(w)
      PROVE  Tokens'
  <2>1. PICK to \in PassStages :
          /\ Archiving(w) /\ Goto(w, to) /\ pass' = pass
          /\ to = "update" => PutRaw(w)
    BY <1>2 DEF ListAttachments, DeleteObjects, DeleteRows, PutObjects, InsertRows, InsertThrows,
                CallThrows, DiscardRaw, PutRaw, Move, Archiving, PassStages
  <2>2. /\ \A v \in Workers \ {w} : pc'[v] = pc[v] /\ pass'[v] = pass[v]
        /\ pc'[w] = to
    BY <2>1 DEF Goto, TypeOK
  <2>3. UNCHANGED <<rawKey, passes, misjudged>>
    BY <1>2 DEF ListAttachments, DeleteObjects, DeleteRows, PutObjects, InsertRows, InsertThrows,
                CallThrows, DiscardRaw, PutRaw, ObjectsDeleted, RowsDeleted, ObjectsPut, RawPut,
                d1, r2, history
  <2>4. \/ rawObjects \subseteq rawObjects'
        \/ pc[w] = "undo" /\ rawObjects \ {pass[w]} \subseteq rawObjects'
    BY <1>2 DEF ListAttachments, DeleteObjects, DeleteRows, PutObjects, InsertRows, InsertThrows,
                CallThrows, DiscardRaw, PutRaw, ObjectsDeleted, RowsDeleted, ObjectsPut, RawPut,
                RawKey, Move, d1, r2
  <2>5. pc'[w] = "update" => pass[w] \in rawObjects'
    BY <2>1, <2>2 DEF PutRaw, RawPut, RawKey
  <2>. QED
    BY <2>1, <2>2, <2>3, <2>4, <2>5, TokensKept
<1>3. ASSUME NEW w \in Workers,
             \/ Send(w) \/ MarkFailed(w) \/ Die(w) \/ GetAttachments(w)
             \/ Find(w) \/ Retry(w) \/ GetRaw(w) \/ SelectRows(w)
      PROVE  Tokens'
  <2>1. /\ \A v \in Workers \ {w} : pc'[v] = pc[v] /\ pass'[v] = pass[v]
        /\ pc'[w] \in {"idle", "found", "getRaw", "select", "getAttachments"}
    BY <1>3 DEF Send, MarkFailed, Die, GetAttachments, Find, Retry, GetRaw, SelectRows, Move,
                Leave, Goto, TypeOK
  <2>2. UNCHANGED <<rawKey, rawObjects, passes, misjudged>>
    BY <1>3 DEF Send, MarkFailed, Die, GetAttachments, Find, Retry, GetRaw, SelectRows, d1, r2,
                history
  <2>. QED
    BY <2>1, <2>2, TokensKept DEF Archiving, PassStages
<1>4. ASSUME NEW w \in Workers, UpdateRow(w) \/ UpdateThrows(w)
      PROVE  Tokens'
  <2>1. /\ pc[w] = "update" /\ pass' = pass
        /\ pc'[w] \in {"send", "undo"}
        /\ \A v \in Workers \ {w} : pc'[v] = pc[v]
        /\ UNCHANGED <<rawObjects, passes>>
    BY <1>4 DEF UpdateRow, UpdateThrows, Move, Goto, r2, TypeOK
  <2>2. \/ rawKey' = rawKey /\ misjudged' = misjudged
        \/ rawKey' = pass[w] /\ misjudged' = misjudged /\ pc'[w] = "send"
        \/ rawKey' = pass[w] /\ misjudged' = misjudged \union {pass[w]}
    BY <1>4 DEF UpdateRow, UpdateThrows, Move, Goto, RawKey, history, TypeOK
  <2>3. Archiving(w) /\ (pc'[w] = "send" => ~Archiving(w)')
    BY <2>1 DEF Archiving, PassStages
  <2>4. \A v \in Workers : Archiving(v)' => Archiving(v)
    BY <2>1, <2>3 DEF Archiving
  <2>5. \A v \in Workers \ {w} : Archiving(v) => pass[v] # pass[w]
    BY <2>3 DEF Tokens
  <2>6. /\ pass[w] \in rawObjects
        /\ \A v \in Workers : pc'[v] = "update" => pc[v] = "update"
    BY <2>1 DEF Tokens
  <2>7. \A v \in Workers : Archiving(v)' =>
          pass'[v] <= passes' /\ (pass'[v] # rawKey' \/ pass'[v] \in misjudged')
    BY <2>1, <2>2, <2>3, <2>4, <2>5 DEF Tokens
  <2>8. rawKey' <= passes' /\ RawKeyIsThere'
    BY <2>1, <2>2, <2>3, <2>6 DEF Tokens, RawKeyIsThere
  <2>. QED
    BY <2>1, <2>4, <2>6, <2>7, <2>8 DEF Tokens
<1>5. CASE UNCHANGED vars
  BY <1>5 DEF vars, d1, r2, history, Tokens, RawKeyIsThere, Archiving
<1>. QED
  BY <1>1, <1>2, <1>3, <1>4, <1>5 DEF Next

\* Before the first pass there is no token.
LEMMA InitTokens == Init => Tokens
<1> SUFFICES ASSUME Init PROVE Tokens
  OBVIOUS
<1>1. \A w \in Workers : pc[w] = "idle"
  BY DEF Init
<1>2. rawKey = NoPass /\ rawKey <= passes
  BY Numbers DEF Init
<1>. QED
  BY <1>1, <1>2 DEF Tokens, RawKeyIsThere, Archiving, PassStages

\* However many requests archive the message at once, and whichever of their calls
\* throw, the raw message the row names is in R2: the catch of archiveOutgoing deletes
\* the object of its own pass only.  It may be missing only if the UPDATE that wrote the
\* key threw although it was applied.
THEOREM RawKeyKept == Spec => []RawKeyIsThere
<1>1. Init => Tokens
  BY InitTokens
<1>2. Tokens => RawKeyIsThere
  BY DEF Tokens
<1>3. TypeOK /\ Tokens /\ [Next]_vars => Tokens'
  BY TokensStep
<1>. QED
  BY <1>1, <1>2, <1>3, TypeCorrect, PTL DEF Spec

-----------------------------------------------------------------------------
(***************************************************************************)
(* While no two passes have overlapped: the one running pass owns the      *)
(* attachments from the moment it has cleared them, and an archived        *)
(* message is complete.  No pass runs then, except one whose UPDATE was    *)
(* applied and threw, and it writes no more.                               *)
(***************************************************************************)
Alone == \A v, w \in Workers : Archiving(v) /\ Archiving(w) => v = w

Complete == rawKey \in rawObjects \union misjudged /\ \E p \in attObjects : attRows = {p}

Ending(w) == pc[w] \in {"undo", "fail"} /\ pass[w] \in misjudged

Progress(w) ==
  /\ pc[w] \in {"put", "insert"} => attRows = {}
  /\ pc[w] = "insert" => pass[w] \in attObjects
  /\ pc[w] \in {"raw", "update"} => attRows = {pass[w]} /\ pass[w] \in attObjects

Lone ==
  /\ Alone
  /\ archive = "archived" => Complete /\ \A w \in Workers : Archiving(w) => Ending(w)
  /\ \A w \in Workers : Progress(w)

\* A step of the one pass keeps Lone if it leaves its own request in order and, when it
\* marks the message archived, leaves it complete and is the pass's last that writes.
LEMMA PassKept ==
  ASSUME TypeOK, Lone, NEW w \in Workers, Archiving(w), NEW to \in Stages, Goto(w, to),
         archive' = "archived" => Complete' /\ (to \in PassStages => Ending(w)'),
         to \in {"put", "insert"} => attRows' = {},
         to = "insert" => pass'[w] \in attObjects',
         to \in {"raw", "update"} => attRows' = {pass'[w]} /\ pass'[w] \in attObjects'
  PROVE  Lone'
<1>1. /\ pc'[w] = to
      /\ \A v \in Workers \ {w} : ~Archiving(v) /\ pc'[v] = pc[v]
  BY DEF Lone, Alone, TypeOK, Goto
<1>2. \A v \in Workers : Archiving(v)' => v = w /\ to \in PassStages
  BY <1>1 DEF Archiving
<1>3. \A v \in Workers : Progress(v)'
  <2>1. Progress(w)'
    BY <1>1 DEF Progress
  <2>2. \A v \in Workers \ {w} : Progress(v)'
    BY <1>1 DEF Progress, Archiving, PassStages
  <2>. QED
    BY <2>1, <2>2
<1>. QED
  BY <1>2, <1>3 DEF Lone, Alone

\* Before its UPDATE is applied, a lone pass finds the message not archived.
LEMMA NotYetArchived ==
  ASSUME Lone, NEW w \in Workers, Archiving(w), pc[w] \notin {"undo", "fail"}
  PROVE  archive # "archived"
  BY DEF Lone, Ending

\* A step outside the passes changes nothing in D1 and R2: it keeps Lone.
LEMMA OutsideKept ==
  ASSUME TypeOK, Lone, NEW w \in Workers, NEW to \in Stages \ PassStages, Goto(w, to),
         \A v \in Workers \ {w} : pass'[v] = pass[v],
         UNCHANGED <<d1, r2, misjudged>>
  PROVE  Lone'
<1>1. /\ pc'[w] = to
      /\ \A v \in Workers \ {w} : pc'[v] = pc[v]
  BY DEF TypeOK, Goto
<1>2. \A v \in Workers : Archiving(v)' => Archiving(v) /\ pc'[v] = pc[v] /\ pass'[v] = pass[v]
  BY <1>1 DEF Archiving
<1>3. Alone' /\ (archive' = "archived" => Complete' /\ \A v \in Workers : Archiving(v)' => Ending(v)')
  BY <1>2 DEF Lone, Alone, Complete, Ending, d1, r2
<1>4. \A v \in Workers : Progress(v)'
  <2>1. Progress(w)'
    BY <1>1 DEF Progress, PassStages
  <2>2. \A v \in Workers \ {w} : Progress(v)'
    BY <1>1 DEF Lone, Progress, d1, r2
  <2>. QED
    BY <2>1, <2>2
<1>. QED
  BY <1>3, <1>4 DEF Lone

\* Passes that have overlapped have overlapped for good, and so has an UPDATE been misjudged.
LEMMA HistoryKept ==
  ASSUME TypeOK, [Next]_vars
  PROVE  (overlapped => overlapped') /\ misjudged \subseteq misjudged'
<1>1. ASSUME NEW w \in Workers, Begin(w) \/ UpdateThrows(w)
      PROVE  (overlapped => overlapped') /\ misjudged \subseteq misjudged'
  <2>1. CASE Begin(w)
    <3>1. overlapped' = (overlapped \/ Overlaps) /\ misjudged' = misjudged
      BY <2>1 DEF Begin
    <3>. QED
      BY <3>1
  <2>2. CASE UpdateThrows(w)
    BY <2>2 DEF UpdateThrows
  <2>. QED
    BY <1>1, <2>1, <2>2
<1>2. ASSUME NEW w \in Workers,
             \/ Find(w) \/ ListAttachments(w) \/ DeleteObjects(w) \/ DeleteRows(w)
             \/ PutObjects(w) \/ InsertRows(w) \/ PutRaw(w) \/ UpdateRow(w) \/ Send(w)
             \/ InsertThrows(w) \/ DiscardRaw(w) \/ CallThrows(w) \/ MarkFailed(w) \/ Die(w)
             \/ Retry(w) \/ GetRaw(w) \/ SelectRows(w) \/ GetAttachments(w)
      PROVE  overlapped' = overlapped /\ misjudged' = misjudged
  BY <1>2 DEF Find, ListAttachments, DeleteObjects, DeleteRows, PutObjects, InsertRows, PutRaw,
              UpdateRow, Send, InsertThrows, DiscardRaw, CallThrows, MarkFailed, Die, Retry,
              GetRaw, SelectRows, GetAttachments, history
<1>3. CASE UNCHANGED vars
  BY <1>3 DEF vars, history
<1>. QED
  BY <1>1, <1>2, <1>3 DEF Next

\* Every step that does not make passes overlap keeps Lone.
LEMMA LoneStep ==
  TypeOK /\ Tokens /\ (~overlapped => Lone) /\ [Next]_vars => (~overlapped => Lone)'
<1> SUFFICES ASSUME TypeOK, Tokens, ~overlapped => Lone, [Next]_vars, ~overlapped'
             PROVE  Lone'
  OBVIOUS
<1>1. Lone
  BY HistoryKept
<1>2. ASSUME NEW w \in Workers, Begin(w)
      PROVE  Lone'
  <2>1. /\ archive # "archived" /\ archive' = archive
        /\ pc' = [pc EXCEPT ![w] = "list"]
        /\ \A v \in Workers : ~Archiving(v)
    BY <1>2 DEF Begin, Overlaps, Goto, d1
  <2>2. pc'[w] = "list" /\ \A v \in Workers \ {w} : pc'[v] = pc[v] /\ ~Archiving(v)'
    BY <2>1 DEF TypeOK, Archiving
  <2>3. \A v \in Workers : Progress(v)'
    BY <2>2 DEF Progress, Archiving, PassStages
  <2>4. Alone'
    BY <2>2 DEF Alone
  <2>. QED
    BY <2>1, <2>3, <2>4 DEF Lone
<1>3. ASSUME NEW w \in Workers, ListAttachments(w) \/ DeleteObjects(w) \/ CallThrows(w)
      PROVE  Lone'
  <2>1. PICK to \in {"clear", "unlink", "fail"} : Archiving(w) /\ Goto(w, to)
    BY <1>3 DEF ListAttachments, DeleteObjects, CallThrows, Move, Archiving, PassStages
  <2>2. archive' = archive /\ archive # "archived"
    <3>1. archive' = archive /\ pc[w] \notin {"undo", "fail"}
      BY <1>3 DEF ListAttachments, DeleteObjects, CallThrows, Move, ObjectsDeleted, RowsDeleted,
                  ObjectsPut, RawPut, d1
    <3>. QED
      BY <1>1, <2>1, <3>1, NotYetArchived
  <2>3. to \in Stages
    BY DEF Stages
  <2>. QED
    BY <1>1, <2>1, <2>2, <2>3, PassKept
<1>4. ASSUME NEW w \in Workers, DeleteRows(w) \/ PutObjects(w) \/ InsertRows(w) \/ PutRaw(w)
      PROVE  Lone'
  <2>1. archive' = archive /\ archive # "archived" /\ Archiving(w)
    <3>1. archive' = archive /\ Archiving(w) /\ pc[w] \notin {"undo", "fail"}
      BY <1>4 DEF DeleteRows, PutObjects, InsertRows, PutRaw, Move, RowsDeleted, ObjectsPut,
                  RawPut, d1, Archiving, PassStages
    <3>. QED
      BY <1>1, <3>1, NotYetArchived
  <2>2. Progress(w)
    BY <1>1 DEF Lone
  <2>3. CASE DeleteRows(w)
    <3>1. Goto(w, "put") /\ attRows' = {}
      BY <2>3 DEF DeleteRows, Move, RowsDeleted
    <3>. QED
      BY <1>1, <2>1, <3>1, PassKept DEF Stages
  <2>4. CASE PutObjects(w)
    <3>1. Goto(w, "insert") /\ attRows' = {} /\ pass'[w] \in attObjects'
      BY <2>2, <2>4 DEF PutObjects, Move, ObjectsPut, d1, Progress
    <3>. QED
      BY <1>1, <2>1, <3>1, PassKept DEF Stages
  <2>5. CASE InsertRows(w)
    <3>1. Goto(w, "raw") /\ attRows' = {pass'[w]} /\ pass'[w] \in attObjects'
      BY <2>2, <2>5 DEF InsertRows, Move, r2, Progress
    <3>. QED
      BY <1>1, <2>1, <3>1, PassKept DEF Stages
  <2>6. CASE PutRaw(w)
    <3>1. Goto(w, "update") /\ attRows' = {pass'[w]} /\ pass'[w] \in attObjects'
      BY <2>2, <2>6 DEF PutRaw, Move, RawPut, d1, Progress
    <3>. QED
      BY <1>1, <2>1, <3>1, PassKept DEF Stages
  <2>. QED
    BY <1>4, <2>3, <2>4, <2>5, <2>6
<1>5. ASSUME NEW w \in Workers, UpdateRow(w) \/ UpdateThrows(w)
      PROVE  Lone'
  <2>1. /\ pc[w] = "update" /\ Archiving(w) /\ pass' = pass
        /\ UNCHANGED <<attRows, attObjects, rawObjects>>
    BY <1>5 DEF UpdateRow, UpdateThrows, Move, Archiving, PassStages, r2
  <2>2. archive # "archived"
    BY <1>1, <2>1, NotYetArchived
  <2>3. /\ attRows' = {pass[w]} /\ pass[w] \in attObjects' /\ pass[w] \in rawObjects'
    BY <1>1, <2>1 DEF Lone, Progress, Tokens
  <2>4. CASE UpdateRow(w)
    <3>1. Goto(w, "send") /\ rawKey' = pass[w]
      BY <2>4 DEF UpdateRow, Move, RawKey
    <3>2. Complete'
      BY <2>3, <3>1 DEF Complete
    <3>. QED
      BY <1>1, <2>1, <3>1, <3>2, PassKept DEF Stages, PassStages
  <2>5. CASE UpdateThrows(w)
    <3>1. Goto(w, "undo") /\ pc'[w] = "undo"
      BY <2>5 DEF UpdateThrows, Move, Goto, TypeOK
    <3>2. archive' = "archived" => rawKey' = pass[w] /\ pass[w] \in misjudged'
      BY <2>2, <2>5 DEF UpdateThrows, RawKey
    <3>3. archive' = "archived" => Complete' /\ Ending(w)'
      BY <2>1, <2>3, <3>1, <3>2 DEF Complete, Ending
    <3>. QED
      BY <1>1, <2>1, <3>1, <3>3, PassKept DEF Stages
  <2>. QED
    BY <1>5, <2>4, <2>5
<1>6. ASSUME NEW w \in Workers, InsertThrows(w)
      PROVE  Lone'
  <2>1. Archiving(w) /\ Goto(w, "fail") /\ archive' = archive /\ pc[w] \notin {"undo", "fail"}
    BY <1>6 DEF InsertThrows, Move, Archiving, PassStages
  <2>2. archive # "archived"
    BY <1>1, <2>1, NotYetArchived
  <2>. QED
    BY <1>1, <2>1, <2>2, PassKept DEF Stages
<1>7. ASSUME NEW w \in Workers, DiscardRaw(w)
      PROVE  Lone'
  <2>1. /\ pc[w] = "undo" /\ Archiving(w) /\ Goto(w, "fail") /\ pc'[w] = "fail" /\ pass' = pass
        /\ UNCHANGED <<d1, attObjects, misjudged>>
        /\ rawObjects \ {pass[w]} \subseteq rawObjects'
    BY <1>7 DEF DiscardRaw, Move, Goto, Archiving, PassStages, RawKey, history, TypeOK
  <2>2. archive' = "archived" => Complete /\ Ending(w)
    BY <1>1, <2>1 DEF Lone, d1
  <2>3. archive' = "archived" => Complete' /\ Ending(w)'
    BY <2>1, <2>2 DEF Complete, Ending, d1
  <2>. QED
    BY <1>1, <2>1, <2>3, PassKept DEF Stages
<1>8. ASSUME NEW w \in Workers, MarkFailed(w)
      PROVE  Lone'
  <2>1. Archiving(w) /\ Goto(w, "idle") /\ archive' = "failed"
    BY <1>8 DEF MarkFailed, Leave, Archiving, PassStages
  <2>. QED
    BY <1>1, <2>1, PassKept DEF Stages
<1>9. ASSUME NEW w \in Workers, \/ Send(w) \/ Die(w) \/ GetAttachments(w) \/ Find(w) \/ Retry(w)
                                \/ GetRaw(w) \/ SelectRows(w)
      PROVE  Lone'
  <2>1. PICK to \in {"idle", "found", "getRaw", "select", "getAttachments"} : Goto(w, to)
    BY <1>9 DEF Send, Die, GetAttachments, Find, Retry, GetRaw, SelectRows, Move, Leave
  <2>2. /\ UNCHANGED <<d1, r2, misjudged>>
        /\ \A v \in Workers \ {w} : pass'[v] = pass[v]
    BY <1>9 DEF Send, Die, GetAttachments, Find, Retry, GetRaw, SelectRows, Move, Leave, TypeOK,
                history
  <2>. QED
    BY <1>1, <2>1, <2>2, OutsideKept DEF Stages, PassStages
<1>10. CASE UNCHANGED vars
  BY <1>1, <1>10 DEF vars, d1, r2, history, Lone, Alone, Complete, Ending, Progress, Archiving
<1>. QED
  BY <1>2, <1>3, <1>4, <1>5, <1>6, <1>7, <1>8, <1>9, <1>10 DEF Next

\* While no two passes have overlapped, Lone holds.
LEMMA LoneHolds == Spec => [](~overlapped => Lone)
<1>1. Init => Tokens
  BY InitTokens
<1>2. Init => Lone
  BY DEF Init, Lone, Alone, Complete, Progress, Archiving, PassStages
<1>. QED
  BY <1>1, <1>2, TokensStep, LoneStep, TypeCorrect, PTL DEF Spec

\* A message marked archived is complete, however often its archive failed, was cut
\* short and was begun again one after the other: deleteOutgoingAttachments removes what
\* an earlier pass left before the next one inserts.  Only the raw message may be missing,
\* after an UPDATE that threw although it was applied.
THEOREM ArchiveComplete == Spec => []ArchivedIsComplete
<1>1. (~overlapped => Lone) => ArchivedIsComplete
  BY DEF Lone, Complete, ArchivedIsComplete
<1>. QED
  BY <1>1, LoneHolds, PTL

-----------------------------------------------------------------------------
(***************************************************************************)
(* While, besides, no UPDATE was applied that threw: whoever reads an      *)
(* archived message finds one set of attachments, since no pass runs.      *)
(***************************************************************************)
Reading(w) == pc[w] \in {"getRaw", "select", "getAttachments"}

Readers ==
  /\ \A w \in Workers : Reading(w) => archive = "archived"
  /\ \A w \in Workers : pc[w] = "getAttachments" => \E p \in Passes : listed[w] = {p}
  /\ handed \subseteq {1}

Calm == ~overlapped /\ misjudged = {}

\* Every step that leaves the passes apart and judged aright keeps Readers.
LEMMA ReadersStep ==
  TypeOK /\ (~overlapped => Lone) /\ (Calm => Readers) /\ [Next]_vars => (Calm => Readers)'
<1> SUFFICES ASSUME TypeOK, ~overlapped => Lone, Calm => Readers, [Next]_vars, Calm'
             PROVE  Readers'
  OBVIOUS
<1>1. Lone /\ Readers /\ misjudged = {}
  BY HistoryKept DEF Calm
<1>2. ASSUME NEW w \in Workers, archive # "archived",
             \A v \in Workers \ {w} : pc'[v] = pc[v],
             ~Reading(w)', handed' = handed
      PROVE  Readers'
  <2>1. \A v \in Workers : ~Reading(v)'
    BY <1>1, <1>2 DEF Readers, Reading
  <2>. QED
    BY <1>1, <1>2, <2>1 DEF Readers, Reading
<1>3. ASSUME NEW w \in Workers,
             \/ ListAttachments(w) \/ DeleteObjects(w) \/ DeleteRows(w) \/ PutObjects(w)
             \/ InsertRows(w) \/ PutRaw(w) \/ UpdateRow(w) \/ InsertThrows(w) \/ UpdateThrows(w)
             \/ DiscardRaw(w) \/ CallThrows(w) \/ MarkFailed(w)
      PROVE  Readers'
  <2>1. PICK to \in PassStages \union {"send", "idle"} : Archiving(w) /\ Goto(w, to)
    BY <1>3 DEF ListAttachments, DeleteObjects, DeleteRows, PutObjects, InsertRows, PutRaw,
                UpdateRow, InsertThrows, UpdateThrows, DiscardRaw, CallThrows, MarkFailed, Move,
                Leave, Archiving, PassStages
  <2>2. pc'[w] = to /\ \A v \in Workers \ {w} : pc'[v] = pc[v]
    BY <2>1 DEF Goto, TypeOK
  <2>3. archive # "archived"
    BY <1>1, <2>1 DEF Lone, Ending
  <2>4. handed' = handed
    BY <1>3 DEF ListAttachments, DeleteObjects, DeleteRows, PutObjects, InsertRows, PutRaw,
                UpdateRow, InsertThrows, UpdateThrows, DiscardRaw, CallThrows, MarkFailed, history
  <2>5. ~Reading(w)'
    BY <2>2 DEF Reading, PassStages
  <2>. QED
    BY <1>2, <2>2, <2>3, <2>4, <2>5
<1>4. ASSUME NEW w \in Workers, Begin(w)
      PROVE  Readers'
  <2>1. archive # "archived" /\ handed' = handed
    BY <1>4 DEF Begin, Overlaps, Calm
  <2>2. pc'[w] = "list" /\ \A v \in Workers \ {w} : pc'[v] = pc[v]
    BY <1>4 DEF Begin, Goto, TypeOK
  <2>. QED
    BY <1>2, <2>1, <2>2 DEF Reading
<1>5. ASSUME NEW w \in Workers, NEW to \in Stages, Goto(w, to), archive' = archive,
             \A v \in Workers \ {w} : listed'[v] = listed[v],
             to \in {"getRaw", "select", "getAttachments"} => archive = "archived",
             to = "getAttachments" => \E p \in Passes : listed'[w] = {p},
             handed' \subseteq {1}
      PROVE  Readers'
  <2>1. pc'[w] = to /\ \A v \in Workers \ {w} : pc'[v] = pc[v]
    BY <1>5 DEF Goto, TypeOK
  <2>. QED
    BY <1>1, <1>5, <2>1 DEF Readers, Reading
<1>6. ASSUME NEW w \in Workers, Send(w) \/ Die(w) \/ Find(w) \/ Retry(w) \/ GetRaw(w)
      PROVE  Readers'
  <2>1. PICK to \in {"idle", "found", "getRaw", "select"} : Goto(w, to)
    BY <1>6 DEF Send, Die, Find, Retry, GetRaw, Move, Leave
  <2>2. /\ archive' = archive /\ handed' = handed
        /\ \A v \in Workers \ {w} : listed'[v] = listed[v]
    BY <1>6 DEF Send, Die, Find, Retry, GetRaw, Move, Leave, d1, history, TypeOK
  <2>3. to \in {"getRaw", "select"} => archive = "archived"
    <3>1. CASE Retry(w)
      BY <3>1 DEF Retry
    <3>2. CASE GetRaw(w)
      BY <1>1, <3>2 DEF GetRaw, Readers, Reading
    <3>3. CASE Send(w) \/ Die(w) \/ Find(w)
      <4>1. pc'[w] = to /\ pc'[w] \in {"idle", "found"}
        BY <2>1, <3>3 DEF Send, Die, Find, Move, Leave, Goto, TypeOK
      <4>. QED
        BY <4>1
    <3>. QED
      BY <1>6, <3>1, <3>2, <3>3
  <2>4. handed' \subseteq {1} /\ to \in Stages
    BY <1>1, <2>2 DEF Readers, Stages
  <2>. QED
    BY <1>5, <2>1, <2>2, <2>3, <2>4
<1>7. ASSUME NEW w \in Workers, SelectRows(w)
      PROVE  Readers'
  <2>1. /\ Goto(w, "getAttachments") /\ archive' = archive /\ handed' = handed
        /\ \A v \in Workers \ {w} : listed'[v] = listed[v]
        /\ listed'[w] = attRows
    BY <1>7 DEF SelectRows, TypeOK, d1, history
  <2>2. handed' \subseteq {1} /\ archive = "archived"
    BY <1>1, <1>7, <2>1 DEF SelectRows, Readers, Reading
  <2>3. \E p \in Passes : listed'[w] = {p}
    BY <1>1, <2>1, <2>2 DEF Lone, Complete, TypeOK
  <2>. QED
    BY <1>5, <2>1, <2>2, <2>3 DEF Stages
<1>8. ASSUME NEW w \in Workers, GetAttachments(w)
      PROVE  Readers'
  <2>1. PICK p \in Passes : listed[w] = {p}
    BY <1>1, <1>8 DEF GetAttachments, Readers
  <2>2. Cardinality(listed[w]) = 1
    BY <2>1, FS_Singleton
  <2>3. handed' \subseteq {1}
    BY <1>1, <1>8, <2>2 DEF GetAttachments, Readers
  <2>4. /\ Goto(w, "idle") /\ archive' = archive
        /\ \A v \in Workers \ {w} : listed'[v] = listed[v]
    BY <1>8 DEF GetAttachments, Leave, TypeOK, d1
  <2>. QED
    BY <1>5, <2>3, <2>4 DEF Stages
<1>9. CASE UNCHANGED vars
  BY <1>1, <1>9 DEF vars, d1, history, Readers, Reading
<1>. QED
  BY <1>3, <1>4, <1>6, <1>7, <1>8, <1>9 DEF Next

\* A retried message carries its attachments, once: storedSendPlan finds one row with
\* its object, unless passes overlapped or an UPDATE that threw was applied.
THEOREM RetriesWhole == Spec => []RetriesSendWhole
<1>1. Init => (Calm => Readers)
  BY DEF Init, Readers, Reading
<1>2. (Calm => Readers) => RetriesSendWhole
  BY DEF Calm, Readers, RetriesSendWhole
<1>. QED
  BY <1>1, <1>2, ReadersStep, LoneHolds, TypeCorrect, PTL DEF Spec
=============================================================================
