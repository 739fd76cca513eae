------------------------- MODULE ThreadStoreProofs -------------------------
(***************************************************************************)
(* Module ThreadStore implements module MessageStore, and the summaries it *)
(* keeps are true, for any number of messages and threads and any bounds.  *)
(***************************************************************************)
EXTENDS ThreadStore, TLAPS, WellFoundedInduction, FiniteSetTheorems

\* The threads and the deleters.
LEMMA Constants == NoThread \notin Threads /\ Cron # Console
BY ThreadAssumption

-----------------------------------------------------------------------------
(* Types *)

Steps == {"new", "put", "claim", "ensure", "insert", "archive", "link", "refresh", "done"}
Rows == [thread : Threads \union {NoThread}, direction : {"none", "incoming", "outgoing"},
         read : BOOLEAN, age : Nat, keyed : BOOLEAN]
Jobs == [at : {"none", "erase", "forget", "drop"}, thread : Threads \union {NoThread},
         keys : SUBSET Messages]

\* The types of what the refinement looks at.
StoreTypes ==
  /\ messages \in [Messages -> Rows]
  /\ objects \subseteq Messages
  /\ at \in [Messages -> Steps]
  /\ to \in [Messages -> Threads \union {NoThread}]
  /\ job \in [Deleters -> Jobs]
  /\ run \in [phase : {"none", "expired", "trash"}, todo : SUBSET Threads]

\* No message, no deletion.
LEMMA NothingTyped == NoRow \in Rows /\ NoJob \in Jobs
BY DEF NoRow, Rows, NoJob, Jobs

LEMMA TypesInit == Init => StoreTypes
BY NothingTyped DEF Init, StoreTypes, Steps, NoRun

\* A deletion that ends leaves no job.
LEMMA FinishTyped ==
  ASSUME StoreTypes, NEW d \in Deleters, Finish(d)
  PROVE  job' \in [Deleters -> Jobs] /\ job'[d] = NoJob /\ \A e \in Deleters \ {d} : job'[e] = job[e]
BY NothingTyped DEF StoreTypes, Finish

-----------------------------------------------------------------------------
(* Receiving and sending *)

\* A message has no row before it is claimed or inserted, a thread to go to by then, and its
\* row names a raw object only when the object is there to stay.
Position(m) ==
  /\ at[m] \in {"new", "put", "claim", "insert"} => messages[m].thread = NoThread
  /\ at[m] \in {"put", "claim", "insert"} => to[m] \in Threads
  /\ messages[m].keyed => at[m] \in {"ensure", "refresh", "done"}

Positions == \A m \in Messages : Position(m)

Act(m) == Invocation(m) \/ \E t \in Threads : Receive(m, t) \/ Send(m, t)

\* What the step of an invocation does to its row and its object: nothing, it writes the
\* object, it takes back the object of a message without a row, or it writes the row.
Did(m) ==
  \/ /\ messages'[m].thread = messages[m].thread
     /\ objects' = objects
  \/ /\ messages'[m].thread = messages[m].thread
     /\ objects' = objects \union {m}
     /\ at[m] \in {"put", "archive"}
  \/ /\ messages'[m].thread = messages[m].thread
     /\ messages[m].thread = NoThread
     /\ objects' = objects \ {m}
  \/ /\ messages[m].thread = NoThread
     /\ messages'[m].thread \in Threads
     /\ objects' = objects

\* A step of an invocation is about its own message.
LEMMA ActIsLocal ==
  ASSUME StoreTypes, NEW m \in Messages, Act(m)
  PROVE  /\ job' = job /\ run' = run
         /\ at' = [at EXCEPT ![m] = at'[m]] /\ to' = [to EXCEPT ![m] = to'[m]]
         /\ messages' = [messages EXCEPT ![m] = messages'[m]]
         /\ \A n \in Messages \ {m} : messages'[n] = messages[n] /\ at'[n] = at[n] /\ to'[n] = to[n]
<1>1. job' = job /\ run' = run
  BY DEF Act, Invocation, Receive, Send, Put, Claim, ClaimFails, PutFails, Ensure, Insert,
         InsertFails, ArchiveRaw, Link, Refresh, Stop, Step, others
<1>2. /\ at' = [at EXCEPT ![m] = at'[m]]
      /\ to' = [to EXCEPT ![m] = to'[m]]
  BY DEF StoreTypes, Act, Invocation, Receive, Send, Put, Claim, ClaimFails, PutFails, Ensure, Insert,
         InsertFails, ArchiveRaw, Link, Refresh, Stop, Step, Goto, Leave
<1>3. messages' = [messages EXCEPT ![m] = messages'[m]]
  <2>1. CASE messages' = messages
    BY <2>1 DEF StoreTypes
  <2>2. CASE Claim(m)
    BY <2>2 DEF StoreTypes, Claim
  <2>3. CASE Insert(m)
    BY <2>3 DEF StoreTypes, Insert
  <2>4. CASE Link(m)
    BY <2>4 DEF StoreTypes, Link
  <2>. QED
    BY <2>1, <2>2, <2>3, <2>4
       DEF Act, Invocation, Receive, Send, Put, ClaimFails, PutFails, Ensure, InsertFails,
           ArchiveRaw, Refresh, Stop
<1>. QED
  BY <1>1, <1>2, <1>3 DEF StoreTypes

\* Where the steps lead, and what they do.
LEMMA ActDoes ==
  ASSUME StoreTypes, Positions, NEW m \in Messages, Act(m)
  PROVE  /\ messages'[m] \in Rows /\ at'[m] \in Steps /\ to'[m] \in Threads \union {NoThread}
         /\ Position(m)' /\ Did(m)
         /\ at[m] \in {"ensure", "refresh", "done"} => at'[m] \in {"ensure", "refresh", "done"}
<1>0. /\ messages[m] \in Rows /\ at[m] \in Steps /\ to[m] \in Threads \union {NoThread} /\ Position(m)
      /\ messages \in [Messages -> Rows] /\ at \in [Messages -> Steps]
      /\ to \in [Messages -> Threads \union {NoThread}]
  BY DEF StoreTypes, Positions
<1>1. CASE (\E t \in Threads : Receive(m, t) \/ Send(m, t))
  <2>1. /\ messages' = messages /\ objects' = objects /\ at[m] = "new" /\ at'[m] \in {"put", "insert"}
        /\ to'[m] \in Threads
    BY <1>0, <1>1 DEF Receive, Send, Goto
  <2>. QED
    BY <1>0, <2>1 DEF Position, Did, Steps
<1>2. CASE Put(m) \/ ArchiveRaw(m)
  <2>1. /\ messages' = messages /\ objects' = objects \union {m} /\ to' = to
        /\ \/ at[m] = "put" /\ at'[m] = "claim"
           \/ at[m] = "archive" /\ at'[m] = "link"
    BY <1>0, <1>2 DEF Put, ArchiveRaw, Step, Goto
  <2>. QED
    BY <1>0, <2>1 DEF Position, Did, Steps
<1>3. CASE Claim(m)
  <2>. DEFINE row == [thread |-> to[m], direction |-> "incoming", read |-> FALSE, age |-> 0, keyed |-> TRUE]
  <2>1. at[m] = "claim" /\ at'[m] = "ensure" /\ to' = to /\ objects' = objects /\ messages'[m] = row
    BY <1>0, <1>3 DEF Claim, Step, Goto
  <2>2. row \in Rows /\ row.thread = to[m]
    BY <1>0 DEF Rows
  <2>. HIDE DEF row
  <2>. QED
    BY <1>0, <2>1, <2>2 DEF Position, Did, Steps
<1>4. CASE Insert(m)
  <2>. DEFINE row == [thread |-> to[m], direction |-> "outgoing", read |-> TRUE, age |-> 0, keyed |-> FALSE]
  <2>1. at[m] = "insert" /\ at'[m] = "archive" /\ to' = to /\ objects' = objects /\ messages'[m] = row
    BY <1>0, <1>4 DEF Insert, Step, Goto
  <2>2. row \in Rows /\ row.thread = to[m] /\ row.keyed = FALSE
    BY <1>0 DEF Rows
  <2>. HIDE DEF row
  <2>. QED
    BY <1>0, <2>1, <2>2 DEF Position, Did, Steps
<1>5. CASE Link(m)
  <2>1. /\ at[m] = "link" /\ at'[m] = "refresh" /\ to' = to /\ objects' = objects
        /\ messages'[m] = [messages[m] EXCEPT !.keyed = messages[m].thread # NoThread]
    BY <1>0, <1>5 DEF Link, Step, Goto
  <2>2. messages'[m] \in Rows /\ messages'[m].thread = messages[m].thread
    BY <1>0, <2>1 DEF Rows
  <2>. QED
    BY <1>0, <2>1, <2>2 DEF Position, Did, Steps
<1>6. CASE Ensure(m)
  <2>1. /\ messages' = messages /\ objects' = objects /\ to' = to /\ at[m] = "ensure" /\ at'[m] = "refresh"
    BY <1>0, <1>6 DEF Ensure, Step, Goto
  <2>. QED
    BY <1>0, <2>1 DEF Position, Did, Steps
<1>7. CASE ClaimFails(m)
  <2>1. /\ messages' = messages /\ objects' = objects \ {m} /\ at[m] = "claim" /\ at'[m] = "done"
        /\ to'[m] = NoThread
    BY <1>0, <1>7 DEF ClaimFails, Leave, Goto
  <2>. QED
    BY <1>0, <2>1 DEF Position, Did, Steps
<1>8. CASE PutFails(m) \/ InsertFails(m) \/ Refresh(m) \/ Stop(m)
  <2>1. messages' = messages /\ objects' = objects /\ at'[m] = "done" /\ to'[m] = NoThread
    BY <1>0, <1>8 DEF PutFails, InsertFails, Refresh, Stop, Leave, Goto
  <2>. QED
    BY <1>0, <2>1 DEF Position, Did, Steps
<1>. QED
  BY <1>1, <1>2, <1>3, <1>4, <1>5, <1>6, <1>7, <1>8 DEF Act, Invocation

-----------------------------------------------------------------------------
(* Deletions *)

\* A deletion has a thread; the objects it listed are of messages that will not be written
\* again, and they are gone when the rows go.
JobOK(d) ==
  /\ job[d].at = "none" => job[d] = NoJob
  /\ job[d].at # "none" => job[d].thread \in Threads
  /\ \A m \in job[d].keys : at[m] \in {"ensure", "refresh", "done"}
  /\ job[d].at \in {"forget", "drop"} => job[d].keys \intersect objects = {}

StoreInv == StoreTypes /\ Positions /\ \A d \in Deleters : JobOK(d)

\* Steps of the invocations keep it.
LEMMA ActKeeps ==
  ASSUME StoreInv, NEW m \in Messages, Act(m)
  PROVE  StoreInv'
<1>1. /\ job' = job /\ run' = run
      /\ \A n \in Messages \ {m} : messages'[n] = messages[n] /\ at'[n] = at[n] /\ to'[n] = to[n]
  BY ActIsLocal DEF StoreInv
<1>2. /\ messages'[m] \in Rows /\ at'[m] \in Steps /\ to'[m] \in Threads \union {NoThread}
      /\ Position(m)' /\ Did(m)
      /\ at[m] \in {"ensure", "refresh", "done"} => at'[m] \in {"ensure", "refresh", "done"}
  BY ActDoes DEF StoreInv
<1>3. StoreTypes'
  <2>1. /\ at' = [at EXCEPT ![m] = at'[m]] /\ to' = [to EXCEPT ![m] = to'[m]]
        /\ messages' = [messages EXCEPT ![m] = messages'[m]]
    BY ActIsLocal DEF StoreInv
  <2>2. objects' \subseteq Messages
    BY <1>2 DEF StoreInv, StoreTypes, Did
  <2>. QED
    BY <1>1, <1>2, <2>1, <2>2 DEF StoreInv, StoreTypes
<1>4. Positions'
  BY <1>1, <1>2 DEF StoreInv, Positions, Position
<1>5. ASSUME NEW d \in Deleters
      PROVE  JobOK(d)'
  <2>1. job[d].keys \subseteq Messages
    BY DEF StoreInv, StoreTypes, Jobs
  <2>2. \A n \in job[d].keys : at'[n] \in {"ensure", "refresh", "done"}
    BY <1>1, <1>2, <2>1 DEF StoreInv, JobOK
  <2>3. objects' \subseteq objects \union {m} /\ (m \in objects' \ objects => at[m] \in {"put", "archive"})
    BY <1>2 DEF Did
  <2>4. job[d].keys \intersect objects' \subseteq job[d].keys \intersect objects
    BY <2>3 DEF StoreInv, JobOK
  <2>. QED
    BY <1>1, <2>2, <2>4 DEF StoreInv, JobOK
<1>. QED
  BY <1>3, <1>4, <1>5 DEF StoreInv

\* So do the console's requests and the days, which leave the invocations, the objects and the
\* deletions alone.
Elsewhere ==
  \/ \E t \in Threads : \/ \E status \in Statuses : setThreadStatus(t, status)
                        \/ \E read \in BOOLEAN : markThread(t, read)
  \/ Marked
  \/ Day

LEMMA ElsewhereDoes ==
  ASSUME StoreTypes, Elsewhere
  PROVE  /\ UNCHANGED <<objects, at, to, job, run>>
         /\ messages' \in [Messages -> Rows]
         /\ \A m \in Messages : messages'[m].thread = messages[m].thread
                                /\ messages'[m].keyed = messages[m].keyed
<1>1. UNCHANGED <<objects, at, to, job, run>>
  BY DEF Elsewhere, setThreadStatus, markThread, Marked, Day
<1>2. ASSUME NEW t \in Threads, NEW read \in BOOLEAN, markThread(t, read)
      PROVE  /\ messages' \in [Messages -> Rows]
             /\ \A m \in Messages : messages'[m].thread = messages[m].thread
                                    /\ messages'[m].keyed = messages[m].keyed
  <2>1. messages' = [m \in Messages |->
                    IF m \in Incoming(t) THEN [messages[m] EXCEPT !.read = read] ELSE messages[m]]
    BY <1>2 DEF markThread
  <2>. QED
    BY <2>1 DEF StoreTypes, Rows
<1>3. CASE Day
  <2>1. messages' = [m \in Messages |-> IF messages[m] = NoRow THEN NoRow
                                        ELSE [messages[m] EXCEPT !.age = Older(@)]]
    BY <1>3 DEF Day
  <2>2. ASSUME NEW m \in Messages
        PROVE  /\ messages'[m] \in Rows
               /\ messages'[m].thread = messages[m].thread /\ messages'[m].keyed = messages[m].keyed
    <3>1. messages[m] \in Rows /\ messages[m].age \in Nat
      BY DEF StoreTypes, Rows
    <3>2. Older(messages[m].age) \in Nat
      BY <3>1 DEF Older
    <3>3. CASE messages[m] = NoRow
      BY <2>1, <3>1, <3>3
    <3>4. CASE messages[m] # NoRow
      <4>1. messages'[m] = [messages[m] EXCEPT !.age = Older(messages[m].age)]
        BY <2>1, <3>4
      <4>. QED
        BY <3>1, <3>2, <4>1 DEF Rows
    <3>. QED
      BY <3>3, <3>4
  <2>. QED
    BY <1>1, <2>1, <2>2
<1>4. CASE messages' = messages
  BY <1>1, <1>4 DEF StoreTypes
<1>. QED
  BY <1>1, <1>2, <1>3, <1>4 DEF Elsewhere, setThreadStatus, Marked

LEMMA ElsewhereKeeps == StoreInv /\ Elsewhere => StoreInv'
BY ElsewhereDoes DEF StoreInv, StoreTypes, Positions, Position, JobOK

\* A deletion lists the objects that the rows of its thread name.
LEMMA ListKeysKeeps ==
  ASSUME StoreInv, NEW d \in Deleters, NEW t \in Threads, ListKeys(d, t),
         run' \in [phase : {"none", "expired", "trash"}, todo : SUBSET Threads]
  PROVE  StoreInv'
<1>. DEFINE keys == {m \in Of(t) : messages[m].keyed}
            listed == [at |-> "erase", thread |-> t, keys |-> keys]
<1>1. keys \subseteq Messages /\ \A m \in keys : at[m] \in {"ensure", "refresh", "done"}
  BY DEF StoreInv, Positions, Position, Of
<1>2. listed \in Jobs /\ listed.at = "erase" /\ listed.thread = t /\ listed.keys = keys
  BY <1>1 DEF Jobs
<1>. HIDE DEF keys, listed
<1>3. job' = [job EXCEPT ![d] = listed] /\ UNCHANGED <<messages, objects, at, to>>
  BY DEF ListKeys, keys, listed
<1>4. StoreTypes' /\ Positions'
  BY <1>2, <1>3 DEF StoreInv, StoreTypes, Positions, Position
<1>5. ASSUME NEW e \in Deleters
      PROVE  JobOK(e)'
  <2>1. CASE e = d
    BY <1>1, <1>2, <1>3, <2>1 DEF StoreInv, StoreTypes, JobOK
  <2>2. CASE e # d
    BY <1>3, <2>2 DEF StoreInv, StoreTypes, JobOK
  <2>. QED
    BY <2>1, <2>2
<1>. QED
  BY <1>4, <1>5 DEF StoreInv

\* The steps of a deletion keep it.
LEMMA DeletionKeeps ==
  ASSUME StoreInv, NEW d \in Deleters, Deletion(d)
  PROVE  StoreInv'
<1>0. StoreTypes /\ job[d] \in Jobs /\ JobOK(d)
  BY DEF StoreInv, StoreTypes
<1>1. /\ at' = at /\ to' = to /\ objects' \subseteq objects
      /\ run' \in {run, NoRun}
  BY DEF Deletion, Erase, EraseFails, ForgetMessages, DropThread, DeletionStops, others
<1>2. /\ messages' \in [Messages -> Rows]
      /\ \A m \in Messages : messages'[m] \in {messages[m], NoRow}
  <2>1. CASE messages' = messages
    BY <1>0, <2>1 DEF StoreTypes
  <2>2. CASE ForgetMessages(d)
    <3>1. messages' = [m \in Messages |-> IF m \in Of(job[d].thread) THEN NoRow ELSE messages[m]]
      BY <2>2 DEF ForgetMessages
    <3>. QED
      BY <1>0, <3>1, NothingTyped DEF StoreTypes
  <2>. QED
    BY <2>1, <2>2 DEF Deletion, Erase, EraseFails, DropThread, DeletionStops
<1>3. /\ job' \in [Deleters -> Jobs] /\ \A e \in Deleters \ {d} : job'[e] = job[e]
      /\ JobOK(d)'
  <2>1. CASE Finish(d)
    <3>1. /\ job' \in [Deleters -> Jobs] /\ job'[d] = NoJob
          /\ \A e \in Deleters \ {d} : job'[e] = job[e]
      BY <1>0, <2>1, FinishTyped
    <3>. QED
      BY <3>1 DEF JobOK, NoJob
  <2>2. CASE Erase(d)
    <3>1. job' = [job EXCEPT ![d].at = "forget"] /\ objects' = objects \ job[d].keys /\ job[d].at = "erase"
      BY <2>2 DEF Erase, Deleting
    <3>2. [job[d] EXCEPT !.at = "forget"] \in Jobs
      BY <1>0 DEF Jobs
    <3>3. /\ job' \in [Deleters -> Jobs] /\ \A e \in Deleters \ {d} : job'[e] = job[e]
          /\ job'[d].at = "forget" /\ job'[d].keys = job[d].keys /\ job'[d].thread = job[d].thread
      BY <1>0, <3>1, <3>2 DEF StoreTypes, Jobs
    <3>. QED
      BY <1>0, <1>1, <3>1, <3>3 DEF JobOK
  <2>3. CASE ForgetMessages(d)
    <3>1. job' = [job EXCEPT ![d].at = "drop"] /\ objects' = objects /\ job[d].at = "forget"
      BY <2>3 DEF ForgetMessages, Deleting
    <3>2. [job[d] EXCEPT !.at = "drop"] \in Jobs
      BY <1>0 DEF Jobs
    <3>3. /\ job' \in [Deleters -> Jobs] /\ \A e \in Deleters \ {d} : job'[e] = job[e]
          /\ job'[d].at = "drop" /\ job'[d].keys = job[d].keys /\ job'[d].thread = job[d].thread
      BY <1>0, <3>1, <3>2 DEF StoreTypes, Jobs
    <3>. QED
      BY <1>0, <1>1, <3>1, <3>3 DEF JobOK
  <2>. QED
    BY <2>1, <2>2, <2>3 DEF Deletion, EraseFails, DropThread, DeletionStops
<1>4. NoRun \in [phase : {"none", "expired", "trash"}, todo : SUBSET Threads]
  BY DEF NoRun
<1>5. StoreTypes'
  BY <1>0, <1>1, <1>2, <1>3, <1>4 DEF StoreTypes
<1>6. Positions'
  <2>1. NoRow.thread = NoThread /\ NoRow.keyed = FALSE
    BY DEF NoRow
  <2>. QED
    BY <1>1, <1>2, <2>1 DEF StoreInv, Positions, Position
<1>7. ASSUME NEW e \in Deleters \ {d}
      PROVE  JobOK(e)'
  BY <1>1, <1>3 DEF StoreInv, JobOK
<1>. QED
  BY <1>3, <1>5, <1>6, <1>7 DEF StoreInv

\* The steps of the scheduled run that choose what to delete.
Selecting == SelectExpired \/ SelectTrash \/ EndRun

LEMMA SelectingDoes ==
  ASSUME StoreInv, Selecting
  PROVE  /\ UNCHANGED <<messages, objects, at, to, job>>
         /\ run' \in [phase : {"none", "expired", "trash"}, todo : SUBSET Threads]
<1>1. CASE SelectExpired
  <2>1. PICK B \in Batch({t \in Threads : Expired(t)}, Last) : run' = [phase |-> "expired", todo |-> B]
    BY <1>1, Zenon DEF SelectExpired
  <2>2. B \subseteq Threads
    BY <2>1 DEF Batch
  <2>. QED
    BY <1>1, <2>1, <2>2 DEF SelectExpired
<1>2. CASE SelectTrash
  <2>1. PICK B \in Batch({t \in Threads : ExpiredTrash(t)}, Updated) : run' = [phase |-> "trash", todo |-> B]
    BY <1>2, Zenon DEF SelectTrash
  <2>2. B \subseteq Threads
    BY <2>1 DEF Batch
  <2>. QED
    BY <1>2, <2>1, <2>2 DEF SelectTrash
<1>3. CASE EndRun
  BY <1>3 DEF EndRun, NoRun
<1>. QED
  BY <1>1, <1>2, <1>3 DEF Selecting

LEMMA SelectingKeeps == StoreInv /\ Selecting => StoreInv'
BY SelectingDoes DEF StoreInv, StoreTypes, Positions, Position, JobOK

\* What the console's request and the scheduled run delete.
LEMMA DeletingBegins ==
  ASSUME StoreInv, (\E t \in Threads : DeleteThread(t)) \/ DeleteNext
  PROVE  \E d \in Deleters, t \in Threads :
           /\ ListKeys(d, t)
           /\ run' \in [phase : {"none", "expired", "trash"}, todo : SUBSET Threads]
<1>0. run \in [phase : {"none", "expired", "trash"}, todo : SUBSET Threads]
  BY DEF StoreInv, StoreTypes
<1>1. CASE (\E t \in Threads : DeleteThread(t))
  BY <1>0, <1>1 DEF DeleteThread, Deleters
<1>2. CASE DeleteNext
  <2>1. PICK t \in run.todo : ListKeys(Cron, t) /\ run' = [run EXCEPT !.todo = @ \ {t}]
    BY <1>2 DEF DeleteNext
  <2>2. t \in Threads /\ Cron \in Deleters
    BY <1>0, <2>1 DEF Deleters
  <2>. QED
    BY <1>0, <2>1, <2>2
<1>. QED
  BY <1>1, <1>2

\* Every step is one of these.
LEMMA NextIs ==
  ASSUME Next
  PROVE  \/ \E m \in Messages : Act(m)
         \/ Elsewhere
         \/ (\E t \in Threads : DeleteThread(t)) \/ DeleteNext
         \/ \E d \in Deleters : Deletion(d)
         \/ Selecting
BY DEF Next, Act, Elsewhere, cleanupMail, Selecting

LEMMA StoreInvStep == StoreInv /\ [Next]_vars => StoreInv'
<1>. SUFFICES ASSUME StoreInv, [Next]_vars PROVE StoreInv'
  OBVIOUS
<1>1. CASE UNCHANGED vars
  BY <1>1 DEF vars, others, StoreInv, StoreTypes, Positions, Position, JobOK
<1>2. CASE (\E t \in Threads : DeleteThread(t)) \/ DeleteNext
  BY <1>2, DeletingBegins, ListKeysKeeps
<1>. QED
  BY <1>1, <1>2, NextIs, ActKeeps, ElsewhereKeeps, DeletionKeeps, SelectingKeeps

LEMMA StoreInvInit == Init => StoreInv
<1>. SUFFICES ASSUME Init PROVE StoreInv
  OBVIOUS
<1>1. StoreTypes
  BY TypesInit
<1>2. /\ at = [m \in Messages |-> "new"] /\ messages = [m \in Messages |-> NoRow]
      /\ job = [d \in Deleters |-> NoJob]
  BY DEF Init
<1>. QED
  BY <1>1, <1>2 DEF StoreInv, Positions, Position, JobOK, NoRow, NoJob

-----------------------------------------------------------------------------
(* The refinement *)

\* The rows of the abstract store, and what its deletions set out to erase.
Place == [m \in Messages |-> messages[m].thread]
Doomed == [d \in Deleters |-> [thread |-> job[d].thread, keys |-> job[d].keys]]

LEMMA InitRefines == Init => Store!Init
<1>. SUFFICES ASSUME Init PROVE Store!Init
  OBVIOUS
<1>1. messages = [m \in Messages |-> NoRow] /\ objects = {} /\ job = [d \in Deleters |-> NoJob]
  BY DEF Init
<1>. QED
  BY <1>1 DEF Store!Init, Store!NoDeletion, NoRow, NoJob

\* A step of an invocation is one of the store, or none of it.
LEMMA ActRefines ==
  ASSUME StoreInv, NEW m \in Messages, Act(m)
  PROVE  Store!Next \/ UNCHANGED <<Place, objects, Doomed>>
<1>1. /\ job' = job /\ Did(m) /\ \A n \in Messages \ {m} : messages'[n] = messages[n]
  BY ActIsLocal, ActDoes DEF StoreInv
<1>2. Doomed' = Doomed
  BY <1>1 DEF Doomed
<1>3. CASE messages'[m].thread = messages[m].thread
  <2>1. Place' = Place
    BY <1>1, <1>3 DEF Place
  <2>2. CASE objects' = objects
    BY <1>2, <2>1, <2>2
  <2>3. CASE objects' = objects \union {m}
    BY <1>2, <2>1, <2>3 DEF Store!Next, Store!Archive, Place, Doomed
  <2>4. CASE messages[m].thread = NoThread /\ objects' = objects \ {m}
    BY <1>2, <2>1, <2>4 DEF Store!Next, Store!Withdraw, Place, Doomed
  <2>. QED
    BY <1>1, <1>3, <2>2, <2>3, <2>4, Constants DEF Did
<1>4. CASE messages'[m].thread # messages[m].thread
  <2>1. messages[m].thread = NoThread /\ messages'[m].thread \in Threads /\ objects' = objects
    BY <1>1, <1>4 DEF Did
  <2>2. Place' = [Place EXCEPT ![m] = messages'[m].thread]
    BY <1>1 DEF Place
  <2>3. PICK t \in Threads : t = messages'[m].thread
    BY <2>1
  <2>4. Store!Place(m, t)
    BY <1>2, <2>1, <2>2, <2>3 DEF Store!Place, Place, Doomed
  <2>. QED
    BY <2>4, Zenon DEF Store!Next
<1>. QED
  BY <1>3, <1>4

\* What a deletion lists are messages of its thread.
LEMMA ListKeysRefines ==
  ASSUME StoreInv, NEW d \in Deleters, NEW t \in Threads, ListKeys(d, t)
  PROVE  Store!Next
<1>. DEFINE keys == {m \in Of(t) : messages[m].keyed}
            listed == [at |-> "erase", thread |-> t, keys |-> keys]
<1>1. job[d] = NoJob /\ UNCHANGED <<messages, objects>> /\ job' = [job EXCEPT ![d] = listed]
  BY DEF ListKeys, Deleting, StoreInv, JobOK
<1>2. keys \in SUBSET Messages /\ \A m \in keys : messages[m].thread = t
  BY DEF Of
<1>3. Doomed[d] = Store!NoDeletion
  BY <1>1 DEF Doomed, Store!NoDeletion, NoJob
<1>4. Doomed' = [Doomed EXCEPT ![d] = [thread |-> t, keys |-> keys]]
  <2>1. listed.thread = t /\ listed.keys = keys
    OBVIOUS
  <2>. HIDE DEF listed, keys
  <2>. QED
    BY <1>1, <2>1 DEF Doomed, StoreInv, StoreTypes
<1>. HIDE DEF keys, listed
<1>5. PICK K \in SUBSET Messages : K = keys
  BY <1>2
<1>6. Store!Begin(d, t, K)
  BY <1>1, <1>2, <1>3, <1>4, <1>5 DEF Store!Begin, Place, Doomed
<1>. QED
  BY <1>6, Zenon DEF Store!Next

\* A deletion that ends ends in the store.
LEMMA FinishRefines ==
  ASSUME StoreTypes, NEW d \in Deleters, Finish(d)
  PROVE  Doomed' = [Doomed EXCEPT ![d] = Store!NoDeletion]
<1>1. job'[d] = NoJob /\ \A e \in Deleters \ {d} : job'[e] = job[e]
  BY FinishTyped
<1>2. NoJob.thread = NoThread /\ NoJob.keys = {}
  BY DEF NoJob
<1>. QED
  BY <1>1, <1>2 DEF Doomed, Store!NoDeletion

\* A step of a deletion is one of the store, or none of it.
LEMMA DeletionRefines ==
  ASSUME StoreInv, NEW d \in Deleters, Deletion(d)
  PROVE  Store!Next \/ UNCHANGED <<Place, objects, Doomed>>
<1>0. StoreTypes /\ JobOK(d) /\ job[d] \in Jobs
  BY DEF StoreInv, StoreTypes
<1>1. CASE Erase(d)
  <2>1. /\ job' = [job EXCEPT ![d].at = "forget"] /\ objects' = objects \ job[d].keys
        /\ messages' = messages
    BY <1>1 DEF Erase
  <2>2. Doomed' = Doomed
    BY <1>0, <2>1 DEF Doomed, StoreTypes, Jobs
  <2>3. PICK keys \in SUBSET Doomed[d].keys : keys = job[d].keys
    BY DEF Doomed
  <2>4. Store!Erase(d, keys)
    BY <2>1, <2>2, <2>3 DEF Store!Erase, Place, Doomed
  <2>. QED
    BY <2>3, <2>4, Zenon DEF Store!Next, Doomed
<1>2. CASE EraseFails(d)
  <2>1. PICK keys \in SUBSET job[d].keys : objects' = objects \ keys
    BY <1>2 DEF EraseFails
  <2>2. messages' = messages /\ Doomed' = [Doomed EXCEPT ![d] = Store!NoDeletion]
    BY <1>0, <1>2, FinishRefines DEF EraseFails
  <2>3. keys \subseteq Doomed[d].keys
    BY DEF Doomed
  <2>4. Store!Erase(d, keys)
    BY <2>1, <2>2, <2>3 DEF Store!Erase, Place, Doomed
  <2>. QED
    BY <2>3, <2>4, Zenon DEF Store!Next, Doomed
<1>3. CASE ForgetMessages(d)
  <2>1. /\ messages' = [m \in Messages |-> IF m \in Of(job[d].thread) THEN NoRow ELSE messages[m]]
        /\ job' = [job EXCEPT ![d].at = "drop"] /\ objects' = objects /\ job[d].at = "forget"
    BY <1>3 DEF ForgetMessages, Deleting
  <2>2. job[d].thread # NoThread /\ job[d].keys \intersect objects = {}
    BY <1>0, <2>1, Constants DEF JobOK
  <2>3. Doomed' = Doomed /\ Doomed[d] # Store!NoDeletion
    BY <1>0, <2>1, <2>2 DEF Doomed, StoreTypes, Jobs, Store!NoDeletion
  <2>4. Place' = [m \in Messages |-> IF Place[m] = Doomed[d].thread THEN NoThread ELSE Place[m]]
    BY <2>1 DEF Place, Doomed, Of, NoRow
  <2>5. Store!Forget(d)
    BY <2>1, <2>2, <2>3, <2>4 DEF Store!Forget, Place, Doomed
  <2>. QED
    BY <2>5 DEF Store!Next
<1>4. CASE DropThread(d) \/ DeletionStops(d)
  <2>1. UNCHANGED <<messages, objects>> /\ Doomed' = [Doomed EXCEPT ![d] = Store!NoDeletion]
    BY <1>0, <1>4, FinishRefines DEF DropThread, DeletionStops
  <2>2. Store!End(d)
    BY <2>1 DEF Store!End, Place, Doomed
  <2>. QED
    BY <2>2 DEF Store!Next
<1>. QED
  BY <1>1, <1>2, <1>3, <1>4 DEF Deletion

\* Every step is one of the store, or none of it.
LEMMA NextRefines == StoreInv /\ [Next]_vars => [Store!Next]_(Store!vars)
<1>. SUFFICES ASSUME StoreInv, [Next]_vars
              PROVE  Store!Next \/ UNCHANGED <<Place, objects, Doomed>>
  BY DEF Store!vars, Place, Doomed
<1>1. CASE UNCHANGED vars
  BY <1>1 DEF vars, Place, Doomed
<1>2. CASE Elsewhere \/ Selecting
  <2>1. /\ objects' = objects /\ job' = job
        /\ \A m \in Messages : messages'[m].thread = messages[m].thread
    BY <1>2, ElsewhereDoes, SelectingDoes DEF StoreInv
  <2>. QED
    BY <2>1 DEF Place, Doomed
<1>3. CASE (\E t \in Threads : DeleteThread(t)) \/ DeleteNext
  BY <1>3, DeletingBegins, ListKeysRefines
<1>. QED
  BY <1>1, <1>2, <1>3, NextIs, ActRefines, DeletionRefines

\* deleteThreadData removes rows only when R2 has none of the objects it listed, whatever fails
\* in between and however deletions, arrivals and sends interleave, for any number of each.
THEOREM Implements == Spec => ImplementsMessageStore
<1>1. StoreInv /\ [Next]_vars => StoreInv' /\ [Store!Next]_(Store!vars)
  BY StoreInvStep, NextRefines
<1>. QED
  BY <1>1, InitRefines, StoreInvInit, PTL DEF Spec, ImplementsMessageStore, Store!Spec

-----------------------------------------------------------------------------
(* Least ages *)

\* A set of numbers has a least one.
LEMMA LeastIs ==
  ASSUME NEW S \in SUBSET Nat, S # {}
  PROVE  Min(S) \in S /\ \A n \in S : Min(S) <= n
<1>. DEFINE less == {p \in Nat \X Nat : p[1] < p[2]}
<1>1. IsWellFoundedOn(less, Nat)
  BY NatLessThanWellFounded, Zenon DEF OpToRel
<1>2. PICK x \in S : \A y \in S : ~(<<y, x>> \in less)
  <2>. HIDE DEF less
  <2>. QED
    BY <1>1, WFMin, Zenon
<1>3. ASSUME NEW y \in S
      PROVE  x <= y
  <2>1. x \in Nat /\ y \in Nat
    OBVIOUS
  <2>2. ~(y < x)
    BY <1>2, <2>1
  <2>. QED
    BY <2>1, <2>2
<1>. QED
  BY <1>3, Zenon DEF Min

\* Growing older keeps the order of the ages.
LEMMA OlderIsMonotone ==
  ASSUME NEW a \in Nat, NEW b \in Nat, a <= b
  PROVE  Older(a) <= Older(b) /\ Older(a) \in Nat
<1>1. Ancient \in Nat
  BY ThreadAssumption DEF Ancient, Longer
<1>. QED
  BY <1>1 DEF Older

\* The least age grows older with the ages.
LEMMA LeastGrowsOlder ==
  ASSUME NEW S \in SUBSET Nat, S # {}
  PROVE  Min({Older(n) : n \in S}) = Older(Min(S))
<1>. DEFINE O == {Older(n) : n \in S}
<1>1. Min(S) \in S /\ \A n \in S : Min(S) <= n
  BY LeastIs
<1>2. O \in SUBSET Nat /\ O # {}
  <2>1. \A n \in S : n \in Nat /\ n <= n
    OBVIOUS
  <2>2. \A n \in S : Older(n) \in Nat
    BY <2>1, OlderIsMonotone
  <2>. QED
    BY <2>2
<1>3. Min(O) \in O /\ \A n \in O : Min(O) <= n
  <2>. HIDE DEF O
  <2>. QED
    BY <1>2, LeastIs
<1>4. PICK n \in S : Min(O) = Older(n)
  BY <1>3
<1>5. Older(Min(S)) <= Min(O)
  BY <1>1, <1>4, OlderIsMonotone
<1>6. Min(O) <= Older(Min(S))
  BY <1>1, <1>3
<1>7. Min(O) \in Nat /\ Older(Min(S)) \in Nat
  BY <1>1, <1>2, <1>3
<1>8. Min(O) = Older(Min(S))
  <2>. HIDE DEF O
  <2>. QED
    BY <1>5, <1>6, <1>7
<1>. QED
  BY <1>8

-----------------------------------------------------------------------------
(* The summaries *)

\* The rows of threads.
Counts == Nat \union {Cardinality(S) : S \in SUBSET Messages}
ThreadRows == [there : BOOLEAN, status : Statuses, last : Nat, updated : Nat,
               unread : Counts, incoming : BOOLEAN, outgoing : BOOLEAN]

UnreadOf(t) == {m \in Incoming(t) : ~messages[m].read}
AgesOf(t) == {messages[m].age : m \in Of(t)}

\* The row of a thread says what its messages say.
Told(t) ==
  /\ threads[t].unread = Cardinality(UnreadOf(t))
  /\ threads[t].incoming = (Incoming(t) # {})
  /\ threads[t].outgoing = (Of(t) \ Incoming(t) # {})
  /\ Of(t) # {} => threads[t].last = Min(AgesOf(t))

\* Someone is to refresh the thread, or to drop it.
Pending(t) ==
  \/ \E m \in Messages : to[m] = t /\ at[m] \in {"ensure", "insert", "archive", "link", "refresh"}
  \/ marking = t
  \/ Of(t) = {} /\ \E d \in Deleters : job[d].thread = t /\ Deleting(d, "drop")

\* A thread that is not there has no messages; one that nobody is to refresh is told.
Kept(t) ==
  /\ threads[t] \in ThreadRows
  /\ ~threads[t].there => Of(t) = {}
  /\ threads[t].there /\ ~Pending(t) /\ t \notin stale => Told(t)

\* An invocation that has begun has a thread.
Destined == \A m \in Messages : at[m] \notin {"new", "done"} => to[m] \in Threads

\* The invariant.
SummaryInv ==
  /\ StoreInv
  /\ threads \in [Threads -> ThreadRows]
  /\ marking \in Threads \union {NoThread}
  /\ Destined
  /\ \A t \in Threads : Kept(t)

\* What is told agrees with the summary.
LEMMA ToldIsSummary ==
  ASSUME NEW t \in Threads, Told(t)
  PROVE  Summary(t) = [unread |-> threads[t].unread, incoming |-> threads[t].incoming,
                       outgoing |-> threads[t].outgoing, last |-> threads[t].last]
BY DEF Told, Summary, UnreadOf, AgesOf

\* Hence the invariant is enough.
LEMMA SummaryFollows == SummaryInv => SummaryIsTrue
<1>. SUFFICES ASSUME SummaryInv, NEW t \in Threads, threads[t].there, ~Refreshing(t), t \notin stale
              PROVE  Summary(t) = [unread |-> threads[t].unread, incoming |-> threads[t].incoming,
                                   outgoing |-> threads[t].outgoing, last |-> threads[t].last]
  BY DEF SummaryIsTrue
<1>1. ~Pending(t)
  BY DEF Pending, Refreshing
<1>. QED
  BY <1>1, ToldIsSummary DEF SummaryInv, Kept

\* The messages of a thread, and what its summary says of them, stay.
Same(t) ==
  \A m \in Messages :
    /\ messages'[m].thread = t <=> messages[m].thread = t
    /\ messages[m].thread = t => /\ messages'[m].direction = messages[m].direction
                                 /\ messages'[m].read = messages[m].read
                                 /\ messages'[m].age = messages[m].age

\* Then what the summary is made of stays.
LEMMA SameSets ==
  ASSUME NEW t \in Threads, Same(t)
  PROVE  /\ Of(t)' = Of(t) /\ Incoming(t)' = Incoming(t)
         /\ UnreadOf(t)' = UnreadOf(t) /\ AgesOf(t)' = AgesOf(t)
<1>1. Of(t)' = Of(t)
  BY DEF Same, Of
<1>2. Incoming(t)' = Incoming(t)
  BY <1>1 DEF Same, Incoming, Of
<1>3. UnreadOf(t)' = UnreadOf(t)
  BY <1>2 DEF Same, UnreadOf, Incoming, Of
<1>4. AgesOf(t)' = AgesOf(t)
  BY <1>1 DEF Same, AgesOf, Of
<1>. QED
  BY <1>1, <1>2, <1>3, <1>4

\* A step that leaves the messages of a thread and what its row says of them alone, and after
\* which nobody is to refresh it only if nobody was.
LEMMA Undisturbed ==
  ASSUME NEW t \in Threads, Kept(t), Same(t), threads'[t] \in ThreadRows,
         threads'[t].there = threads[t].there, threads'[t].unread = threads[t].unread,
         threads'[t].incoming = threads[t].incoming, threads'[t].outgoing = threads[t].outgoing,
         threads'[t].last = threads[t].last,
         threads[t].there /\ Pending(t) => Pending(t)' \/ t \in stale',
         threads[t].there /\ t \in stale => Pending(t)' \/ t \in stale'
  PROVE  Kept(t)'
BY SameSets DEF Kept, Told

\* A row that was refreshed is told.
LEMMA RefreshedIsTold ==
  ASSUME NEW t \in Threads, StoreTypes, threads \in [Threads -> ThreadRows], Kept(t),
         refreshThread(t), messages' = messages
  PROVE  /\ threads' \in [Threads -> ThreadRows] /\ Kept(t)'
         /\ \A u \in Threads \ {t} : threads'[u] = threads[u] /\ (u \in stale' <=> u \in stale)
<1>1. Same(t)
  BY DEF Same
<1>2. threads[t] \in ThreadRows
  OBVIOUS
<1>3. Refreshed(t) \in ThreadRows
  <2>1. Summary(t).unread \in Counts
    BY DEF Summary, Counts, Incoming, Of
  <2>2. Summary(t).last \in Nat
    <3>1. CASE Of(t) = {}
      BY <1>2, <3>1 DEF Summary, ThreadRows
    <3>2. CASE Of(t) # {}
      <4>1. \A m \in Messages : messages[m].age \in Nat
        BY DEF StoreTypes, Rows
      <4>2. PICK m \in Messages : messages[m].thread = t
        BY <3>2 DEF Of
      <4>3. m \in Of(t) /\ Of(t) \subseteq Messages
        BY <4>2 DEF Of
      <4>4. AgesOf(t) \in SUBSET Nat /\ AgesOf(t) # {}
        BY <4>1, <4>3 DEF AgesOf
      <4>. QED
        BY <3>2, <4>4, LeastIs DEF Summary, AgesOf
    <3>. QED
      BY <3>1, <3>2
  <2>3. Summary(t).incoming \in BOOLEAN /\ Summary(t).outgoing \in BOOLEAN
    BY DEF Summary
  <2>. QED
    BY <1>2, <2>1, <2>2, <2>3 DEF Refreshed, ThreadRows
<1>4. CASE threads[t].there
  <2>1. threads' = [threads EXCEPT ![t] = Refreshed(t)] /\ stale' = stale \ {t}
    BY <1>4 DEF refreshThread
  <2>2. threads'[t] = Refreshed(t)
    BY <2>1
  <2>3. /\ threads'[t].unread = Summary(t).unread /\ threads'[t].incoming = Summary(t).incoming
        /\ threads'[t].outgoing = Summary(t).outgoing /\ threads'[t].last = Summary(t).last
        /\ threads'[t].there = threads[t].there
    BY <1>2, <2>2 DEF Refreshed, ThreadRows
  <2>4. /\ Summary(t).unread = Cardinality(UnreadOf(t)) /\ Summary(t).incoming = (Incoming(t) # {})
        /\ Summary(t).outgoing = (Of(t) \ Incoming(t) # {})
        /\ Of(t) # {} => Summary(t).last = Min(AgesOf(t))
    BY DEF Summary, UnreadOf, AgesOf
  <2>5. Told(t)'
    BY <1>1, <2>3, <2>4, SameSets DEF Told
  <2>6. threads' \in [Threads -> ThreadRows]
    BY <1>3, <2>1
  <2>. QED
    BY <1>4, <2>1, <2>3, <2>5, <2>6 DEF Kept
<1>5. CASE ~threads[t].there
  <2>1. threads' = threads /\ stale' = stale \ {t}
    BY <1>5 DEF refreshThread
  <2>. QED
    BY <1>1, <1>5, <2>1, SameSets DEF Kept
<1>. QED
  BY <1>4, <1>5

\* The statements on the row of a thread leave the other rows alone.
LEMMA PlaceholderDoes ==
  ASSUME threads \in [Threads -> ThreadRows], NEW t \in Threads, createThreadPlaceholder(t)
  PROVE  /\ threads' \in [Threads -> ThreadRows] /\ \A u \in Threads \ {t} : threads'[u] = threads[u]
         /\ threads[t].there => threads' = threads
         /\ ~threads[t].there => /\ threads'[t].unread = 0 /\ threads'[t].incoming = FALSE
                                 /\ threads'[t].outgoing = FALSE
         /\ threads'[t].there
<1>1. CASE threads[t].there
  BY <1>1 DEF createThreadPlaceholder
<1>2. CASE ~threads[t].there
  <2>. DEFINE row == [Absent EXCEPT !.there = TRUE]
  <2>1. Ancient \in Nat
    BY ThreadAssumption DEF Ancient, Longer
  <2>2. /\ row \in ThreadRows /\ row.there /\ row.unread = 0 /\ row.incoming = FALSE
        /\ row.outgoing = FALSE
    BY <2>1 DEF Absent, ThreadRows, Statuses, Counts
  <2>3. threads' = [threads EXCEPT ![t] = row]
    BY <1>2 DEF createThreadPlaceholder
  <2>. HIDE DEF row
  <2>. QED
    BY <1>2, <2>2, <2>3
<1>. QED
  BY <1>1, <1>2

\* So does the one that is run once the message is there.
LEMMA EnsureDoes ==
  ASSUME threads \in [Threads -> ThreadRows], NEW t \in Threads, ensureThread(t)
  PROVE  /\ threads' \in [Threads -> ThreadRows] /\ \A u \in Threads \ {t} : threads'[u] = threads[u]
         /\ threads'[t].there
<1>0. threads[t] \in ThreadRows
  OBVIOUS
<1>. DEFINE row == [threads[t] EXCEPT !.there = TRUE, !.last = 0, !.updated = 0,
                      !.status = IF threads[t].there THEN threads[t].status ELSE "open",
                      !.unread = IF threads[t].there THEN threads[t].unread ELSE 0,
                      !.incoming = threads[t].there /\ threads[t].incoming,
                      !.outgoing = threads[t].there /\ threads[t].outgoing]
<1>1. row \in ThreadRows /\ row.there
  BY <1>0 DEF ThreadRows, Statuses, Counts
<1>2. threads' = [threads EXCEPT ![t] = row]
  BY <1>0 DEF ensureThread, ThreadRows
<1>. HIDE DEF row
<1>. QED
  BY <1>1, <1>2

\* And the one that removes a thread without messages.
LEMMA DeleteIfEmptyDoes ==
  ASSUME threads \in [Threads -> ThreadRows], NEW t \in Threads, DeleteIfEmpty(t)
  PROVE  /\ threads' \in [Threads -> ThreadRows] /\ \A u \in Threads \ {t} : threads'[u] = threads[u]
         /\ Of(t) # {} => threads' = threads
         /\ Of(t) = {} => ~threads'[t].there
<1>1. Absent \in ThreadRows /\ ~Absent.there
  <2>1. Ancient \in Nat
    BY ThreadAssumption DEF Ancient, Longer
  <2>. QED
    BY <2>1 DEF Absent, ThreadRows, Statuses, Counts
<1>. QED
  BY <1>1 DEF DeleteIfEmpty

\* The thread an invocation is about.
Goal(m) == IF at[m] = "new" THEN to'[m] ELSE to[m]

\* What a step of an invocation does to the rows of threads.
LEMMA ActThreads ==
  ASSUME SummaryInv, NEW m \in Messages, Act(m)
  PROVE  /\ Goal(m) \in Threads
         /\ threads' \in [Threads -> ThreadRows]
         /\ \A u \in Threads \ {Goal(m)} :
              threads'[u] = threads[u] /\ (u \in stale' <=> u \in stale)
         /\ marking' = marking
         /\ at'[m] \notin {"new", "done"} => to'[m] \in Threads
<1>0. /\ at \in [Messages -> Steps] /\ to \in [Messages -> Threads \union {NoThread}]
      /\ threads \in [Threads -> ThreadRows] /\ StoreTypes
      /\ at[m] \notin {"new", "done"} => to[m] \in Threads
  BY DEF SummaryInv, StoreInv, StoreTypes, Destined
<1>1. ASSUME NEW t \in Threads, Receive(m, t) \/ Send(m, t)
      PROVE  /\ Goal(m) = t
             /\ threads' \in [Threads -> ThreadRows]
             /\ \A u \in Threads \ {t} :
                  threads'[u] = threads[u] /\ (u \in stale' <=> u \in stale)
             /\ marking' = marking /\ to'[m] \in Threads
  <2>1. /\ at[m] = "new" /\ to' = [to EXCEPT ![m] = t] /\ stale' = stale /\ marking' = marking
        /\ createThreadPlaceholder(t) \/ ensureThread(t)
    BY <1>1 DEF Receive, Send
  <2>2. Goal(m) = t /\ to'[m] = t
    BY <1>0, <2>1 DEF Goal
  <2>. QED
    BY <1>0, <2>1, <2>2, PlaceholderDoes, EnsureDoes
<1>2. CASE Invocation(m)
  <2>1. at[m] \notin {"new", "done"} /\ marking' = marking
    BY <1>2 DEF Invocation, Put, Claim, ClaimFails, PutFails, Ensure, Insert, InsertFails, ArchiveRaw,
                Link, Refresh, Stop, Step
  <2>2. Goal(m) = to[m] /\ to[m] \in Threads
    BY <1>0, <2>1 DEF Goal
  <2>3. to' = to \/ Leave(m)
    BY <1>2 DEF Invocation, Put, Claim, ClaimFails, PutFails, Ensure, Insert, InsertFails, ArchiveRaw,
                Link, Refresh, Stop, Step
  <2>4. at'[m] \notin {"new", "done"} => to'[m] \in Threads
    BY <1>0, <2>2, <2>3 DEF Leave, Goto
  <2>5. /\ threads' \in [Threads -> ThreadRows]
        /\ \A u \in Threads \ {to[m]} :
             threads'[u] = threads[u] /\ (u \in stale' <=> u \in stale)
    <3>1. CASE threads' = threads /\ stale' \in {stale, stale \union {to[m]}}
      BY <1>0, <3>1
    <3>2. CASE DeleteIfEmpty(to[m]) /\ stale' = stale
      BY <1>0, <2>2, <3>2, DeleteIfEmptyDoes
    <3>3. CASE ensureThread(to[m]) /\ stale' = stale
      BY <1>0, <2>2, <3>3, EnsureDoes
    <3>4. CASE Refresh(m)
      <4>1. refreshThread(to[m]) /\ messages' = messages
        BY <3>4 DEF Refresh
      <4>2. Kept(to[m])
        BY <2>2 DEF SummaryInv
      <4>. QED
        BY <1>0, <2>2, <4>1, <4>2, RefreshedIsTold
    <3>. QED
      BY <1>2, <3>1, <3>2, <3>3, <3>4
         DEF Invocation, Put, Claim, ClaimFails, PutFails, Ensure, Insert, InsertFails, ArchiveRaw,
             Link, Stop
  <2>. QED
    BY <2>1, <2>2, <2>4, <2>5
<1>. QED
  BY <1>1, <1>2 DEF Act

\* The messages of the other threads stay.
LEMMA ActElsewhereSame ==
  ASSUME SummaryInv, NEW m \in Messages, Act(m), NEW u \in Threads, u # Goal(m)
  PROVE  Same(u)
<1>0. /\ \A n \in Messages \ {m} : messages'[n] = messages[n]
      /\ Position(m) /\ messages \in [Messages -> Rows] /\ NoThread \notin Threads
  BY ActIsLocal, Constants DEF SummaryInv, StoreInv, StoreTypes, Positions
<1>1. CASE messages' = messages
  BY <1>1 DEF Same
<1>2. CASE Claim(m) \/ Insert(m)
  <2>1. at[m] \in {"claim", "insert"} /\ messages'[m].thread = to[m]
    BY <1>0, <1>2 DEF Claim, Insert, Step
  <2>. QED
    BY <1>0, <2>1 DEF Same, Goal, Position
<1>3. CASE Link(m)
  <2>1. messages' = [messages EXCEPT ![m].keyed = messages[m].thread # NoThread]
    BY <1>3 DEF Link
  <2>. QED
    BY <1>0, <2>1 DEF Same, Rows
<1>. QED
  BY <1>1, <1>2, <1>3
     DEF Act, Invocation, Receive, Send, Put, ClaimFails, PutFails, Ensure, InsertFails,
         ArchiveRaw, Refresh, Stop

-----------------------------------------------------------------------------
(* Receiving and sending keep the summaries *)

\* The other threads are as they were.
LEMMA ActKeepsOthers ==
  ASSUME SummaryInv, NEW m \in Messages, Act(m), NEW u \in Threads, u # Goal(m)
  PROVE  Kept(u)'
<1>1. Same(u)
  BY ActElsewhereSame
<1>2. /\ threads'[u] = threads[u] /\ (u \in stale' <=> u \in stale) /\ marking' = marking
  BY ActThreads
<1>3. job' = job /\ \A n \in Messages \ {m} : at'[n] = at[n] /\ to'[n] = to[n]
  BY ActIsLocal DEF SummaryInv, StoreInv
<1>4. Kept(u)
  BY DEF SummaryInv
<1>5. Pending(u) => Pending(u)'
  <2>1. ASSUME NEW n \in Messages, to[n] = u,
               at[n] \in {"ensure", "insert", "archive", "link", "refresh"}
        PROVE  Pending(u)'
    <3>1. n # m
      BY <2>1 DEF Goal
    <3>. QED
      BY <1>3, <2>1, <3>1 DEF Pending
  <2>2. CASE marking = u
    BY <1>2, <2>2 DEF Pending
  <2>3. CASE Of(u) = {} /\ \E d \in Deleters : job[d].thread = u /\ Deleting(d, "drop")
    BY <1>1, <1>3, <2>3, SameSets DEF Pending, Deleting
  <2>. QED
    BY <2>1, <2>2, <2>3 DEF Pending
<1>. QED
  BY <1>1, <1>2, <1>4, <1>5, Undisturbed DEF Kept

\* A thread that is to be refreshed needs only be there.
LEMMA PendingIsKept ==
  ASSUME NEW t \in Threads, threads'[t] \in ThreadRows, Pending(t)', threads'[t].there
  PROVE  Kept(t)'
BY DEF Kept

\* A thread whose row and messages stay is pending for the others that are.
LEMMA PendingStays ==
  ASSUME NEW t \in Threads, NEW m \in Messages, Same(t), Pending(t),
         at[m] \notin {"ensure", "insert", "archive", "link", "refresh"},
         marking' = marking, job' = job,
         \A n \in Messages \ {m} : at'[n] = at[n] /\ to'[n] = to[n]
  PROVE  Pending(t)'
BY SameSets DEF Pending, Deleting

\* So is the thread the invocation is about.
LEMMA ActKeepsOwn ==
  ASSUME SummaryInv, NEW m \in Messages, Act(m), NEW t \in Threads, t = Goal(m)
  PROVE  Kept(t)'
<1>0. /\ at \in [Messages -> Steps] /\ to \in [Messages -> Threads \union {NoThread}]
      /\ threads \in [Threads -> ThreadRows] /\ messages \in [Messages -> Rows] /\ StoreTypes
      /\ Kept(t)
  BY DEF SummaryInv, StoreInv, StoreTypes
<1>1. /\ threads' \in [Threads -> ThreadRows] /\ threads'[t] \in ThreadRows /\ marking' = marking
  BY ActThreads
<1>2. /\ job' = job /\ \A n \in Messages \ {m} : at'[n] = at[n] /\ to'[n] = to[n]
      /\ at' = [at EXCEPT ![m] = at'[m]] /\ to' = [to EXCEPT ![m] = to'[m]]
  BY ActIsLocal DEF SummaryInv, StoreInv
<1>3. CASE Receive(m, t)
  <2>1. /\ at[m] = "new" /\ createThreadPlaceholder(t) /\ messages' = messages /\ stale' = stale
    BY <1>3 DEF Receive
  <2>2. Same(t)
    BY <2>1 DEF Same
  <2>3. CASE threads[t].there
    BY <1>0, <1>1, <1>2, <2>1, <2>2, <2>3, PlaceholderDoes, PendingStays, Undisturbed
  <2>4. CASE ~threads[t].there
    <3>1. Of(t)' = {} /\ Incoming(t)' = {} /\ UnreadOf(t)' = {}
      BY <1>0, <2>2, <2>4, SameSets DEF Kept, Incoming, UnreadOf
    <3>2. /\ threads'[t].unread = 0 /\ threads'[t].incoming = FALSE
          /\ threads'[t].outgoing = FALSE /\ threads'[t].there
      BY <1>0, <2>1, <2>4, PlaceholderDoes
    <3>3. Cardinality(UnreadOf(t)') = 0
      BY <3>1, FS_EmptySet
    <3>4. Told(t)'
      BY <3>1, <3>2, <3>3 DEF Told
    <3>. QED
      BY <1>1, <3>2, <3>4 DEF Kept
  <2>. QED
    BY <2>3, <2>4
<1>4. CASE Send(m, t)
  <2>1. /\ at'[m] = "insert" /\ to'[m] = t /\ ensureThread(t)
    BY <1>0, <1>4 DEF Send, Goto
  <2>2. Pending(t)'
    BY <2>1 DEF Pending
  <2>. QED
    BY <1>0, <1>1, <2>1, <2>2, EnsureDoes, PendingIsKept
<1>5. CASE Put(m)
  <2>1. at[m] = "put" /\ UNCHANGED <<threads, messages, stale>>
    BY <1>5 DEF Put, Step
  <2>2. Same(t)
    BY <2>1 DEF Same
  <2>. QED
    BY <1>0, <1>1, <1>2, <2>1, <2>2, PendingStays, Undisturbed
<1>6. CASE Claim(m) \/ Insert(m) \/ ArchiveRaw(m) \/ Link(m) \/ Ensure(m)
  <2>1. at[m] # "new" /\ to' = to /\ at'[m] \in {"ensure", "archive", "link", "refresh"}
    BY <1>0, <1>6 DEF Claim, Insert, ArchiveRaw, Link, Ensure, Step, Goto
  <2>2. to'[m] = t
    BY <2>1 DEF Goal
  <2>3. Pending(t)'
    BY <2>1, <2>2 DEF Pending
  <2>4. CASE Claim(m) \/ Insert(m)
    <3>1. threads' = threads /\ threads[t].there
      BY <2>1, <2>2, <2>4 DEF Claim, Insert
    <3>. QED
      BY <1>1, <2>3, <3>1, PendingIsKept
  <2>5. CASE Ensure(m)
    <3>1. ensureThread(t)
      BY <2>1, <2>2, <2>5 DEF Ensure
    <3>. QED
      BY <1>0, <1>1, <2>3, <3>1, EnsureDoes, PendingIsKept
  <2>6. CASE ArchiveRaw(m) \/ Link(m)
    <3>1. threads' = threads
      BY <2>6 DEF ArchiveRaw, Link
    <3>2. Same(t)
      <4>1. CASE messages' = messages
        BY <4>1 DEF Same
      <4>2. CASE Link(m)
        <5>1. messages' = [messages EXCEPT ![m].keyed = messages[m].thread # NoThread]
          BY <4>2 DEF Link
        <5>. QED
          BY <1>0, <5>1 DEF Same, Rows
      <4>. QED
        BY <2>6, <4>1, <4>2 DEF ArchiveRaw
    <3>3. ~threads'[t].there => Of(t)' = {}
      BY <1>0, <3>1, <3>2, SameSets DEF Kept
    <3>. QED
      BY <1>1, <2>3, <3>3 DEF Kept
  <2>. QED
    BY <1>6, <2>4, <2>5, <2>6
<1>7. CASE ClaimFails(m) \/ PutFails(m)
  <2>1. /\ at[m] \in {"claim", "put"} /\ DeleteIfEmpty(to[m]) /\ messages' = messages /\ stale' = stale
    BY <1>7 DEF ClaimFails, PutFails
  <2>2. to[m] = t /\ Same(t)
    BY <2>1 DEF Goal, Same
  <2>3. CASE Of(t) = {}
    <3>1. ~threads'[t].there /\ Of(t)' = {}
      BY <1>0, <2>1, <2>2, <2>3, DeleteIfEmptyDoes, SameSets
    <3>. QED
      BY <1>1, <3>1 DEF Kept
  <2>4. CASE Of(t) # {}
    <3>1. threads' = threads
      BY <1>0, <2>1, <2>2, <2>4, DeleteIfEmptyDoes
    <3>. QED
      BY <1>0, <1>1, <1>2, <2>1, <2>2, <3>1, PendingStays, Undisturbed
  <2>. QED
    BY <2>3, <2>4
<1>8. CASE InsertFails(m)
  <2>1. at[m] = "insert" /\ ~threads[to[m]].there /\ UNCHANGED <<threads, messages>>
    BY <1>8 DEF InsertFails
  <2>2. to[m] = t /\ Same(t)
    BY <2>1 DEF Goal, Same
  <2>. QED
    BY <1>0, <1>1, <2>1, <2>2, Undisturbed
<1>9. CASE Refresh(m)
  <2>1. at[m] = "refresh" /\ refreshThread(to[m]) /\ messages' = messages
    BY <1>9 DEF Refresh
  <2>2. to[m] = t
    BY <2>1 DEF Goal
  <2>. QED
    BY <1>0, <2>1, <2>2, RefreshedIsTold
<1>10. CASE Stop(m)
  <2>1. at[m] # "new" /\ stale' = stale \union {to[m]} /\ UNCHANGED <<threads, messages>>
    BY <1>10 DEF Stop
  <2>2. to[m] = t /\ Same(t)
    BY <2>1 DEF Goal, Same
  <2>. QED
    BY <1>0, <1>1, <2>1, <2>2, Undisturbed
<1>11. ASSUME NEW u \in Threads, Receive(m, u) \/ Send(m, u)
       PROVE  u = t
  BY <1>0, <1>11 DEF Receive, Send, Goal
<1>. QED
  BY <1>3, <1>4, <1>5, <1>6, <1>7, <1>8, <1>9, <1>10, <1>11 DEF Act, Invocation

\* Receiving and sending keep it.
LEMMA ActSummaries ==
  ASSUME SummaryInv, NEW m \in Messages, Act(m)
  PROVE  SummaryInv'
<1>1. StoreInv'
  BY ActKeeps DEF SummaryInv
<1>2. /\ threads' \in [Threads -> ThreadRows] /\ marking' = marking
      /\ at'[m] \notin {"new", "done"} => to'[m] \in Threads
  BY ActThreads
<1>3. \A n \in Messages \ {m} : at'[n] = at[n] /\ to'[n] = to[n]
  BY ActIsLocal DEF SummaryInv, StoreInv
<1>4. Destined'
  BY <1>2, <1>3 DEF SummaryInv, Destined
<1>5. \A t \in Threads : Kept(t)'
  BY ActKeepsOthers, ActKeepsOwn
<1>. QED
  BY <1>1, <1>2, <1>4, <1>5 DEF SummaryInv

-----------------------------------------------------------------------------
(* So do the console, the days and the deletions *)

\* A step that leaves the invocations and the deletions that drop alone.
LEMMA PendingElsewhere ==
  ASSUME NEW t \in Threads, Same(t), Pending(t), UNCHANGED <<at, to>>,
         marking = t => marking' = t,
         \A d \in Deleters : job[d].at = "drop" => job'[d] = job[d]
  PROVE  Pending(t)'
<1>1. CASE \E m \in Messages : to[m] = t /\ at[m] \in {"ensure", "insert", "archive", "link", "refresh"}
  BY <1>1 DEF Pending
<1>2. CASE marking = t
  BY <1>2 DEF Pending
<1>3. CASE Of(t) = {} /\ \E d \in Deleters : job[d].thread = t /\ Deleting(d, "drop")
  BY <1>3, SameSets DEF Pending, Deleting
<1>. QED
  BY <1>1, <1>2, <1>3 DEF Pending

\* A request of the console that changes a status says nothing new.
LEMMA StatusSummaries ==
  ASSUME SummaryInv, NEW t \in Threads, NEW status \in Statuses, setThreadStatus(t, status)
  PROVE  SummaryInv'
<1>1. /\ threads' = [threads EXCEPT ![t].status = status, ![t].updated = 0]
      /\ UNCHANGED <<messages, at, to, marking, job, stale>>
  BY DEF setThreadStatus
<1>2. StoreInv'
  BY ElsewhereKeeps DEF SummaryInv, Elsewhere
<1>3. ASSUME NEW u \in Threads
      PROVE  /\ threads'[u] \in ThreadRows /\ threads'[u].there = threads[u].there
             /\ threads'[u].unread = threads[u].unread /\ threads'[u].incoming = threads[u].incoming
             /\ threads'[u].outgoing = threads[u].outgoing /\ threads'[u].last = threads[u].last
  <2>1. threads[u] \in ThreadRows /\ threads \in [Threads -> ThreadRows]
    BY DEF SummaryInv
  <2>. QED
    BY <1>1, <2>1 DEF ThreadRows
<1>4. threads' \in [Threads -> ThreadRows]
  <2>1. DOMAIN threads' = Threads /\ threads' = [u \in Threads |-> threads'[u]]
    BY <1>1 DEF SummaryInv
  <2>. QED
    BY <1>3, <2>1
<1>5. ASSUME NEW u \in Threads
      PROVE  Kept(u)'
  <2>1. Kept(u) /\ Same(u)
    BY <1>1 DEF SummaryInv, Same
  <2>2. Pending(u) => Pending(u)'
    BY <1>1, <2>1, PendingElsewhere
  <2>. QED
    BY <1>1, <1>3, <2>1, <2>2, Undisturbed
<1>. QED
  BY <1>1, <1>2, <1>4, <1>5 DEF SummaryInv, Destined

\* Marking a thread makes it pending; the others stay.
LEMMA MarkSummaries ==
  ASSUME SummaryInv, NEW t \in Threads, NEW read \in BOOLEAN, markThread(t, read)
  PROVE  SummaryInv'
<1>1. /\ messages' = [m \in Messages |->
                    IF m \in Incoming(t) THEN [messages[m] EXCEPT !.read = read] ELSE messages[m]]
      /\ UNCHANGED <<threads, at, to, job, stale>>
      /\ threads[t].there /\ marking = NoThread /\ marking' = t
  BY DEF markThread
<1>2. StoreInv'
  BY ElsewhereKeeps DEF SummaryInv, Elsewhere
<1>3. ASSUME NEW u \in Threads
      PROVE  Kept(u)'
  <2>1. threads'[u] \in ThreadRows /\ Kept(u)
    BY <1>1 DEF SummaryInv
  <2>2. CASE u = t
    <3>1. Pending(t)'
      BY <1>1 DEF Pending
    <3>. QED
      BY <1>1, <2>1, <2>2, <3>1, PendingIsKept
  <2>3. CASE u # t
    <3>1. Same(u)
      <4>1. messages \in [Messages -> Rows]
        BY DEF SummaryInv, StoreInv, StoreTypes
      <4>2. \A m \in Messages : messages[m].thread = u => messages'[m] = messages[m]
        BY <1>1, <2>3 DEF Incoming, Of
      <4>3. \A m \in Messages : messages'[m].thread = messages[m].thread
        BY <1>1, <4>1 DEF Rows
      <4>. QED
        BY <4>2, <4>3 DEF Same
    <3>2. marking # u
      BY <1>1, Constants
    <3>3. Pending(u) => Pending(u)'
      BY <1>1, <3>1, <3>2, PendingElsewhere
    <3>. QED
      BY <1>1, <2>1, <3>1, <3>3, Undisturbed
  <2>. QED
    BY <2>2, <2>3
<1>. QED
  BY <1>1, <1>2, <1>3 DEF SummaryInv, Destined

\* What was marked is refreshed, or stale.
LEMMA MarkedSummaries ==
  ASSUME SummaryInv, Marked
  PROVE  SummaryInv'
<1>0. /\ UNCHANGED <<messages, at, to, job>> /\ marking' = NoThread
      /\ marking \in Threads /\ StoreTypes /\ threads \in [Threads -> ThreadRows]
      /\ \/ refreshThread(marking)
         \/ stale' = stale \union {marking} /\ threads' = threads
  BY DEF Marked, SummaryInv, StoreInv
<1>1. StoreInv'
  BY ElsewhereKeeps DEF SummaryInv, Elsewhere
<1>2. PICK t \in Threads : t = marking
  BY <1>0
<1>3. /\ threads' \in [Threads -> ThreadRows] /\ Kept(t)'
      /\ \A u \in Threads \ {t} : threads'[u] = threads[u] /\ (u \in stale' <=> u \in stale)
  <2>1. Kept(t)
    BY DEF SummaryInv
  <2>2. CASE refreshThread(t)
    BY <1>0, <2>1, <2>2, RefreshedIsTold
  <2>3. CASE stale' = stale \union {t} /\ threads' = threads
    <3>1. Same(t)
      BY <1>0 DEF Same
    <3>. QED
      BY <1>0, <2>1, <2>3, <3>1, Undisturbed
  <2>. QED
    BY <1>0, <1>2, <2>2, <2>3
<1>4. ASSUME NEW u \in Threads, u # t
      PROVE  Kept(u)'
  <2>1. Kept(u) /\ Same(u) /\ threads'[u] \in ThreadRows
    BY <1>0, <1>3 DEF SummaryInv, Same
  <2>2. Pending(u) => Pending(u)'
    BY <1>0, <1>2, <1>4, <2>1, PendingElsewhere
  <2>. QED
    BY <1>3, <1>4, <2>1, <2>2, Undisturbed
<1>. QED
  BY <1>0, <1>1, <1>3, <1>4 DEF SummaryInv, Destined

\* A day makes the row of a thread and its messages older by as much.
LEMMA DaySummaries ==
  ASSUME SummaryInv, Day
  PROVE  SummaryInv'
<1>0. /\ UNCHANGED <<at, to, marking, job, stale>>
      /\ threads \in [Threads -> ThreadRows] /\ messages \in [Messages -> Rows]
      /\ marking = NoThread
      /\ \A m \in Messages : at[m] \in {"new", "done"}
      /\ \A d \in Deleters : job[d].at = "none"
  BY DEF Day, Quiet, Deleting, SummaryInv, StoreInv, StoreTypes
<1>1. StoreInv'
  BY ElsewhereKeeps DEF SummaryInv, Elsewhere
<1>2. ASSUME NEW t \in Threads
      PROVE  /\ threads'[t] \in ThreadRows /\ threads'[t].there = threads[t].there
             /\ threads[t].there => /\ threads'[t].unread = threads[t].unread
                                    /\ threads'[t].incoming = threads[t].incoming
                                    /\ threads'[t].outgoing = threads[t].outgoing
                                    /\ threads'[t].last = Older(threads[t].last)
  <2>1. threads[t] \in ThreadRows
    BY <1>0
  <2>2. CASE threads[t].there
    <3>1. threads'[t] = [threads[t] EXCEPT !.last = Older(threads[t].last),
                          !.updated = IF threads[t].status = "trash" THEN Older(threads[t].updated)
                                      ELSE threads[t].updated]
      BY <2>1, <2>2 DEF Day, ThreadRows
    <3>2. /\ threads[t].last \in Nat /\ threads[t].updated \in Nat
          /\ threads[t].last <= threads[t].last /\ threads[t].updated <= threads[t].updated
      BY <2>1 DEF ThreadRows
    <3>3. Older(threads[t].last) \in Nat /\ Older(threads[t].updated) \in Nat
      BY <3>2, OlderIsMonotone
    <3>. QED
      BY <2>1, <3>1, <3>2, <3>3 DEF ThreadRows
  <2>3. CASE ~threads[t].there
    <3>1. threads'[t] = Absent
      BY <2>3 DEF Day
    <3>2. Ancient \in Nat
      BY ThreadAssumption DEF Ancient, Longer
    <3>3. threads[t].there = FALSE
      BY <2>1, <2>3 DEF ThreadRows
    <3>4. Absent \in ThreadRows /\ Absent.there = FALSE
      BY <3>2 DEF Absent, ThreadRows, Statuses, Counts
    <3>. QED
      BY <2>3, <3>1, <3>3, <3>4
  <2>. QED
    BY <2>2, <2>3
<1>3. threads' \in [Threads -> ThreadRows]
  <2>1. threads' = [u \in Threads |-> threads'[u]]
    BY DEF Day
  <2>. QED
    BY <1>2, <2>1
<1>4. ASSUME NEW m \in Messages
      PROVE  /\ messages'[m].thread = messages[m].thread
             /\ messages'[m].direction = messages[m].direction
             /\ messages'[m].read = messages[m].read
             /\ messages[m].thread # NoThread => messages'[m].age = Older(messages[m].age)
  <2>1. messages[m] \in Rows
    BY <1>0
  <2>2. CASE messages[m] = NoRow
    <3>1. messages'[m] = NoRow
      BY <2>2 DEF Day
    <3>2. NoRow.thread = NoThread
      BY DEF NoRow
    <3>. QED
      BY <2>2, <3>1, <3>2
  <2>3. CASE messages[m] # NoRow
    <3>1. messages'[m] = [messages[m] EXCEPT !.age = Older(messages[m].age)]
      BY <2>1, <2>3 DEF Day, Rows
    <3>. QED
      BY <2>1, <3>1 DEF Rows
  <2>. QED
    BY <2>2, <2>3
<1>5. ASSUME NEW t \in Threads
      PROVE  Kept(t)'
  <2>1. Kept(t) /\ t # NoThread
    BY Constants DEF SummaryInv
  <2>2. ~Pending(t) /\ Of(t)' = Of(t)
    BY <1>0, <1>4, <2>1 DEF Pending, Deleting, Of
  <2>3. Incoming(t)' = Incoming(t) /\ UnreadOf(t)' = UnreadOf(t)
    <3>1. Incoming(t)' = Incoming(t)
      BY <1>4, <2>2 DEF Incoming, Of
    <3>. QED
      BY <1>4, <3>1 DEF UnreadOf, Incoming, Of
  <2>4. CASE threads[t].there /\ t \notin stale
    <3>1. Told(t)
      BY <2>1, <2>2, <2>4 DEF Kept
    <3>2. ASSUME Of(t) # {}
          PROVE  Min(AgesOf(t)') = Older(Min(AgesOf(t)))
      <4>1. AgesOf(t) \in SUBSET Nat /\ AgesOf(t) # {}
        <5>1. \A m \in Of(t) : messages[m].age \in Nat
          BY <1>0 DEF Of, Rows
        <5>. QED
          BY <3>2, <5>1 DEF AgesOf
      <4>2. \A m \in Of(t) : messages'[m].age = Older(messages[m].age)
        BY <1>4, <2>1 DEF Of
      <4>3. AgesOf(t)' = {Older(n) : n \in AgesOf(t)}
        <5>1. AgesOf(t)' = {messages'[m].age : m \in Of(t)}
          BY <2>2 DEF AgesOf
        <5>2. AgesOf(t)' = {Older(messages[m].age) : m \in Of(t)}
          BY <4>2, <5>1
        <5>. QED
          BY <5>2 DEF AgesOf
      <4>. QED
        BY <4>1, <4>3, LeastGrowsOlder
    <3>3. Told(t)'
      BY <1>2, <2>2, <2>3, <2>4, <3>1, <3>2 DEF Told
    <3>. QED
      BY <1>2, <2>4, <3>3 DEF Kept
  <2>5. CASE ~(threads[t].there /\ t \notin stale)
    BY <1>0, <1>2, <2>1, <2>2, <2>5 DEF Kept
  <2>. QED
    BY <2>4, <2>5
<1>. QED
  BY <1>0, <1>1, <1>3, <1>5 DEF SummaryInv, Destined

\* Listing the objects of a thread, and choosing what to delete, leave the rows alone.
LEMMA QuietSummaries ==
  ASSUME SummaryInv, StoreInv', UNCHANGED <<threads, messages, at, to, marking, stale>>,
         \A d \in Deleters : job[d].at = "drop" => job'[d] = job[d]
  PROVE  SummaryInv'
<1>1. ASSUME NEW t \in Threads
      PROVE  Kept(t)'
  <2>1. Kept(t) /\ Same(t) /\ threads'[t] \in ThreadRows
    BY DEF SummaryInv, Same
  <2>2. Pending(t) => Pending(t)'
    BY <2>1, PendingElsewhere
  <2>. QED
    BY <2>1, <2>2, Undisturbed
<1>. QED
  BY <1>1 DEF SummaryInv, Destined

\* The rows of a thread that goes are forgotten; then it is dropped, if nothing came.
LEMMA ForgetSummaries ==
  ASSUME SummaryInv, NEW d \in Deleters, ForgetMessages(d)
  PROVE  SummaryInv'
<1>1. StoreInv'
  BY DeletionKeeps DEF SummaryInv, Deletion
<1>2. /\ messages' = [m \in Messages |-> IF m \in Of(job[d].thread) THEN NoRow ELSE messages[m]]
      /\ job[d].at = "forget" /\ job' = [job EXCEPT ![d].at = "drop"]
      /\ UNCHANGED <<threads, at, to, marking, stale>>
  BY DEF ForgetMessages, Deleting
<1>3. PICK g \in Threads : g = job[d].thread
  BY <1>2 DEF SummaryInv, StoreInv, JobOK
<1>4. /\ job'[d].at = "drop" /\ job'[d].thread = g
      /\ \A e \in Deleters \ {d} : job'[e] = job[e]
  BY <1>2, <1>3 DEF SummaryInv, StoreInv, StoreTypes, Jobs
<1>5. NoRow.thread = NoThread /\ NoThread \notin Threads
  BY Constants DEF NoRow
<1>6. ASSUME NEW t \in Threads
      PROVE  Kept(t)'
  <2>1. Kept(t) /\ threads'[t] \in ThreadRows
    BY <1>2 DEF SummaryInv
  <2>2. CASE t = g
    <3>1. Of(t)' = {}
      BY <1>2, <1>3, <1>5, <2>2 DEF Of
    <3>2. Pending(t)'
      BY <1>4, <2>2, <3>1 DEF Pending, Deleting
    <3>. QED
      BY <2>1, <3>1, <3>2 DEF Kept
  <2>3. CASE t # g
    <3>1. Same(t)
      BY <1>2, <1>3, <1>5, <2>3 DEF Same, Of
    <3>2. \A e \in Deleters : job[e].at = "drop" => job'[e] = job[e]
      BY <1>2, <1>4
    <3>3. Pending(t) => Pending(t)'
      BY <1>2, <3>1, <3>2, PendingElsewhere
    <3>. QED
      BY <1>2, <2>1, <3>1, <3>3, Undisturbed
  <2>. QED
    BY <2>2, <2>3
<1>. QED
  BY <1>1, <1>2, <1>6 DEF SummaryInv, Destined

\* A deletion that ends leaves no thread without messages, or remembers that it is stale.
LEMMA DropSummaries ==
  ASSUME SummaryInv, NEW d \in Deleters, DropThread(d) \/ DeletionStops(d)
  PROVE  SummaryInv'
<1>1. StoreInv'
  BY DeletionKeeps DEF SummaryInv, Deletion
<1>2. UNCHANGED <<messages, at, to, marking>> /\ Finish(d)
  BY DEF DropThread, DeletionStops
<1>3. job[d].at # "none" /\ StoreTypes /\ threads \in [Threads -> ThreadRows]
  BY DEF DropThread, DeletionStops, Deleting, SummaryInv, StoreInv
<1>4. PICK g \in Threads : g = job[d].thread
  BY <1>3 DEF SummaryInv, StoreInv, JobOK
<1>5. \A e \in Deleters \ {d} : job'[e] = job[e]
  BY <1>2, <1>3, FinishTyped
<1>6. /\ threads' \in [Threads -> ThreadRows]
      /\ \A t \in Threads \ {g} : threads'[t] = threads[t] /\ (t \in stale' <=> t \in stale)
  <2>1. CASE DropThread(d)
    <3>1. DeleteIfEmpty(g) /\ stale' \in {stale, stale \ {g}}
      BY <1>4, <2>1 DEF DropThread
    <3>. QED
      BY <1>3, <3>1, DeleteIfEmptyDoes
  <2>2. CASE DeletionStops(d)
    BY <1>3, <1>4, <2>2 DEF DeletionStops
  <2>. QED
    BY <2>1, <2>2
<1>7. ASSUME NEW t \in Threads
      PROVE  Same(t) /\ Kept(t) /\ threads'[t] \in ThreadRows
  BY <1>2, <1>6 DEF SummaryInv, Same
<1>8. ASSUME NEW t \in Threads, Pending(t), t = g => Of(t) # {} \/ job[d].at # "drop"
      PROVE  Pending(t)'
  <2>1. CASE Of(t) = {} /\ \E e \in Deleters : job[e].thread = t /\ Deleting(e, "drop")
    <3>1. PICK e \in Deleters : job[e].thread = t /\ job[e].at = "drop"
      BY <2>1 DEF Deleting
    <3>2. e # d
      BY <1>4, <1>8, <2>1, <3>1
    <3>. QED
      BY <1>5, <1>7, <2>1, <3>1, <3>2, SameSets DEF Pending, Deleting
  <2>2. CASE \E m \in Messages : to[m] = t /\ at[m] \in {"ensure", "insert", "archive", "link", "refresh"}
    BY <1>2, <2>2 DEF Pending
  <2>3. CASE marking = t
    BY <1>2, <2>3 DEF Pending
  <2>. QED
    BY <1>8, <2>1, <2>2, <2>3 DEF Pending
<1>9. ASSUME NEW t \in Threads, t # g
      PROVE  Kept(t)'
  BY <1>6, <1>7, <1>8, <1>9, Undisturbed
<1>10. Kept(g)'
  <2>1. CASE DropThread(d) /\ Of(g) = {}
    <3>1. DeleteIfEmpty(g)
      BY <1>4, <2>1 DEF DropThread
    <3>2. ~threads'[g].there /\ Of(g)' = {}
      BY <1>3, <1>7, <2>1, <3>1, DeleteIfEmptyDoes, SameSets
    <3>. QED
      BY <1>7, <3>2 DEF Kept
  <2>2. CASE DropThread(d) /\ Of(g) # {}
    <3>1. DeleteIfEmpty(g) /\ stale' = stale
      BY <1>4, <2>2 DEF DropThread
    <3>2. threads' = threads
      BY <1>3, <2>2, <3>1, DeleteIfEmptyDoes
    <3>3. Pending(g) => Pending(g)'
      BY <1>8, <2>2
    <3>. QED
      BY <1>7, <3>1, <3>2, <3>3, Undisturbed
  <2>3. CASE DeletionStops(d) /\ job[d].at = "drop"
    <3>1. threads' = threads /\ g \in stale'
      BY <1>4, <2>3 DEF DeletionStops, Deleting
    <3>. QED
      BY <1>7, <3>1, Undisturbed
  <2>4. CASE DeletionStops(d) /\ job[d].at # "drop"
    <3>1. threads' = threads /\ stale' = stale
      BY <2>4 DEF DeletionStops, Deleting
    <3>2. Pending(g) => Pending(g)'
      BY <1>8, <2>4
    <3>. QED
      BY <1>7, <3>1, <3>2, Undisturbed
  <2>. QED
    BY <2>1, <2>2, <2>3, <2>4
<1>11. marking' \in Threads \union {NoThread} /\ Destined'
  BY <1>2 DEF SummaryInv, Destined
<1>. QED
  BY <1>1, <1>6, <1>9, <1>10, <1>11 DEF SummaryInv

\* The steps of a deletion keep it.
LEMMA DeletionSummaries ==
  ASSUME SummaryInv, NEW d \in Deleters, Deletion(d)
  PROVE  SummaryInv'
<1>1. StoreInv'
  BY DeletionKeeps DEF SummaryInv
<1>2. CASE Erase(d) \/ EraseFails(d)
  <2>1. /\ UNCHANGED <<threads, messages, at, to, marking, stale>> /\ job[d].at = "erase"
        /\ job' = [job EXCEPT ![d].at = "forget"] \/ Finish(d)
    BY <1>2 DEF Erase, EraseFails, Deleting
  <2>2. \A e \in Deleters \ {d} : job'[e] = job[e]
    BY <2>1 DEF Finish, SummaryInv, StoreInv, StoreTypes
  <2>. QED
    BY <1>1, <2>1, <2>2, QuietSummaries
<1>. QED
  BY <1>2, ForgetSummaries, DropSummaries DEF Deletion

\* Every step keeps it.
LEMMA SummaryInvStep == SummaryInv /\ [Next]_vars => SummaryInv'
<1>. SUFFICES ASSUME SummaryInv, [Next]_vars PROVE SummaryInv'
  OBVIOUS
<1>1. StoreInv'
  BY StoreInvStep DEF SummaryInv
<1>2. CASE UNCHANGED vars
  <2>1. UNCHANGED <<threads, messages, at, to, marking, stale, job>>
    BY <1>2 DEF vars
  <2>. QED
    BY <1>1, <2>1, QuietSummaries
<1>3. CASE (\E t \in Threads : DeleteThread(t)) \/ DeleteNext
  <2>1. PICK d \in Deleters, t \in Threads : ListKeys(d, t)
    BY <1>3, DeletingBegins DEF SummaryInv
  <2>2. /\ UNCHANGED <<threads, messages, at, to, marking, stale>> /\ job[d].at = "none"
        /\ \A e \in Deleters \ {d} : job'[e] = job[e]
    BY <2>1 DEF ListKeys, Deleting, SummaryInv, StoreInv, StoreTypes
  <2>. QED
    BY <1>1, <2>2, QuietSummaries
<1>4. CASE Selecting
  <2>1. UNCHANGED <<threads, messages, at, to, marking, stale, job>>
    BY <1>4 DEF Selecting, SelectExpired, SelectTrash, EndRun
  <2>. QED
    BY <1>1, <2>1, QuietSummaries
<1>5. CASE Elsewhere
  BY <1>5, StatusSummaries, MarkSummaries, MarkedSummaries, DaySummaries DEF Elsewhere
<1>. QED
  BY <1>2, <1>3, <1>4, <1>5, NextIs, ActSummaries, DeletionSummaries

\* No thread is there in the first state.
LEMMA SummaryInvInit == Init => SummaryInv
<1>. SUFFICES ASSUME Init PROVE SummaryInv
  OBVIOUS
<1>1. StoreInv
  BY StoreInvInit
<1>2. /\ threads = [t \in Threads |-> Absent] /\ marking = NoThread
      /\ at = [m \in Messages |-> "new"] /\ messages = [m \in Messages |-> NoRow]
  BY DEF Init
<1>3. Absent \in ThreadRows /\ Absent.there = FALSE /\ NoRow.thread = NoThread
  <2>1. Ancient \in Nat
    BY ThreadAssumption DEF Ancient, Longer
  <2>. QED
    BY <2>1 DEF Absent, ThreadRows, Statuses, Counts, NoRow
<1>4. \A t \in Threads : Of(t) = {}
  BY <1>2, <1>3, Constants DEF Of
<1>. QED
  BY <1>1, <1>2, <1>3, <1>4 DEF SummaryInv, Destined, Kept

\* Whatever interleaves, for any number of messages and threads: a summary that no invocation
\* is about to refresh, and none left stale by ending early, is what the messages say.
THEOREM SummariesAreTrue == Spec => []SummaryIsTrue
<1>. QED
  BY SummaryInvInit, SummaryInvStep, SummaryFollows, PTL DEF Spec
=============================================================================
