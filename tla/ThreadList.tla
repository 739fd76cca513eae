----------------------------- MODULE ThreadList -----------------------------
(***************************************************************************)
(* The list of conversations: listThreads of src/mail/threads.ts, which    *)
(* pages by a cursor, and loadThreads of public/js/messages.mjs, which     *)
(* appends the pages while conversations come and go on the server.  One   *)
(* load is in flight at most: what asks for another one meanwhile gets     *)
(* nothing.  A folder stands for all that narrows the list.                *)
(***************************************************************************)
EXTENDS Naturals, Sequences, FiniteSets, SequencesExt

CONSTANTS
  Threads,      \* by the order of their ids
  Folders,
  Inbox,        \* the folder state.mjs starts with
  PageLimit,    \* the limit of threadParams
  MaxArrivals   \* bound: messages that come in

ASSUME ListAssumption ==
  /\ Threads \subseteq Nat \ {0} /\ IsFiniteSet(Threads)
  /\ PageLimit \in Nat \ {0} /\ MaxArrivals \in Nat
  /\ Inbox \in Folders /\ Folders \intersect {"new", "gone"} = {}

VARIABLES
  rows,        \* mail_threads on the server: folder ("new" before, "gone" after), last_message_at, messages
  arrivals,    \* messages added so far
  folder,      \* state.folder
  threads,     \* state.threads
  cursor,      \* state.cursor
  hasMore,     \* state.hasMore
  load,        \* the load in flight (state.loading), and who waits for it
  moved,       \* threads that changed since the first page was read (history)
  listed,      \* the folder the first page was asked for (history)
  spoiled      \* a reload failed, or a page of another folder was appended (history)

listVars == <<rows, arrivals, folder, threads, cursor, hasMore, load, moved, listed, spoiled>>
view == <<threads, cursor, hasMore, listed, spoiled>>

NoCursor == [at |-> 0, thread |-> 0]
NoLoad == [at |-> "none", reset |-> FALSE, folder |-> "none", cursor |-> NoCursor, by |-> "none",
           page |-> <<>>, more |-> FALSE]
Loading == load.at # "none"

ListInit ==
  /\ rows \in [Threads -> [folder : Folders, at : {1}, count : {2}]
                       \union [folder : {"new"}, at : {0}, count : {0}]]
  /\ arrivals = 0
  /\ folder = Inbox
  /\ threads = <<>> /\ cursor = NoCursor /\ hasMore = FALSE
  /\ load = [NoLoad EXCEPT !.at = "asked", !.reset = TRUE, !.folder = Inbox]  \* of showMail
  /\ moved = {} /\ listed = "none" /\ spoiled = FALSE

\* Variant: conversations of the same time as the last one of a page are passed over.
BelowTime(t, c) == c = NoCursor \/ rows[t].at < c.at

\* What comes after the cursor, by last_message_at and then by id.
Below(t, c) == c = NoCursor \/ rows[t].at < c.at \/ (rows[t].at = c.at /\ t < c.thread)

\* The order of the list, the newest first: each conversation comes after as many as precede it.
Precedes(s, t) == rows[s].at > rows[t].at \/ (rows[s].at = rows[t].at /\ s > t)

listThreads(f, c) ==
  LET found == {t \in Threads : rows[t].folder = f /\ Below(t, c)}
  IN  [n \in 1..Cardinality(found) |->
         CHOOSE t \in found : Cardinality({s \in found : Precedes(s, t)}) = n - 1]

\* loadThreads up to its request; `by` waits for it.
Ask(reset, f, by) ==
  /\ ~Loading
  /\ load' = [NoLoad EXCEPT !.at = "asked", !.reset = reset, !.folder = f, !.by = by,
                            !.cursor = IF reset THEN NoCursor ELSE cursor]
  /\ cursor' = IF reset THEN NoCursor ELSE cursor
  /\ spoiled' = (spoiled \/ (~reset /\ f # listed))
  /\ UNCHANGED <<threads, hasMore, listed, moved>>

\* loadThreads as it is called: nothing happens while another load is in flight.
loadThreads(reset, f, by) ==
  \/ Ask(reset, f, by)
  \/ Loading /\ UNCHANGED <<load, view, moved>>

LoadServed ==
  /\ load.at = "asked"
  /\ LET all == listThreads(load.folder, load.cursor)
         page == SubSeq(all, 1, IF Len(all) < PageLimit THEN Len(all) ELSE PageLimit)
     IN  load' = [load EXCEPT !.at = "served", !.more = Len(all) > PageLimit,
                  !.page = [n \in 1..Len(page) |-> [thread |-> page[n], at |-> rows[page[n]].at]]]
  /\ moved' = IF load.reset THEN {} ELSE moved
  /\ UNCHANGED <<rows, arrivals, folder, view>>

LoadShown ==
  /\ load.at = "served"
  /\ LET page == [n \in 1..Len(load.page) |-> load.page[n].thread]
     IN  threads' = IF load.reset THEN page ELSE threads \o page
  /\ hasMore' = load.more
  /\ cursor' = IF load.more THEN Last(load.page) ELSE NoCursor
  /\ load' = NoLoad
  /\ listed' = IF load.reset THEN load.folder ELSE listed
  /\ spoiled' = (spoiled /\ ~load.reset)
  /\ UNCHANGED <<rows, arrivals, folder, moved>>

\* What was shown stays, and a first page that failed leaves no cursor behind.
LoadFails ==
  /\ Loading
  /\ load' = NoLoad
  /\ spoiled' = (spoiled \/ load.reset)
  /\ UNCHANGED <<rows, arrivals, folder, moved, threads, cursor, hasMore, listed>>

There(t) == rows[t].folder \notin {"new", "gone"}

\* A message is added to a conversation, which moves to the front.
AddMessage(t, f) ==
  /\ arrivals' = arrivals + 1
  /\ rows' = [rows EXCEPT ![t] = [folder |-> f, at |-> 1 + arrivals', count |-> @.count + 1]]
  /\ moved' = moved \union {t}

Arrive(t) ==
  /\ arrivals < MaxArrivals /\ There(t)
  /\ AddMessage(t, rows[t].folder)
  /\ UNCHANGED <<folder, view, load>>

\* setThreadStatus or deleteThreadData on the server.
MoveTo(t, f) ==
  /\ rows' = [rows EXCEPT ![t].folder = f]
  /\ moved' = moved \union {t}

Cursors == [thread : Threads \union {0}, at : Nat]
Loads == [at : {"none", "asked", "served"}, reset : BOOLEAN, folder : Folders \union {"none"},
          cursor : Cursors, by : {"none", "task", "submit"}, page : Seq([thread : Threads, at : Nat]),
          more : BOOLEAN]

\* The type of every variable.
ListTypeOK ==
  /\ rows \in [Threads -> [folder : Folders \union {"new", "gone"}, at : Nat, count : Nat]]
  /\ arrivals \in Nat
  /\ folder \in Folders /\ listed \in Folders \union {"none"}
  /\ threads \in Seq(Threads) /\ cursor \in Cursors /\ hasMore \in BOOLEAN
  /\ load \in Loads /\ (load.more => load.page # <<>>)
  /\ moved \subseteq Threads /\ spoiled \in BOOLEAN

\* The pages that were loaded, one after the other while conversations moved, hold each one
\* that did not move exactly once, if it is in the folder and not after the cursor.  A list is
\* spoiled by a reload that fails, and by a page of another folder than its own.
ListIsExact ==
  ~Loading /\ ~spoiled /\ listed # "none" =>
    \A t \in Threads \ moved :
      Cardinality({n \in DOMAIN threads : threads[n] = t}) =
        IF rows[t].folder = listed /\ (hasMore => ~Below(t, cursor)) THEN 1 ELSE 0
=============================================================================
