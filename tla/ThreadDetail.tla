---------------------------- MODULE ThreadDetail ----------------------------
(***************************************************************************)
(* The conversation in the detail pane: openThread, loadOlderMessages and  *)
(* closeDetail of public/js/messages.mjs against getThread of              *)
(* src/mail/threads.ts, whose pages are counted from the newest message.   *)
(* Answers come in any order; detailRequest tells the last request from    *)
(* the ones before.  Messages of a conversation are numbered from the      *)
(* oldest; read marks are left to module ThreadStore.                      *)
(***************************************************************************)
EXTENDS ThreadList

CONSTANTS MessageLimit  \* the messages of a page

ASSUME DetailAssumption == MessageLimit \in Nat \ {0}

VARIABLES
  selected,  \* state.selectedThread
  detail,    \* state.selectedDetail, and what makes it another object
  request,   \* state.detailRequest
  pane,      \* what the pane shows: the object, a notice, or nothing
  opens,     \* openThread calls in flight
  olders,    \* loadOlderMessages calls in flight
  objects    \* details made so far

detailVars == <<selected, detail, request, pane, opens, olders, objects>>

NoThread == 0
NoDetail == [id |-> 0, thread |-> NoThread, messages |-> {}, more |-> FALSE, total |-> 0,
             read |-> 0, first |-> 0]  \* first: the total when it was opened (history)
NoAnswer == [there |-> FALSE, messages |-> {}, more |-> FALSE, total |-> 0,
             read |-> 0]  \* what the total was when the messages were read (history)

DetailInit ==
  /\ selected = NoThread /\ detail = NoDetail /\ pane = NoDetail
  /\ request = 0 /\ objects = 0
  /\ opens = {} /\ olders = {}

\* getThread up to its count, which tells whether there are more messages.
countMessages(t, offset) ==
  IF t # NoThread /\ There(t)
  THEN [NoAnswer EXCEPT !.there = TRUE, !.total = rows[t].count,
                        !.more = offset + MessageLimit < rows[t].count]
  ELSE NoAnswer

\* And from there on: a page of messages, offset from the newest one.
readMessages(t, offset, answer) ==
  IF answer.there /\ There(t)
  THEN [answer EXCEPT !.read = rows[t].count,
          !.messages = {n \in 1..rows[t].count : /\ n <= rows[t].count - offset
                                                 /\ n > rows[t].count - offset - MessageLimit}]
  ELSE answer

openThread(t) ==
  /\ request' = request + 1
  /\ selected' = t
  /\ pane' = NoDetail
  /\ opens' = opens \union {[request |-> request', thread |-> t, at |-> "asked", answer |-> NoAnswer]}
  /\ UNCHANGED <<detail, olders, objects>>

OpenCounted(o) ==
  /\ o \in opens /\ o.at = "asked"
  /\ opens' = (opens \ {o}) \union
       {[o EXCEPT !.at = "counted", !.answer = countMessages(o.thread, 0)]}
  /\ UNCHANGED <<selected, detail, request, pane, olders, objects>>

OpenServed(o) ==
  /\ o \in opens /\ o.at = "counted"
  /\ opens' = (opens \ {o}) \union
       {[o EXCEPT !.at = "served", !.answer = readMessages(o.thread, 0, o.answer)]}
  /\ UNCHANGED <<selected, detail, request, pane, olders, objects>>

Show(d) == objects' = objects + 1 /\ detail' = [d EXCEPT !.id = objects'] /\ pane' = detail'

Opened(t, answer) ==
  [NoDetail EXCEPT !.thread = t, !.messages = answer.messages, !.more = answer.more,
                   !.total = answer.total, !.read = answer.read, !.first = answer.total]

\* Variant: every answer is shown.
OpenShownAlways(o) ==
  /\ o \in opens /\ o.at = "served"
  /\ opens' = opens \ {o}
  /\ IF o.answer.there
     THEN Show(Opened(o.thread, o.answer))
     ELSE UNCHANGED <<detail, pane, objects>>
  /\ UNCHANGED <<selected, request, olders>>

\* The call is the last one, and still for the selected conversation.
IsLast(o) == o.request = request /\ selected = o.thread

\* Only the answer to the last call is shown, or its error as a notice.  What is shown may have
\* to be marked as read, which the call waits for.
OpenShown(o) ==
  /\ o \in opens /\ o.at = "served"
  /\ \/ /\ IsLast(o) /\ o.answer.there
        /\ Show(Opened(o.thread, o.answer))
        /\ \E marking \in {{}, {[o EXCEPT !.at = "marking", !.answer = NoAnswer]}} :
             opens' = (opens \ {o}) \union marking
     \/ /\ IsLast(o) /\ ~o.answer.there
        /\ pane' = NoDetail /\ opens' = opens \ {o}
        /\ UNCHANGED <<detail, objects>>
     \/ /\ ~IsLast(o) /\ opens' = opens \ {o}
        /\ UNCHANGED <<detail, pane, objects>>
  /\ UNCHANGED <<selected, request, olders>>

MarkedRead(o) ==
  /\ o \in opens /\ o.at = "marking"
  /\ opens' = opens \ {o}
  /\ UNCHANGED <<selected, detail, request, pane, olders, objects>>

\* The notice of the error takes the place of whatever the pane shows, the conversation that
\* could not be marked as read included.
OpenFails(o) ==
  /\ o \in opens
  /\ opens' = opens \ {o}
  /\ pane' = IF IsLast(o) THEN NoDetail ELSE pane
  /\ UNCHANGED <<selected, detail, request, olders, objects>>

\* The button is there while the pane shows a detail with more messages.
loadOlderMessages ==
  /\ pane # NoDetail /\ selected # NoThread /\ detail.more
  /\ \A o \in olders : o.detail.id # detail.id
  /\ olders' = olders \union {[detail |-> detail, at |-> "asked", answer |-> NoAnswer]}
  /\ UNCHANGED <<selected, detail, request, pane, opens, objects>>

OlderCounted(o) ==
  /\ o \in olders /\ o.at = "asked"
  /\ olders' = (olders \ {o}) \union
       {[o EXCEPT !.at = "counted",
                  !.answer = countMessages(o.detail.thread, Cardinality(o.detail.messages))]}
  /\ UNCHANGED <<selected, detail, request, pane, opens, objects>>

OlderServed(o) ==
  /\ o \in olders /\ o.at = "counted"
  /\ olders' = (olders \ {o}) \union
       {[o EXCEPT !.at = "served",
                  !.answer = readMessages(o.detail.thread, Cardinality(o.detail.messages), o.answer)]}
  /\ UNCHANGED <<selected, detail, request, pane, opens, objects>>

Extended(d, answer) ==
  [d EXCEPT !.messages = @ \union answer.messages, !.more = answer.more,
            !.total = answer.total, !.read = answer.read]

\* Added to the detail it was asked for, if that is the one of the state still.
OlderShown(o) ==
  /\ o \in olders /\ o.at = "served"
  /\ olders' = olders \ {o}
  /\ IF selected = o.detail.thread /\ detail.id = o.detail.id /\ o.answer.there
     THEN Show(Extended(o.detail, o.answer))
     ELSE UNCHANGED <<detail, pane, objects>>
  /\ UNCHANGED <<selected, request, opens>>

OlderFails(o) ==
  /\ o \in olders
  /\ olders' = olders \ {o}
  /\ UNCHANGED <<selected, detail, request, pane, opens, objects>>

closeDetail ==
  /\ request' = request + 1
  /\ selected' = NoThread /\ detail' = NoDetail /\ pane' = NoDetail
  /\ UNCHANGED <<opens, olders, objects>>

Answer ==
  \/ \E o \in opens : OpenCounted(o) \/ OpenServed(o) \/ OpenShown(o) \/ MarkedRead(o)
  \/ \E o \in olders : OlderCounted(o) \/ OlderServed(o) \/ OlderShown(o)

NoAnswerComes == (\E o \in opens : OpenFails(o)) \/ \E o \in olders : OlderFails(o)

Conversations == Threads \union {NoThread}
Details == [id : Nat, thread : Conversations, messages : SUBSET Nat, more : BOOLEAN, total : Nat,
            read : Nat, first : Nat]
Answers == [there : BOOLEAN, messages : SUBSET Nat, more : BOOLEAN, total : Nat, read : Nat]
Stages == {"asked", "counted", "served", "marking"}

\* The type of every variable.
DetailTypeOK ==
  /\ selected \in Conversations /\ detail \in Details /\ pane \in Details
  /\ request \in Nat /\ objects \in Nat
  /\ opens \subseteq [request : Nat, thread : Conversations, at : Stages, answer : Answers]
  /\ olders \subseteq [detail : Details, at : Stages, answer : Answers]

\* The pane shows the selected conversation and none that was opened before it, whatever order
\* the answers come in.  Its messages have no gap as long as no more than two pages of them came
\* in since it was opened: its pages are counted from the newest message, so beyond that an older
\* page begins below the ones that it should follow.  And the first message is among them when
\* it offers no more, unless one came in between the count of a page and its messages.
PaneIsWhole ==
  pane # NoDetail =>
    /\ pane.thread = selected /\ pane = detail
    /\ There(pane.thread) =>
         /\ rows[pane.thread].count <= pane.first + 2 * MessageLimit =>
              \A n \in pane.messages : \A k \in n..rows[pane.thread].count :
                k \in pane.messages \/ \A j \in pane.messages : j < k
         /\ pane.more \/ 1 \in pane.messages \/ pane.read > pane.total
=============================================================================
