------------------------------ MODULE Console ------------------------------
(***************************************************************************)
(* The administration console: the list, the detail pane and the compose   *)
(* dialog share one state object (public/js/state.mjs), and every handler  *)
(* goes on after each of its requests with whatever the others have made   *)
(* of it meanwhile.  A click is any input of the user outside the dialog,  *)
(* which is modal.                                                         *)
(***************************************************************************)
EXTENDS Compose

CONSTANTS
  MaxClicks,   \* bound: clicks
  MaxFaults  \* bound: requests that fail, or whose answer is lost

ASSUME ConsoleAssumption == MaxClicks \in Nat /\ MaxFaults \in Nat

VARIABLES
  clicks, faults,
  task  \* the action on a conversation in flight: one at a time

consoleVars == <<listVars, detailVars, composeVars, clicks, faults, task>>

NoTask == [at |-> "none", kind |-> "none", thread |-> NoThread, to |-> "none"]

ConsoleInit == ListInit /\ DetailInit /\ ComposeInit /\ clicks = 0 /\ faults = 0 /\ task = NoTask

Click == ~open /\ clicks < MaxClicks /\ clicks' = clicks + 1
server == <<rows, arrivals>>
rest == <<task, faults, composeVars>>

Fails == faults < MaxFaults /\ faults' = faults + 1

\* A folder of the sidebar: the pane is emptied, and its list is asked for.
setFolder(f) ==
  /\ Click /\ folder' = f
  /\ closeDetail
  /\ loadThreads(TRUE, f, "none")
  /\ UNCHANGED <<server, rest>>

\* "Load more", and refreshMailboxView, which ends in a reload.  A call while a load is in
\* flight is dropped and changes nothing.
LoadMore == Click /\ hasMore /\ Ask(FALSE, folder, "none") /\ UNCHANGED <<server, folder, detailVars, rest>>
refreshMailboxView == Click /\ Ask(TRUE, folder, "none") /\ UNCHANGED <<server, folder, detailVars, rest>>

OpenRow == Click /\ (\E n \in DOMAIN threads : openThread(threads[n])) /\ UNCHANGED <<listVars, rest>>
Older == Click /\ loadOlderMessages /\ UNCHANGED <<listVars, rest>>

\* The buttons of the pane: threadStatusAction, which names the conversation of its detail;
\* toggleRead, which names the selected one, and retryArchivedMessage.
Act ==
  /\ Click /\ task = NoTask /\ pane # NoDetail
  /\ \/ \E f \in Folders \union {"gone"} :
          task' = [at |-> "posted", kind |-> "status", thread |-> detail.thread, to |-> f]
     \/ \E k \in {"read", "retry"} :
          task' = [at |-> "posted", kind |-> k, thread |-> selected, to |-> "none"]
  /\ UNCHANGED <<listVars, detailVars, composeVars, faults>>

\* The server did what was asked.
ActServed ==
  /\ task.at = "posted" /\ There(task.thread)
  /\ IF task.kind = "status" THEN MoveTo(task.thread, task.to) ELSE UNCHANGED <<rows, moved>>
  /\ \/ task' = [task EXCEPT !.at = IF task.kind = "read" THEN "loaded" ELSE "served"] /\ UNCHANGED faults
     \/ task' = NoTask /\ Fails
  /\ UNCHANGED <<arrivals, folder, view, load, detailVars, composeVars, clicks>>

\* The list is loaded again, at once if a load is in flight.
ActReload ==
  /\ task.at = "served"
  /\ loadThreads(TRUE, folder, "task")
  /\ task' = [task EXCEPT !.at = "loaded"]
  /\ UNCHANGED <<server, folder, detailVars, composeVars, clicks, faults>>

\* And the pane is closed, whatever it shows by now; or what is selected by now is opened.
ActEnds ==
  /\ task.at = "loaded" /\ load.by # "task"
  /\ IF task.kind = "status" THEN closeDetail ELSE openThread(selected)
  /\ task' = NoTask
  /\ UNCHANGED <<listVars, composeVars, clicks, faults>>

\* submitCompose after its success: the list is loaded again, and the conversation opened.
SentReload ==
  /\ Sent
  /\ loadThreads(TRUE, folder, "submit")
  /\ UNCHANGED <<server, folder, detailVars, clicks, faults, task>>

SentOpen ==
  /\ submit.at = "reload" /\ load.by # "submit"
  /\ openThread(submit.thread)
  /\ submit' = [submit EXCEPT !.at = "opened", !.waits = request']
  /\ UNCHANGED <<listVars, open, draft, keys, taken, sent, clicks, faults, task>>

SentEnds ==
  /\ submit.at = "opened" /\ \A o \in opens : o.request # submit.waits
  /\ submit' = NoSubmit
  /\ UNCHANGED <<listVars, detailVars, open, draft, keys, taken, sent, clicks, faults, task>>

ListStep ==
  /\ LoadServed \/ LoadShown \/ \E t \in Threads : Arrive(t)
  /\ UNCHANGED <<detailVars, composeVars, clicks, faults, task>>

DetailStep == Answer /\ UNCHANGED <<listVars, composeVars, clicks, faults, task>>

ComposeStep ==
  /\ Draft \/ Cancel \/ (\E w \in Texts : submitCompose(w)) \/ Post \/ PostKnown \/ NotSent
  /\ UNCHANGED <<listVars, detailVars, clicks, faults, task>>

Stored == PostStored("taken") /\ UNCHANGED <<folder, view, load, detailVars, clicks, faults, task>>

\* A request fails before it is served or after; a refused request fails as well.
Failure ==
  /\ Fails /\ UNCHANGED clicks
  /\ \/ LoadFails /\ UNCHANGED <<detailVars, composeVars, task>>
     \/ NoAnswerComes /\ UNCHANGED <<listVars, composeVars, task>>
     \/ task.at = "posted" /\ task' = NoTask /\ UNCHANGED <<listVars, detailVars, composeVars>>
     \/ PostFails /\ UNCHANGED <<listVars, detailVars, task>>
     \/ PostStored("failed") /\ UNCHANGED <<folder, view, load, detailVars, task>>

ConsoleNext ==
  \/ (\E f \in Folders : setFolder(f)) \/ LoadMore \/ refreshMailboxView \/ OpenRow \/ Older \/ Act
  \/ ActServed \/ ActReload \/ ActEnds
  \/ SentReload \/ SentOpen \/ SentEnds
  \/ ListStep \/ DetailStep \/ ComposeStep \/ Stored \/ Failure

ConsoleSpec == ConsoleInit /\ [][ConsoleNext]_consoleVars

\* The type of every variable.
ConsoleTypeOK ==
  /\ ListTypeOK /\ DetailTypeOK /\ ComposeTypeOK
  /\ clicks \in 0..MaxClicks /\ faults \in 0..MaxFaults
  /\ task \in [at : {"none", "posted", "served", "loaded"}, kind : {"none", "status", "read", "retry"},
              thread : Conversations, to : Folders \union {"none", "gone"}]
  /\ task.at = "posted" => task.thread \in Threads
  /\ task.at = "posted" /\ task.kind = "status" => task.to \in Folders \union {"gone"}
=============================================================================
