---------------------------- MODULE MessageStore ----------------------------
(***************************************************************************)
(* What the deletion of conversations promises (the comment at             *)
(* src/mail/retention.ts:25): the rows of D1 outlive the objects of R2     *)
(* that they name, so that whatever fails half way can be found again.     *)
(* Module ThreadStore is shown to implement it.                            *)
(***************************************************************************)
CONSTANTS Messages, Threads, NoThread, Deleters

VARIABLES
  place,    \* the thread of every row of mail_messages
  objects,  \* the messages whose raw object is in R2
  doomed    \* what each deletion set out to erase, and of which thread

vars == <<place, objects, doomed>>
NoDeletion == [thread |-> NoThread, keys |-> {}]

Init ==
  /\ place = [m \in Messages |-> NoThread]
  /\ objects = {}
  /\ doomed = [d \in Deleters |-> NoDeletion]

Place(m, t) ==
  /\ place[m] = NoThread /\ place' = [place EXCEPT ![m] = t]
  /\ UNCHANGED <<objects, doomed>>

Archive(m) == objects' = objects \union {m} /\ UNCHANGED <<place, doomed>>

\* An object whose message got no row.
Withdraw(m) == place[m] = NoThread /\ objects' = objects \ {m} /\ UNCHANGED <<place, doomed>>

Begin(d, t, keys) ==
  /\ doomed[d] = NoDeletion
  /\ \A m \in keys : place[m] = t
  /\ doomed' = [doomed EXCEPT ![d] = [thread |-> t, keys |-> keys]]
  /\ UNCHANGED <<place, objects>>

\* Only what some deletion listed is erased, all of it or a part.
Erase(d, keys) ==
  /\ keys \subseteq doomed[d].keys
  /\ objects' = objects \ keys
  /\ doomed' \in {doomed, [doomed EXCEPT ![d] = NoDeletion]}
  /\ UNCHANGED place

\* The rows of a thread go together, and nothing the deletion listed is left behind in R2.
Forget(d) ==
  /\ doomed[d] # NoDeletion /\ doomed[d].keys \intersect objects = {}
  /\ place' = [m \in Messages |-> IF place[m] = doomed[d].thread THEN NoThread ELSE place[m]]
  /\ UNCHANGED <<objects, doomed>>

End(d) == doomed' = [doomed EXCEPT ![d] = NoDeletion] /\ UNCHANGED <<place, objects>>

Next ==
  \/ \E m \in Messages : Archive(m) \/ Withdraw(m) \/ \E t \in Threads : Place(m, t)
  \/ \E d \in Deleters :
       \/ \E t \in Threads, keys \in SUBSET Messages : Begin(d, t, keys)
       \/ \E keys \in SUBSET doomed[d].keys : Erase(d, keys)
       \/ Forget(d)
       \/ End(d)

Spec == Init /\ [][Next]_vars
=============================================================================
