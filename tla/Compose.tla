------------------------------ MODULE Compose ------------------------------
(***************************************************************************)
(* public/js/compose.mjs: the draft in the compose dialog and its          *)
(* Idempotency-Key.  submitCompose reads some fields before it awaits the  *)
(* files and some after, and a draft may be dropped and another one opened *)
(* while it waits; one submission is in flight at most, since its button   *)
(* is disabled.  What the server does with a key is the promise that       *)
(* module OutboundSend checks: a key is bound to the first request.        *)
(***************************************************************************)
EXTENDS ThreadDetail

CONSTANTS
  Texts,    \* what may be written in the fields
  MaxKeys   \* bound: keys made

\* A serialized payload is never empty, as the attempted one is at first.
ASSUME ComposeAssumption == MaxKeys \in Nat /\ "" \notin Texts

VARIABLES
  open,       \* the dialog is open
  mode,       \* state.composeMode
  parent,     \* the conversation of state.composeParent
  key,        \* state.composeKey
  attempted,  \* state.composeAttemptedPayload
  submit,     \* the submission in flight
  keys,       \* keys made so far
  drafts,     \* drafts opened so far (history)
  taken,      \* the request the server took under each key
  sent        \* the requests, in their order (history)

composeVars == <<open, mode, parent, key, attempted, submit, keys, drafts, taken, sent>>
draft == <<mode, parent, key, attempted, drafts>>

NoKey == 0
NoPayload == [text |-> "", thread |-> NoThread, parent |-> NoThread]
NoRequest == [forward |-> NoThread, payload |-> NoPayload]
NotTaken == [thread |-> NoThread, request |-> NoRequest]
NoSubmit == [at |-> "none", text |-> "", key |-> NoKey, request |-> NoRequest, thread |-> NoThread,
             waits |-> 0]

ComposeInit ==
  /\ open = FALSE /\ mode = "compose" /\ parent = NoThread
  /\ key = NoKey /\ attempted = NoPayload
  /\ submit = NoSubmit
  /\ keys = 0 /\ drafts = 0 /\ taken = [k \in 1..MaxKeys |-> NotTaken] /\ sent = <<>>

\* openCompose, openReply, openForward: resetCompose, and what the draft answers.
openDraft(m, p) ==
  /\ ~open /\ open' = TRUE
  /\ keys < MaxKeys /\ keys' = keys + 1
  /\ key' = keys' /\ attempted' = NoPayload
  /\ drafts' = drafts + 1
  /\ mode' = m /\ parent' = p
  /\ UNCHANGED <<submit, taken, sent>>

\* A reply or a forward is to the detail, which is the conversation shown last while another
\* one is being opened.
Draft ==
  \/ openDraft("compose", NoThread)
  \/ detail # NoDetail /\ openDraft("reply", detail.thread)
  \/ pane # NoDetail /\ openDraft("forward", detail.thread)

Cancel ==
  /\ open /\ open' = FALSE
  /\ UNCHANGED <<draft, submit, keys, taken, sent>>

\* The fields, with what is written in them by now, are read before the files are.
submitCompose(w) ==
  /\ open /\ submit.at = "none"
  /\ submit' = [NoSubmit EXCEPT !.at = "files", !.text = w]
  /\ UNCHANGED <<open, draft, keys, taken, sent>>

Payload(w) == [text   |-> w,
               thread |-> IF mode = "reply" THEN selected ELSE NoThread,
               parent |-> IF mode = "reply" THEN parent ELSE NoThread]

\* Variant: a draft keeps its key, whatever becomes of its content.
KeyKept(payload) == key' = key /\ keys' = keys

\* Another content than the one attempted last gets another key.
ComposeKey(payload) ==
  IF attempted # NoPayload /\ attempted # payload
  THEN keys < MaxKeys /\ keys' = keys + 1 /\ key' = keys'
  ELSE key' = key /\ keys' = keys

\* The files are read; the rest of the payload is taken from the state as it is now.
Post ==
  /\ submit.at = "files"
  /\ LET payload == Payload(submit.text)
         asked == [forward |-> IF mode = "forward" THEN parent ELSE NoThread, payload |-> payload]
     IN  /\ ComposeKey(payload)
         /\ attempted' = payload
         /\ submit' = [submit EXCEPT !.at = "posted", !.key = key', !.request = asked]
         /\ sent' = Append(sent, [draft |-> drafts, key |-> key', request |-> asked])
  /\ UNCHANGED <<open, mode, parent, drafts, taken>>

\* sendMessage and forwardMessage: the message is stored under its key, in the conversation it
\* replies to or in a new one; or it was stored by an earlier request, or the request fails.
\* An answer that is lost is a failure to the console.
Target(r) == IF r.payload.parent # NoThread THEN {r.payload.parent} \intersect {t \in Threads : There(t)}
             ELSE {t \in Threads : rows[t].folder = "new"}

PostStored(answer) ==
  /\ submit.at = "posted" /\ taken[submit.key].thread = NoThread
  /\ \E t \in Target(submit.request), f \in Folders :
       /\ There(t) => f = rows[t].folder
       /\ AddMessage(t, f)
       /\ taken' = [taken EXCEPT ![submit.key] = [thread |-> t, request |-> submit.request]]
       /\ submit' = [submit EXCEPT !.at = answer, !.thread = t]
  /\ UNCHANGED <<open, draft, keys, sent>>

PostKnown ==
  /\ submit.at = "posted"
  /\ taken[submit.key].thread # NoThread /\ taken[submit.key].request = submit.request
  /\ submit' = [submit EXCEPT !.at = "taken", !.thread = taken[submit.key].thread]
  /\ UNCHANGED <<open, draft, keys, taken, sent>>

PostFails ==
  /\ submit.at = "posted"
  /\ submit' = [submit EXCEPT !.at = "failed"]
  /\ UNCHANGED <<open, draft, keys, taken, sent>>

\* The answer closes the dialog, whichever draft it holds.
Sent ==
  /\ submit.at = "taken"
  /\ open' = FALSE /\ key' = NoKey /\ attempted' = NoPayload
  /\ submit' = [submit EXCEPT !.at = "reload"]
  /\ UNCHANGED <<mode, parent, drafts, keys, taken, sent>>

NotSent ==
  /\ submit.at = "failed"
  /\ submit' = NoSubmit
  /\ UNCHANGED <<open, draft, keys, taken, sent>>

Payloads == [text : Texts \union {""}, thread : Conversations, parent : Conversations]
Posts == [forward : Conversations, payload : Payloads]
Submits == [at : {"none", "files", "posted", "taken", "failed", "reload", "opened"},
            text : Texts \union {""}, key : 0..MaxKeys, request : Posts, thread : Conversations,
            waits : Nat]

\* The type of every variable; and what is submitted has a key.
ComposeTypeOK ==
  /\ open \in BOOLEAN /\ mode \in {"compose", "reply", "forward"} /\ parent \in Conversations
  /\ keys \in 0..MaxKeys /\ key \in 0..keys /\ attempted \in Payloads /\ drafts \in Nat
  /\ submit \in Submits
  /\ taken \in [1..MaxKeys -> [thread : Conversations, request : Posts]]
  /\ sent \in Seq([draft : Nat, key : 1..keys, request : Posts])
  /\ open \/ submit.at = "files" => key # NoKey
  /\ submit.at = "files" => submit.text \in Texts
  /\ submit.at = "posted" => submit.key # NoKey

\* A key is sent with one content only, so that the server refuses no draft for what another
\* one, or an earlier state of it, was; and a draft that is sent again as it was keeps its key,
\* so that a lost answer leads to no second message.
KeysFollowContent ==
  \A i, j \in DOMAIN sent :
    /\ sent[i].key = sent[j].key => sent[i].request = sent[j].request
    /\ j = i + 1 /\ sent[i].draft = sent[j].draft /\ sent[i].request = sent[j].request
         => sent[i].key = sent[j].key
=============================================================================
