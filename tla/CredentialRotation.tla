------------------------- MODULE CredentialRotation -------------------------
(***************************************************************************)
(* scripts/credentials.mjs: rotate and recover, which converge one key of  *)
(* the Worker to the central store through a journal, and apply, which     *)
(* uploads all keys of the active provider.  status and check only read.   *)
(***************************************************************************)
EXTENDS OperatorState

RotationPending == rotation.phase \in {"prepared", "local_written", "remote_written"}

\* rotate: any key but the pepper, with a value typed in; journal 'prepared'.
StartRotate(k) ==
  /\ k # Pepper
  /\ ~RotationPending
  /\ invented < MaxValue
  /\ invented' = invented + 1
  /\ Begin([Rest EXCEPT !.at = "set_credential", !.key = k, !.value = invented'])
  /\ rotation' = [phase |-> "prepared", key |-> k]
  /\ UNCHANGED <<head, files, store, worker, gaps, stops>>

\* setCredential: the file, whatever the shell holds.
SetCredential ==
  /\ Doing("set_credential")
  /\ store' = [store EXCEPT ![run.key] = run.value]
  /\ Goto("journal_local")
  /\ UNCHANGED <<head, files, rotation, invented, worker, gaps, bounds>>

JournalLocal ==
  /\ Doing("journal_local")
  /\ rotation' = [rotation EXCEPT !.phase = "local_written"]
  /\ Goto(IF run.key \in OperatorLocal THEN "clear_rotation" ELSE "put_secret")
  /\ UNCHANGED <<head, files, store, invented, worker, gaps, bounds>>

\* secret put needs a generated configuration; without it wrangler fails.
PutSecret ==
  /\ Doing("put_secret")
  /\ generated # Missing
  /\ secrets' = [secrets EXCEPT ![run.key] = run.value]
  /\ Goto("journal_remote")
  /\ UNCHANGED <<head, files, credentials, deployed, webhook, resources, gaps, bounds>>

JournalRemote ==
  /\ Doing("journal_remote")
  /\ rotation' = [rotation EXCEPT !.phase = "remote_written"]
  /\ Goto("verify")
  /\ UNCHANGED <<head, files, store, invented, worker, gaps, bounds>>

\* Variant: what the store answers is not compared with the rotated value.
VerifyRotationNever ==
  /\ Doing("verify")
  /\ rotation' = [rotation EXCEPT !.phase = "converged"]
  /\ Goto("clear_rotation")
  /\ UNCHANGED <<head, files, store, invented, worker, gaps, bounds>>

\* A shell that overrides the key makes the command stop with the journal in place.
VerifyRotation ==
  /\ Doing("verify")
  /\ IF Load(run.shell)[run.key] = run.value
     THEN rotation' = [rotation EXCEPT !.phase = "converged"] /\ Goto("clear_rotation")
     ELSE run' = Rest /\ UNCHANGED rotation
  /\ UNCHANGED <<head, files, store, invented, worker, gaps, bounds>>

ClearRotation ==
  /\ Doing("clear_rotation")
  /\ rotation' = NoRotation
  /\ run' = Rest
  /\ UNCHANGED <<head, files, store, invented, worker, gaps, bounds>>

\* recover: the key's value now, in this shell; nothing to converge without one.
StartRecoverRotation ==
  /\ run = Rest
  /\ RotationPending
  /\ \E shell \in Shells :
       LET k == rotation.key
           put == k \notin OperatorLocal /\ Load(shell)[k] # 0
       IN  run' = [Rest EXCEPT !.at = IF put THEN "put_again" ELSE "clear_rotation",
                               !.key = k, !.value = Load(shell)[k], !.shell = shell]
  /\ UNCHANGED <<head, files, credentials, worker, gaps, bounds>>

PutAgain ==
  /\ Doing("put_again")
  /\ generated # Missing
  /\ secrets' = [secrets EXCEPT ![run.key] = run.value]
  /\ Goto("clear_rotation")
  /\ UNCHANGED <<head, files, credentials, deployed, webhook, resources, gaps, bounds>>

\* apply: validated first, in bulk, for the provider of config.json.
StartApply ==
  /\ StateIsValid
  /\ Begin([Rest EXCEPT !.at = "apply_active", !.provider = config])
  /\ UNCHANGED <<head, files, credentials, worker, gaps, stops>>

ApplyActive ==
  /\ Doing("apply_active")
  /\ secrets' = Put(Active(run.provider, run.given), run.given)
  /\ run' = Rest
  /\ UNCHANGED <<head, files, credentials, deployed, webhook, resources, gaps, bounds>>

RotationStart == StartApply \/ \E k \in Keys : StartRotate(k)

RotationStep ==
  \/ SetCredential \/ JournalLocal \/ PutSecret \/ JournalRemote \/ VerifyRotation \/ ClearRotation
  \/ PutAgain \/ ApplyActive
=============================================================================
