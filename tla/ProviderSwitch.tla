-------------------------- MODULE ProviderSwitch --------------------------
(***************************************************************************)
(* scripts/provider.mjs: set, recover and remove, with the webhook         *)
(* reconciliation of scripts/reconcile.mjs.  A switch is one remote        *)
(* deployment between a journal entry before it and one after it; recover  *)
(* brings the local files up to a deployment that was journaled.           *)
(***************************************************************************)
EXTENDS OperatorState

\* set: the files agree, the target's credentials are there; journal 'prepared'.
StartSet(p) ==
  /\ ~Pending
  /\ StateIsValid
  /\ Begin([Rest EXCEPT !.at = "write_next", !.provider = p, !.from = setup.provider])
  /\ \A k \in Required[p] : run'.given[k] # 0
  /\ journal' = [phase |-> "prepared", from |-> setup.provider, to |-> p, sha |-> head]
  /\ UNCHANGED <<head, config, resourcesNamed, setup, generated, next, credentials, worker, gaps, stops>>

WriteNext ==
  /\ Doing("write_next")
  /\ next' = run.provider
  /\ Goto("dry_run")
  /\ UNCHANGED <<head, config, resourcesNamed, setup, generated, journal, credentials, worker, gaps, bounds>>

DryRun ==
  /\ Doing("dry_run")
  /\ \/ Goto("apply") /\ UNCHANGED <<next, journal, stops>>
     \/ next' = Missing /\ journal' = NoJournal /\ run' = Rest /\ Fails
  /\ UNCHANGED <<head, config, resourcesNamed, setup, generated, credentials, worker, gaps, commands>>

\* applySecrets: in bulk, against the current configuration, from the snapshot.
ApplyTargetSecrets ==
  /\ Doing("apply")
  /\ secrets' = Put(Active(run.provider, run.given), run.given)
  /\ Goto("reconcile")
  /\ UNCHANGED <<head, files, credentials, deployed, webhook, resources, gaps, bounds>>

\* reconcileResend and reconcileBrevo: "manual" without a key that manages the webhook.
\* Resend mints the secret when the webhook is created, and it is stored locally and on the
\* Worker; Brevo is given the token, again only if the webhook was changed by others.
Reconcile ==
  LET p == run.provider
      managed == p \in DOMAIN WebhookKey /\ \E k \in SetupKeys[p] : run.given[k] # 0
  IN
  /\ Doing("reconcile")
  /\ \/ ~managed /\ Goto("deploy_next") /\ UNCHANGED <<store, webhook, invented>>
     \/ /\ managed /\ p \in Minted
        /\ \/ webhook[p] # 0 /\ UNCHANGED <<webhook, invented>>
           \/ /\ webhook[p] = 0 /\ invented < MaxValue
              /\ invented' = invented + 1
              /\ webhook' = [webhook EXCEPT ![p] = invented']
        /\ store' = [store EXCEPT ![WebhookKey[p]] = webhook'[p]]
        /\ Goto("put_webhook_secret")
     \/ /\ managed /\ p \notin Minted /\ run.given[WebhookKey[p]] # 0
        /\ \/ webhook[p] # 0 /\ UNCHANGED webhook
           \/ webhook' = [webhook EXCEPT ![p] = run.given[WebhookKey[p]]]
        /\ Goto("deploy_next")
        /\ UNCHANGED <<store, invented>>
  /\ UNCHANGED <<head, files, rotation, deployed, secrets, resources, gaps, bounds>>

\* The second half of writeSecret.
PutWebhookSecret ==
  /\ Doing("put_webhook_secret")
  /\ secrets' = Put({WebhookKey[run.provider]}, store)
  /\ Goto("deploy_next")
  /\ UNCHANGED <<head, files, credentials, deployed, webhook, resources, gaps, bounds>>

\* Variant: the current configuration is deployed instead of the next one.
DeployCurrent ==
  /\ Doing("deploy_next")
  /\ MayDeploy(generated)
  /\ deployed' = generated
  /\ Goto("switched")
  /\ UNCHANGED <<head, files, credentials, secrets, webhook, resources, gaps, bounds>>

\* The one point where the deployment is switched.
DeployNext ==
  /\ Doing("deploy_next")
  /\ MayDeploy(run.provider)
  /\ deployed' = run.provider
  /\ Goto("switched")
  /\ UNCHANGED <<head, files, credentials, secrets, webhook, resources, gaps, bounds>>

\* The deployment fails, or took effect although wrangler says it failed.
DeployNextFails ==
  /\ Doing("deploy_next")
  /\ IF MayDeploy(run.provider) THEN Fails ELSE UNCHANGED stops
  /\ \/ UNCHANGED <<deployed, gaps>>
     \/ /\ MayDeploy(run.provider)
        /\ deployed' = run.provider
        /\ gaps' = gaps \union {"unjournaled"}
  /\ journal' = NoJournal
  /\ run' = Rest
  /\ UNCHANGED <<head, config, resourcesNamed, setup, generated, next, credentials, secrets, webhook, resources,
                 commands>>

JournalSwitched ==
  /\ Doing("switched")
  /\ journal' = [journal EXCEPT !.phase = "remote_switched"]
  /\ Goto("generated")
  /\ UNCHANGED <<head, config, resourcesNamed, setup, generated, next, credentials, worker, gaps, bounds>>

\* Variant: recover asks for files that agree, as set and remove do.
StartRecoverStrict ==
  /\ run = Rest
  /\ Pending
  /\ StateIsValid
  /\ journal.sha = head
  /\ next # Missing
  /\ run' = [Rest EXCEPT !.at = "generated", !.provider = next, !.from = journal.from]
  /\ UNCHANGED <<head, files, credentials, worker, gaps, bounds>>

\* recover: only at the commit of the switch, and from the file NEXT.
StartRecover ==
  /\ run = Rest
  /\ Pending
  /\ journal.sha = head
  /\ next # Missing
  /\ run' = [Rest EXCEPT !.at = "generated", !.provider = next, !.from = journal.from]
  /\ UNCHANGED <<head, files, credentials, worker, gaps, bounds>>

\* The local files, one rename after the other.
WriteGenerated ==
  /\ Doing("generated")
  /\ generated' = run.provider
  /\ Goto("state")
  /\ UNCHANGED <<head, config, resourcesNamed, setup, next, journal, credentials, worker, gaps, bounds>>

WriteSetupState ==
  /\ Doing("state")
  /\ setup' = [provider |-> run.provider, sha |-> head]
  /\ Goto("config")
  /\ UNCHANGED <<head, config, resourcesNamed, generated, next, journal, credentials, worker, gaps, bounds>>

WriteOperatorConfig ==
  /\ Doing("config")
  /\ config' = run.provider
  /\ Goto("clean_up")
  /\ UNCHANGED <<head, resourcesNamed, setup, generated, next, journal, credentials, worker, gaps, bounds>>

staleRuntimeSecrets(from, to) == Runtime[from] \ Runtime[to]

\* Variant: the secrets of every other provider's store are left on the Worker.
RemoveStaleSecretsNever ==
  /\ Doing("clean_up")
  /\ Goto("remove_next")
  /\ UNCHANGED <<head, files, credentials, worker, gaps, bounds>>

\* Variant: the clean-up takes the two providers the other way round.
RemoveStaleSecretsSwapped ==
  /\ Doing("clean_up")
  /\ secrets' = Drop(staleRuntimeSecrets(run.provider, run.from))
  /\ Goto("remove_next")
  /\ UNCHANGED <<head, files, credentials, deployed, webhook, resources, gaps, bounds>>

\* Only now are the previous provider's secrets removed from the Worker.
RemoveStaleSecrets ==
  /\ Doing("clean_up")
  /\ secrets' = Drop(staleRuntimeSecrets(run.from, run.provider))
  /\ Goto("remove_next")
  /\ UNCHANGED <<head, files, credentials, deployed, webhook, resources, gaps, bounds>>

RemoveNext ==
  /\ Doing("remove_next")
  /\ next' = Missing
  /\ Goto("clear")
  /\ UNCHANGED <<head, config, resourcesNamed, setup, generated, journal, credentials, worker, gaps, bounds>>

ClearJournal ==
  /\ Doing("clear")
  /\ journal' = NoJournal
  /\ run' = Rest
  /\ UNCHANGED <<head, config, resourcesNamed, setup, generated, next, credentials, worker, gaps, bounds>>

\* remove: an inactive provider, with no retryable message or by --force.
StartRemove(p) ==
  /\ p # NoProvider
  /\ ~Pending
  /\ StateIsValid
  /\ setup.provider # p
  /\ Begin([Rest EXCEPT !.at = "delete_webhook", !.provider = p])
  /\ UNCHANGED <<head, files, credentials, worker, gaps, stops>>

\* deleteResendWebhook, deleteBrevoWebhook; "manual" without such a key.
DeleteWebhook ==
  LET p == run.provider
  IN
  /\ Doing("delete_webhook")
  /\ IF p \in DOMAIN WebhookKey /\ \E k \in SetupKeys[p] : run.given[k] # 0
     THEN webhook' = [webhook EXCEPT ![p] = 0]
     ELSE UNCHANGED webhook
  /\ Goto("delete_secrets")
  /\ UNCHANGED <<head, files, credentials, deployed, secrets, resources, gaps, bounds>>

DeleteSecrets ==
  /\ Doing("delete_secrets")
  /\ secrets' = Drop(Runtime[run.provider])
  /\ run' = Rest
  /\ UNCHANGED <<head, files, credentials, deployed, webhook, resources, gaps, bounds>>

SwitchStart == \E p \in Providers : StartSet(p) \/ StartRemove(p)

SwitchStep ==
  \/ WriteNext \/ DryRun \/ ApplyTargetSecrets \/ Reconcile \/ PutWebhookSecret
  \/ DeployNext \/ DeployNextFails \/ JournalSwitched \/ WriteGenerated \/ WriteSetupState \/ WriteOperatorConfig
  \/ RemoveStaleSecrets \/ RemoveNext \/ ClearJournal \/ DeleteWebhook \/ DeleteSecrets
=============================================================================
