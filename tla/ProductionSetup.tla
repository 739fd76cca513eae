-------------------------- MODULE ProductionSetup --------------------------
(***************************************************************************)
(* scripts/setup.mjs --mode production and scripts/configure.mjs: what     *)
(* establishes the state files and the first deployment.  A full setup     *)
(* replaces the files, without looking at the journal of a switch, before  *)
(* it has deployed what they say.                                          *)
(***************************************************************************)
EXTENDS OperatorState

\* configure: a choice of provider, values for missing keys (or, with --replace, any);
\* the credentials are written before the configuration.
StartConfigure(p) ==
  /\ Begin([Rest EXCEPT !.at = "write_credentials", !.provider = p])
  /\ UNCHANGED <<head, files, credentials, worker, gaps, stops>>

\* The whole store, as loaded in this shell, with the answers.
WriteCredentials ==
  /\ Doing("write_credentials")
  /\ \/ store' = run.given /\ UNCHANGED invented
     \/ /\ invented < MaxValue
        /\ invented' = invented + 1
        /\ \E k \in Keys : store' = [run.given EXCEPT ![k] = invented']
  /\ Goto("write_config")
  /\ UNCHANGED <<head, files, rotation, worker, gaps, bounds>>

WriteConfig ==
  /\ Doing("write_config")
  /\ config' = run.provider
  /\ run' = Rest
  /\ UNCHANGED <<head, resourcesNamed, setup, generated, next, journal, credentials, worker, gaps, bounds>>

\* The operator adds the resource names, which no command writes.
NameResources ==
  /\ run = Rest
  /\ resourcesNamed' = TRUE
  /\ UNCHANGED <<head, config, setup, generated, next, journal, credentials, worker, run, gaps,
                 bounds>>

\* A full setup begins by removing the generated configuration.
StartSetup ==
  /\ Begin([Rest EXCEPT !.at = "ensure_d1", !.provider = config])
  /\ generated' = Missing
  /\ gaps' = IF Pending THEN gaps \union {"overtaken"} ELSE gaps
  /\ UNCHANGED <<head, config, resourcesNamed, setup, next, journal, credentials, worker, stops>>

\* Created, or reused if its tables are known; otherwise refused.
EnsureD1 ==
  /\ Doing("ensure_d1")
  /\ resources' = [resources EXCEPT !.d1 = IF @ = "missing" THEN "known" ELSE @]
  /\ IF resources'.d1 = "known" THEN Goto("ensure_r2") ELSE run' = Rest
  /\ UNCHANGED <<head, files, credentials, deployed, secrets, webhook, gaps, bounds>>

\* A bucket without sentinel is refused, though an earlier setup may have created it.
EnsureR2 ==
  /\ Doing("ensure_r2")
  /\ CASE resources.r2 = "missing" -> /\ resources' = [resources EXCEPT !.r2 = "bare"]
                                      /\ Goto("put_sentinel")
       [] resources.r2 = "owned" -> Goto("write_generated") /\ UNCHANGED resources
       [] OTHER -> run' = Rest /\ UNCHANGED resources
  /\ UNCHANGED <<head, files, credentials, deployed, secrets, webhook, gaps, bounds>>

PutSentinel ==
  /\ Doing("put_sentinel")
  /\ resources' = [resources EXCEPT !.r2 = "owned"]
  /\ Goto("write_generated")
  /\ UNCHANGED <<head, files, credentials, deployed, secrets, webhook, gaps, bounds>>

WriteGeneratedConfig ==
  /\ Doing("write_generated")
  /\ generated' = run.provider
  /\ Goto("write_state")
  /\ UNCHANGED <<head, config, resourcesNamed, setup, next, journal, credentials, worker, gaps, bounds>>

\* writeState, before the migrations, the secrets and the deployment.
WriteState ==
  /\ Doing("write_state")
  /\ setup' = [provider |-> run.provider, sha |-> head]
  /\ run' = [run EXCEPT !.at = "configure_secrets",
                        !.todo = Common \union {Bootstrap} \union Runtime[run.provider]]
  /\ UNCHANGED <<head, config, resourcesNamed, generated, next, journal, credentials, worker, gaps, bounds>>

\* configureSecrets: one secret put for each; only two of them must be there.
ConfigureSecrets ==
  /\ Doing("configure_secrets")
  /\ \/ \E k \in run.todo :
          /\ run.given[k] # 0 \/ k \notin {Pepper, Bootstrap}
          /\ secrets' = IF run.given[k] # 0 THEN Put({k}, run.given) ELSE secrets
          /\ run' = [run EXCEPT !.todo = @ \ {k}]
     \/ run.todo = {} /\ Goto("deploy") /\ UNCHANGED secrets
  /\ UNCHANGED <<head, files, credentials, deployed, webhook, resources, gaps, bounds>>

Deploy ==
  /\ Doing("deploy")
  /\ MayDeploy(generated)
  /\ deployed' = generated
  /\ run' = Rest
  /\ UNCHANGED <<head, files, credentials, secrets, webhook, resources, gaps, bounds>>

\* setup:deploy, from files that agree.
StartDeployOnly ==
  /\ StateIsValid
  /\ Begin([Rest EXCEPT !.at = "deploy"])
  /\ gaps' = IF Pending THEN gaps \union {"overtaken"} ELSE gaps
  /\ UNCHANGED <<head, files, credentials, worker, stops>>

\* setup:remove-bootstrap.
StartRemoveBootstrap ==
  /\ StateIsValid
  /\ Begin([Rest EXCEPT !.at = "remove_bootstrap"])
  /\ UNCHANGED <<head, files, credentials, worker, gaps, stops>>

RemoveBootstrap ==
  /\ Doing("remove_bootstrap")
  /\ secrets' = Drop({Bootstrap})
  /\ run' = Rest
  /\ UNCHANGED <<head, files, credentials, deployed, webhook, resources, gaps, bounds>>

SetupStart ==
  \/ StartSetup \/ StartDeployOnly \/ StartRemoveBootstrap
  \/ \E p \in Providers : StartConfigure(p)

SetupStep ==
  \/ WriteCredentials \/ WriteConfig \/ EnsureD1 \/ EnsureR2 \/ PutSentinel
  \/ WriteGeneratedConfig \/ WriteState \/ ConfigureSecrets \/ Deploy \/ RemoveBootstrap
=============================================================================
