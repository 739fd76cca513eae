--------------------------- MODULE OperatorTools ---------------------------
(***************************************************************************)
(* The operator's commands together: setup and configure, provider set,    *)
(* recover and remove, credentials rotate, recover and apply, one at a     *)
(* time, any of them stopped at any step, over commits.  The files must    *)
(* tell what the Worker runs with, because set and remove act on them.     *)
(***************************************************************************)
EXTENDS ProviderSwitch, CredentialRotation, ProductionSetup

CONSTANTS
  Unset,  \* sets of credentials that may not be there at first
  Found   \* what the account may hold under the names setup derives

ASSUME FoundAssumption == Found \subseteq Resources

AllSecrets(p) == [k \in Keys |-> IF k \in Common \union Runtime[p] THEN 1 ELSE 0]

\* A deployment that setup finished and whose names were added, or nothing at all.
OperatorInit ==
  /\ head = 0
  /\ config \in Providers
  /\ next = Missing
  /\ journal = NoJournal
  /\ rotation = NoRotation
  /\ webhook = [p \in DOMAIN WebhookKey |-> 0]
  /\ run = Rest
  /\ gaps = {}
  /\ invented = 1
  /\ commands = 0
  /\ stops = 0
  /\ \/ /\ resourcesNamed = TRUE
        /\ setup = [provider |-> config, sha |-> 0]
        /\ generated = config
        /\ deployed = config
        /\ store = [k \in Keys |-> 1]
        /\ secrets = AllSecrets(config)
        /\ resources = [d1 |-> "known", r2 |-> "owned"]
     \/ /\ resourcesNamed = FALSE
        /\ setup = Missing
        /\ generated = Missing
        /\ deployed = Missing
        /\ \E A \in Unset : store = [k \in Keys |-> IF k \in A THEN 0 ELSE 1]
        /\ secrets = [k \in Keys |-> 0]
        /\ resources \in Found

\* A step the command cannot take, with nothing broken.
Refused ==
  \/ Doing("deploy") /\ ~MayDeploy(generated)
  \/ Doing("configure_secrets") /\ \E k \in run.todo \intersect {Pepper, Bootstrap} : run.given[k] = 0
  \/ Doing("put_secret") /\ generated = Missing
  \/ Doing("put_again") /\ generated = Missing
  \/ Doing("reconcile") /\ run.provider \in DOMAIN WebhookKey
     /\ IF run.provider \in Minted THEN invented = MaxValue
        ELSE run.given[WebhookKey[run.provider]] = 0

\* What a command that stops here leaves untold: a deployment without its journal entry,
\* or files of a setup without their deployment.
Untold ==
  CASE Doing("switched") -> {"unjournaled"}
    [] Doing("configure_secrets") \/ Doing("deploy") -> IF generated # deployed THEN {"undeployed"} ELSE {}
    [] OTHER -> {}

Stop ==
  /\ run # Rest
  /\ IF Refused THEN UNCHANGED stops ELSE Fails
  /\ gaps' = gaps \union Untold
  /\ run' = Rest
  /\ UNCHANGED <<head, files, credentials, worker, commands>>

\* A new commit is checked out.
Checkout ==
  /\ run = Rest
  /\ head < MaxCommits
  /\ head' = head + 1
  /\ UNCHANGED <<files, credentials, worker, run, gaps, bounds>>

StartCommand ==
  \/ SwitchStart \/ RotationStart \/ SetupStart \/ StartRecover \/ StartRecoverRotation
  \/ NameResources \/ Checkout

Step == SwitchStep \/ RotationStep \/ SetupStep

OperatorNext == StartCommand \/ Step \/ Stop

\* A command runs until it ends or stops, and the operator recovers when he is told to,
\* sooner or later between his other commands.
Fairness == WF_operatorVars(Step) /\ WF_operatorVars(Stop /\ Refused) /\ SF_operatorVars(StartRecover)

OperatorSpec == OperatorInit /\ [][OperatorNext]_operatorVars /\ Fairness
-----------------------------------------------------------------------------
Steps == {"rest", "write_next", "dry_run", "apply", "reconcile", "put_webhook_secret", "deploy_next",
          "switched", "generated", "state", "config", "clean_up", "remove_next", "clear",
          "delete_webhook", "delete_secrets", "set_credential", "journal_local", "put_secret",
          "journal_remote", "verify", "clear_rotation", "put_again", "apply_active",
          "write_credentials", "write_config", "ensure_d1", "ensure_r2", "put_sentinel",
          "write_generated", "write_state", "configure_secrets", "deploy", "remove_bootstrap"}
Values == [Keys -> 0..MaxValue]
Maybe == Providers \union {Missing}
Journals == [phase : {"none", "prepared", "remote_switched"}, from : Maybe, to : Maybe, sha : 0..MaxCommits]
Rotations == [phase : {"none", "prepared", "local_written", "remote_written", "converged"},
              key : Keys \union {Missing}]
Runs == [at : Steps, provider : Maybe, from : Maybe, key : Keys \union {Missing}, value : 0..MaxValue,
         shell : Values, given : Values, todo : SUBSET Keys]

\* The type of every variable.
OperatorTypeOK ==
  /\ head \in 0..MaxCommits
  /\ config \in Providers
  /\ resourcesNamed \in BOOLEAN
  /\ setup = Missing \/ setup \in [provider : Providers, sha : 0..MaxCommits]
  /\ generated \in Maybe /\ next \in Maybe /\ deployed \in Maybe
  /\ journal \in Journals /\ rotation \in Rotations
  /\ store \in Values /\ secrets \in Values
  /\ webhook \in [DOMAIN WebhookKey -> 0..MaxValue]
  /\ resources \in Resources
  /\ run \in Runs
  /\ gaps \subseteq {"unjournaled", "undeployed", "overtaken"}
  /\ invented \in 0..MaxValue /\ commands \in 0..MaxCommands /\ stops \in 0..MaxStops

\* Files that agree tell what the Worker runs with, whatever commands were stopped where
\* and recovered, unless a deployment was not journaled, or a setup overtook a pending switch
\* or stopped before its deployment.  set and remove decide by these files.
LocalTellsRemote ==
  run = Rest /\ StateIsValid /\ ~Pending /\ gaps = {} => deployed = setup.provider

\* The Worker always has the secrets its provider cannot do without: removing a provider and
\* cleaning up after a switch never take those of the one that is deployed.
DeployedProviderHasItsKey == deployed # Missing /\ gaps = {} => MayDeploy(deployed)

\* When the journal of a switch is cleared, by set or by a recover after any stop, the target
\* is deployed, the files agree on it, and the previous provider's secrets are gone.
FinishedSwitchIsComplete ==
  [][Pending /\ journal' = NoJournal /\ gaps = {} =>
       /\ deployed = journal.to /\ setup.provider = journal.to /\ StateIsValid
       /\ \A k \in Runtime[journal.from] \ Runtime[journal.to] : secrets[k] = 0]_operatorVars

\* When the journal of a rotation is cleared, the Worker has the value that the store has for
\* the shell the command ran in.
RotationConverges ==
  [][rotation # NoRotation /\ rotation' = NoRotation /\ rotation.key \notin OperatorLocal =>
       LET now == Load(run.shell)[rotation.key]
       IN  now = 0 \/ secrets[rotation.key] = now]_operatorVars

\* A switch that is pending is recovered in the end, unless a new commit was checked out or
\* its file NEXT was removed already.
PendingSwitchSettles == Pending ~> (~Pending \/ next = Missing \/ journal.sha # head)
=============================================================================
