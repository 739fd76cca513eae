--------------------------- MODULE OperatorState ---------------------------
(***************************************************************************)
(* What the operator's command-line tools share: the three state files     *)
(* they validate against each other (scripts/config/operator-state.mjs),   *)
(* the credential store (scripts/config/credentials.mjs), their journals,  *)
(* and what they change remotely through wrangler.                         *)
(*                                                                         *)
(* One operator runs one command at a time; a command may stop (a call     *)
(* fails, the process is killed) at any step, and files and remote state   *)
(* stay as they are then.  A file is replaced atomically (tmp and rename). *)
(* Of the deployment's fields only OUTBOUND_PROVIDER ever changes; a       *)
(* generated configuration and its hash are therefore its provider.        *)
(***************************************************************************)
EXTENDS Naturals, FiniteSets

CONSTANTS
  Providers,      \* VALID_PROVIDERS
  NoProvider,     \* 'none': receive only
  Missing,        \* no such file, no such deployment
  Keys,           \* CREDENTIAL_SCHEMA
  OperatorLocal,  \* the keys that never enter the Worker
  Common,         \* COMMON_RUNTIME_SECRETS: runtime keys of every deployment
  Pepper,         \* AUTH_PEPPER, one of Common
  Bootstrap,      \* ADMIN_BOOTSTRAP_TOKEN: on the Worker until the first administrator is there
  Runtime,        \* PROVIDER_RUNTIME_SECRETS
  Required,       \* PROVIDER_ACTIVATION_REQUIREMENTS
  WebhookKey,     \* provider with a webhook -> the key that authenticates its events
  SetupKeys,      \* the same -> the keys that may manage the webhook
  Minted,         \* the providers whose API mints the webhook's secret
  Shells,         \* process environments: values that override the store, or 0
  MaxValue,       \* bound: values ever given to credentials
  MaxCommands,    \* bound: commands other than the recoveries
  MaxStops,       \* bound: commands that stop or calls that fail
  MaxCommits      \* bound: new commits checked out

ASSUME OperatorAssumption ==
  /\ NoProvider \in Providers
  /\ Missing \notin Providers /\ Missing \notin [provider : Providers, sha : Nat]
  /\ OperatorLocal \subseteq Keys
  /\ Common \subseteq Keys \ OperatorLocal
  /\ Pepper \in Common
  /\ Bootstrap \in Keys \ (OperatorLocal \union Common)
  /\ Runtime \in [Providers -> SUBSET (Keys \ (OperatorLocal \union Common \union {Bootstrap}))]
  /\ \A p, q \in Providers : p # q => Runtime[p] \intersect Runtime[q] = {}
  /\ Required \in [Providers -> SUBSET Keys]
  /\ \A p \in Providers : Required[p] \subseteq Runtime[p]
  /\ DOMAIN WebhookKey \subseteq Providers /\ DOMAIN SetupKeys = DOMAIN WebhookKey
  /\ \A p \in DOMAIN WebhookKey : WebhookKey[p] \in Runtime[p] /\ SetupKeys[p] \subseteq Keys
  /\ Minted \subseteq DOMAIN WebhookKey
  /\ MaxValue \in Nat \ {0} /\ MaxCommands \in Nat /\ MaxStops \in Nat /\ MaxCommits \in Nat
  /\ Shells # {} /\ Shells \subseteq [Keys -> 0..MaxValue]

VARIABLES
  head,         \* the commit checked out
  config,       \* .mailbox/config.json: its outbound provider
  resourcesNamed, \* whether config.json names the D1 database and the R2 bucket
  setup,        \* .setup-state.json: [provider, sha], or Missing
  generated,    \* wrangler.deploy.jsonc: its provider, or Missing
  next,         \* wrangler.provider-next.jsonc: its provider, or Missing
  journal,      \* .mailbox/provider-operation.json, or NoJournal
  store,        \* .mailbox/credentials.env: a value for each key, 0 for none
  rotation,     \* .mailbox/credential-operation.json, or NoRotation
  deployed,     \* the provider the Worker runs with, or Missing
  secrets,      \* the Worker's secrets
  webhook,      \* the secret of each provider's webhook, 0 for no webhook
  resources,    \* the D1 database and the R2 bucket: see Resources
  run,          \* the command that runs: what it does next, and its locals
  gaps,         \* what happened that the files do not tell (history)
  invented,     \* values invented so far
  commands,     \* commands so far
  stops         \* stops so far

files == <<config, resourcesNamed, setup, generated, next, journal>>
credentials == <<store, rotation, invented>>
worker == <<deployed, secrets, webhook, resources>>
bounds == <<commands, stops>>
operatorVars == <<head, files, credentials, worker, run, gaps, bounds>>

NoJournal == [phase |-> "none", from |-> Missing, to |-> Missing, sha |-> 0]
NoRotation == [phase |-> "none", key |-> Missing]
NoShell == [k \in Keys |-> 0]
Rest == [at |-> "rest", provider |-> Missing, from |-> Missing, key |-> Missing, value |-> 0,
         shell |-> NoShell, given |-> NoShell, todo |-> {}]

\* A bare bucket was created without its sentinel; what is foreign is never adopted.
Resources == [d1 : {"missing", "known", "foreign"}, r2 : {"missing", "bare", "owned", "foreign"}]

\* The journal says that the deployment was switched and the files not yet.
Pending == journal.phase = "remote_switched"

\* validateOperatorState: the three files and HEAD agree.
\* setup derives the names of the two resources and configure never asks for them, so
\* the fields agree only if config.json was given them by hand.
Consistent(cfg, st, gen) ==
  /\ st # Missing
  /\ gen # Missing
  /\ resourcesNamed
  /\ st.sha = head
  /\ st.provider = cfg
  /\ st.provider = gen

StateIsValid == Consistent(config, setup, generated)

\* loadCredentials: the process environment wins over the file.
Load(shell) == [k \in Keys |-> IF shell[k] # 0 THEN shell[k] ELSE store[k]]

\* providerActiveCredentials: the values a deployment with provider p needs, if there.
Active(p, values) == {k \in Common \union Runtime[p] : values[k] # 0}

\* wrangler secret put and secret bulk, with the values of the keys in K.
Put(K, values) == [k \in Keys |-> IF k \in K THEN values[k] ELSE secrets[k]]

\* The same with null values.
Drop(K) == [k \in Keys |-> IF k \in K THEN 0 ELSE secrets[k]]

\* requiredSecretsFor: wrangler refuses a deployment that lacks one of them.
MayDeploy(p) == \A k \in {Pepper} \union Required[p] : secrets[k] # 0

\* A new command, run in some shell.
Begin(step) ==
  /\ run = Rest
  /\ commands < MaxCommands
  /\ commands' = commands + 1
  /\ \E shell \in Shells : run' = [step EXCEPT !.shell = shell, !.given = Load(shell)]

Doing(step) == run.at = step
Goto(step) == run' = [run EXCEPT !.at = step]

\* A call fails within the bound.
Fails == stops < MaxStops /\ stops' = stops + 1
=============================================================================
