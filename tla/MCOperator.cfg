SPECIFICATION OperatorSpec
CONSTANTS
  Providers <- MCProviders
  NoProvider = "none"
  Missing = Missing
  Keys <- MCKeys
  OperatorLocal = {"resend_setup"}
  Common = {"pepper"}
  Pepper = "pepper"
  Bootstrap = "bootstrap"
  Runtime <- MCRuntime
  Required <- MCRequired
  WebhookKey <- MCWebhookKey
  SetupKeys <- MCSetupKeys
  Minted = {"resend"}
  Shells <- MCShells
  MaxValue = 2
  MaxCommands = 3
  MaxStops = 1
  MaxCommits = 1
  Unset <- MCAbsent
  Found <- MCFound
INVARIANTS LocalTellsRemote DeployedProviderHasItsKey
PROPERTIES FinishedSwitchIsComplete RotationConverges PendingSwitchSettles
