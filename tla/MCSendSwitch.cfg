\* One request at a time and one switch of the active provider.
SPECIFICATION Spec
CONSTANTS
  resend = resend
  cloudflare = cloudflare
  None = None
  Star = Star
  Recipients = {}
  Workers = {w1}
  Providers = {resend, cloudflare}
  Idempotent = {resend}
  Window <- MCWindow
  TTL <- MCTTL
  Environments <- AllDeployments
  EventStatuses = {"delivered"}
  MaxRun = 1
  MaxTime = 2
  MaxSwitches = 1
  MaxFailures = 1
INVARIANT NeverRerouted
