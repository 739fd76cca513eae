\* Two requests with the same key, posts and retries, while the deployment changes once.
SPECIFICATION FairSpec
CONSTANTS
  resend = resend
  cloudflare = cloudflare
  None = None
  Star = Star
  Recipients = {}
  Workers = {w1, w2}
  Providers = {resend, cloudflare}
  Idempotent = {resend}
  Window <- MCWindow
  TTL <- MCTTL
  Environments <- Deployments
  EventStatuses = {"delivered"}
  MaxRun = 1
  MaxTime = 3
  MaxSwitches = 1
  MaxFailures = 1
INVARIANTS TypeOK AtMostOneCopy SentWasTaken
PROPERTIES EventuallyDecided
