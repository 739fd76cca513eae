\* Two invocations, two targets: claims, takeovers, lost records, retries by the sender.
SPECIFICATION FairSpec
CONSTANTS
  Workers = {w1, w2}
  NumTargets = 2
  Recipient = recipient
  StaleAfter = 1
  MaxTime = 2
  MaxFailures = 2
INVARIANTS AcceptedWasForwarded SecondCopiesAreExplained SettledMeansForwarded
PROPERTIES AcceptedIsTerminal EventuallySettled
