\* A webhook and two queue batches, delivered at once, again, out of order, with a failure.
SPECIFICATION FairSpec
CONSTANTS
  r1 = r1
  r2 = r2
  id1 = id1
  Star = Star
  NoId = NoId
  Workers = {w1, w2}
  Recipients <- MCRecipients
  ProviderIds <- MCProviderIds
  Events <- MCMixedEvents
  Batches <- MCMixedBatches
  MaxCas = 2
  MaxFailures = 1
  PayloadRequired = TRUE
INVARIANTS AckedEventsAreReflected StatusIsAggregate
PROPERTIES RecipientsNeverRegress ImplementsDeliveryLog CleanBatchesAreAcked
