\* The same webhooks in the schema of the migrations.
SPECIFICATION FairSpec
CONSTANTS
  r1 = r1
  r2 = r2
  id1 = id1
  Star = Star
  NoId = NoId
  Workers = {w1, w2}
  Recipients <- MCRecipients
  ProviderIds <- MCProviderIds
  Events <- MCRecordedEvents
  Batches <- MCRecordedBatches
  MaxCas = 2
  MaxFailures = 1
  PayloadRequired = TRUE
PROPERTIES AckedReplayIsNoOp
