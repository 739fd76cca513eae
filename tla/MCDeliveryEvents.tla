-------------------------- MODULE MCDeliveryEvents --------------------------
(* Instances of DeliveryEvents for TLC. *)
EXTENDS DeliveryEvents

CONSTANTS r1, r2, id1

Event(id, tagged, recipients, st) ==
  [id |-> id, pmid |-> id1, tagged |-> tagged, recipients |-> recipients, status |-> st]

\* Webhooks (Resend, Brevo): one tagged event each.
Delivered == Event("delivered", TRUE, {r1, r2}, "delivered")
Unknown   == Event("unknown", TRUE, {r2}, "unranked")

\* Cloudflare Queue: untagged events in batches, one of them with an event no
\* release of the code knows.
Deferred   == Event("deferred", FALSE, {}, "delivery_delayed")
Complained == Event("complained", FALSE, {r1}, "complained")
Foreign    == Event("foreign", FALSE, {}, "foreign")
Poison     == Event("poison", FALSE, {r1}, "unsupported")

MCMixedEvents  == {Delivered, Deferred, Complained, Foreign, Poison}
MCMixedBatches == {<<Delivered>>, <<Deferred, Foreign>>, <<Complained, Poison>>}

\* The deployment the duplicate tests assume: webhooks, events recorded.
MCRecordedEvents  == {Delivered, Unknown}
MCRecordedBatches == {<<e>> : e \in MCRecordedEvents}

MCRecipients  == {r1, r2}
MCProviderIds == {id1}
=============================================================================
