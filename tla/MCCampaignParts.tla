--------------------------- MODULE MCCampaignParts ---------------------------
(* CampaignPipeline on the union of two instances: a campaign to two         *)
(* recipients that a user may pause or cancel or that a failure is reported  *)
(* of, and a campaign that skips one of its recipients, with two reports of  *)
(* delivered, read and failed, or with one report of any kind, which may be  *)
(* the provider's "sent", and a pause or a cancellation.  Throttling is left *)
(* to pipeline_delivery.                                                     *)
EXTENDS MCCampaignPipeline

TwoRecipients ==
  /\ \A m \in Messages : cm[m].retry_count = 0
  /\ Cardinality(seen) <= 1 /\ \A ev \in seen : ev[3] = "failed"
  /\ campaign \in StopKinds => seen = {}

OneRecipient ==
  /\ \E m \in Messages : cm[m].status \in {"none", "skipped"}
  /\ campaign \in StopKinds \/ (\E ev \in seen : ev[3] = "sent") => Cardinality(seen) <= 1

Parts == TwoRecipients \/ OneRecipient
=============================================================================
