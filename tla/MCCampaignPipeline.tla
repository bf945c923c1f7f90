------------------------- MODULE MCCampaignPipeline -------------------------
(* CampaignPipeline on small instances.  The recipients of a campaign are  *)
(* interchangeable, so safety runs with several of them use symmetry.      *)
EXTENDS CampaignPipeline, TLC

CONSTANTS m1, m2

OneMessage  == {m1}
TwoMessages == {m1, m2}

Symmetry == Permutations(Messages)
=============================================================================
