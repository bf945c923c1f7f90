-------------------------- MODULE MCCampaignLaunch --------------------------
(* CampaignLaunch on small instances. *)
EXTENDS CampaignLaunch

CONSTANTS a, b, l1, l2, u1

TwoContacts  == {a, b}
OneOrBoth    == {{a}, {a, b}}
TwoLaunches  == {l1, l2}
OneEdit      == {u1}
=============================================================================
