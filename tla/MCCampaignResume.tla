--------------------------- MODULE MCCampaignResume ---------------------------
(* Instances of CampaignResume for TLC. *)
EXTENDS CampaignResume, TLC

(* Nothing tells one target from another. *)
TargetSymmetry == Permutations(Targets)
=============================================================================
