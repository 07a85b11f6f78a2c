---------------------------- MODULE MCJetsonCampaign ----------------------------
(* The second job of a campaign is memory-limited and requires the first. *)
EXTENDS JetsonCampaign

MCRequires == <<0, 1>>
MCScoped == {2}
=============================================================================
