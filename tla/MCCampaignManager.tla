-------------------------- MODULE MCCampaignManager -------------------------
(* Two clients, one commission, and a buffer for one event.                   *)
EXTENDS CampaignManager

CONSTANTS c1, c2, k1

BusEvents == {"campaign.updated", "campaign.changed", "commission.completed",
              "commission.status.changed"}
=============================================================================
