------------------------- MODULE MCWebhookDelivery -------------------------
(* WebhookDelivery for TLC: three events for one endpoint, so that a success *)
(* can come between the two given-up rows that would switch it off, and so   *)
(* that rows still wait when it is switched off.                             *)
EXTENDS WebhookDelivery

CONSTANTS v1, v2, v3, e1

MCEvents == {v1, v2, v3}
MCEndpoints == {e1}
MCSubscribed == MCEvents \X MCEndpoints
=============================================================================
