-------------------------- MODULE MCWebhookDelivery --------------------------
(* Instances of WebhookDelivery for TLC: one digest g1 with its delivery d1.   *)
EXTENDS WebhookDelivery, TLC

CONSTANTS d1, g1

Alone == (d1 :> g1)
=============================================================================
