-------------------------- MODULE MCWebhookDelivery --------------------------
(***************************************************************************)
(* WebhookDelivery on small instances.                                     *)
(***************************************************************************)
EXTENDS WebhookDelivery, TLC
=============================================================================
