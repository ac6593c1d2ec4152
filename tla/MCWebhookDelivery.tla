--------------------------- MODULE MCWebhookDelivery ---------------------------
(* The endpoints, deliveries and workers that TLC checks WebhookDelivery with. *)
EXTENDS WebhookDelivery

CONSTANTS e1, e2, d1, d2, w1, w2
=============================================================================
