----------------------------- MODULE MCWebhooks -----------------------------
(* WebhookDelivery on a small instance. *)
EXTENDS WebhookDelivery

\* telemetry rows are capped at one here, audit rows never are.
CapOfClass == [telemetry |-> 1, audit |-> 0]
SomeShapes == {[class |-> "audit", reach |-> "wanted"], [class |-> "telemetry", reach |-> "hidden"]}
=============================================================================
