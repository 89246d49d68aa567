------------------------- MODULE MCWebhookDelivery -------------------------
(* WebhookDelivery on small instances. *)
EXTENDS WebhookDelivery, TLC

CONSTANTS d1, d2, s1, s2

OneDelivery == {d1}
TwoDeliveries == {d1, d2}
OneSlot == {s1}
TwoSlots == {s1, s2}
AllFaults == {"redis", "db", "crash", "lost"}
RedisOnly == {"redis"}
None == {}
=============================================================================
