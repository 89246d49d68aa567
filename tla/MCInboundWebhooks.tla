------------------------- MODULE MCInboundWebhooks -------------------------
(* InboundWebhooks with a Meta request of two entries, the first for two    *)
(* accounts of which one may be another tenant's, the second for a product   *)
(* without a sync job, and requests of Threads and TikTok.                   *)
EXTENDS InboundWebhooks

CONSTANTS e1, e2, th, rm, ot, a1, a2, t1, k1, h1, h2

AllEvents == {e1, e2, th, rm, ot}
TheKinds == [e \in Events |-> CASE e \in {e1, e2} -> "meta" [] e = th -> "threads"
                                [] e = rm -> "removal" [] e = ot -> "other"]
FourAccounts == {a1, a2, t1, k1}
TheNamed == [e \in Events |-> CASE e = e1 -> {a1, a2} [] e = e2 -> {a1} [] e = th -> {t1} [] OTHER -> {k1}]
TheEnrolled == [e \in Events |-> IF e = e1 THEN {a1, a2} ELSE {}]
TheRequests == {<<e1, e2>>, <<th>>, <<rm>>, <<ot>>}
TwoHandlers == {h1, h2}
=============================================================================
