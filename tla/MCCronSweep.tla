---------------------------- MODULE MCCronSweep ----------------------------
(* CronSweep with two replicas that fire three times, a log and the table of *)
(* deliveries, swept two rows at a time.                                     *)
EXTENDS CronSweep, TLC

CONSTANTS i1, i2, log1, d1, d2, d3

TwoReplicas == {i1, i2}
FewRows == {log1, d1, d2, d3}
DeliveriesLast == [r \in Rows |-> IF r = log1 THEN 1 ELSE 2]
AllKinds == [r \in Rows |-> CASE r = log1 -> "there" [] r = d1 -> "abandoned"
                              [] r = d2 -> "delivered" [] r = d3 -> "open"]
AllDeliveries == Rows \ {log1}
=============================================================================
