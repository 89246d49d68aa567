---------------------------- MODULE MCRateBucket ----------------------------
(* RateBucket on a small instance: an app-wide bucket, and a daily counter  *)
(* that one kind of call pays with it (YouTube).                            *)
EXTENDS RateBucket, TLC

CONSTANTS c1, c2, app, quota, list, report

TwoClients == {c1, c2}
EitherClient == Permutations(TwoClients)
TwoBuckets == {app, quota}
TheDaily == {quota}
TwoKinds == {list, report}
TheHints == list :> <<app>> @@ report :> <<quota, app>>
TheCosts == list :> (app :> 2 @@ quota :> 0) @@ report :> (app :> 1 @@ quota :> 1)
TheCapacity == app :> 2 @@ quota :> 1
TheRefill == app :> 2 @@ quota :> 0
OneTickDays == [t \in 0..MaxTime |-> t]
=============================================================================
