----------------------------- MODULE MCSyncJobs -----------------------------
(* SyncJobs on small instances. *)
EXTENDS SyncJobs, TLC

CONSTANTS a1, p1, p2, w1, w2

OneAccount == {a1}
OneProduct == {p1}
TwoProducts == {p1, p2}
OneWorker == {w1}
TwoWorkers == {w1, w2}
PollAndWebhook == {"scheduled", "webhook"}
PollAndManual == {"scheduled", "manual"}
PollOnly == {"scheduled"}

Symmetry == Permutations(TwoWorkers)
=============================================================================
