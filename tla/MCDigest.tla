------------------------------ MODULE MCDigest ------------------------------
(* Digest on small instances. *)
EXTENDS Digest, TLC

CONSTANTS i1, i2, e1, e2

TwoItems == {i1, i2}
TwoEndpoints == {e1, e2}
=============================================================================
