----------------------------- MODULE MCMcpOAuth -----------------------------
(* McpOAuth with two sessions, four pairs and two requests at a time. *)
EXTENDS McpOAuth, TLC

CONSTANTS s1, s2, p1, p2, p3, p4, k1, k2

TwoSessions == {s1, s2}
FourPairs == {p1, p2, p3, p4}
TwoCalls == {k1, k2}
Alike == Permutations(TwoSessions) \cup Permutations(FourPairs) \cup Permutations(TwoCalls)
=============================================================================
