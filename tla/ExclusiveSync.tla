--------------------------- MODULE ExclusiveSync ---------------------------
(***************************************************************************)
(* What the throttle lock promises, whatever implements it: a row is       *)
(* synced by at most one worker at a time, and no sync of it starts during *)
(* the cooldown a finished sync leaves behind.  Only a failed sync may end *)
(* without a cooldown.                                                     *)
(***************************************************************************)
CONSTANTS Rows, Workers

VARIABLES
  busy,      \* the workers syncing each row
  cooling    \* the rows in cooldown

vars == <<busy, cooling>>

Init ==
  /\ busy = [r \in Rows |-> {}]
  /\ cooling = {}

Start(r, w) ==
  /\ busy[r] = {}
  /\ r \notin cooling
  /\ busy' = [busy EXCEPT ![r] = {w}]
  /\ UNCHANGED cooling

(* The worker is done: it succeeded, it failed, or it died. *)
End(r, w) ==
  /\ w \in busy[r]
  /\ busy' = [busy EXCEPT ![r] = @ \ {w}]
  /\ cooling' \in {cooling, cooling \cup {r}}

Cool(r) ==
  /\ r \in cooling
  /\ cooling' = cooling \ {r}
  /\ UNCHANGED busy

Next == \E r \in Rows : Cool(r) \/ \E w \in Workers : Start(r, w) \/ End(r, w)

Spec == Init /\ [][Next]_vars
=============================================================================
