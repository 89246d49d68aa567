--------------------------- MODULE WebhookProofs ---------------------------
(* Proofs about WebhookDelivery: its type invariant, which bounds the       *)
(* attempts counted, that what is reported delivered was accepted, how      *)
(* often a delivery is posted, and that none is forgotten.                  *)
EXTENDS WebhookDelivery, TLAPS

Stages == {"load", "post", "mark", "retry", "add", "end"}
RowSet == [status : Statuses, attempts : 0..(MaxAttempts + MaxDisturbances)]

(* What a delivery's attempts may come to: MaxAttempts, and one more for each *)
(* manual retry that has been written.                                        *)
Cap(d) == MaxAttempts + replays - (IF admin[d] = "read" THEN 1 ELSE 0)

(* Attempts are written from what a slot has seen, so that the bound has to   *)
(* hold of the slots too, and strictly for a delivery that is not settled.    *)
AttemptsInv ==
  /\ \A d \in Deliveries : row[d].attempts <= Cap(d)
  /\ \A d \in Deliveries : ~Settled(d) => row[d].attempts < Cap(d)
  /\ \A s \in Slots : Working(s) => slot[s].seen < Cap(On(s))
  /\ \A s \in Slots : At(s, "add") => Attempts(s) < MaxAttempts
  /\ \A d \in emitter.todo : row[d].status = "none" /\ row[d].attempts = 0

ReplaysInv ==
  /\ \A d \in Deliveries : admin[d] # "none" => replays >= 1
  /\ replays + left <= MaxDisturbances

IInv == TypeOK /\ AttemptsInv /\ ReplaysInv

(* The steps of a slot, and the others. *)
Handling(s) ==
  \/ \E d \in Deliveries, id \in Ids : Take(s, d, id)
  \/ Attempt(s) \/ LoadError(s) \/ WriteError(s) \/ AddError(s) \/ WorkerCrash(s)

Requests(d) ==
  \/ \E id \in Ids : Promote(d, id) \/ Forget(d, id)
  \/ RetryRead(d) \/ Retry(d) \/ RemoveEndpoint(d)

LEMMA StepCases ==
  ASSUME [Next]_vars
  PROVE  \/ Emit \/ EmitError \/ EmitterCrash
         \/ \E s \in Slots : Handling(s)
         \/ \E d \in Deliveries : Requests(d)
         \/ UNCHANGED vars
  BY DEF Next, Handling, Requests

LEMMA FreeIsNoWork == Free \notin Work
  BY DEF Free, Work

LEMMA WorkTyped ==
  ASSUME TypeOK, NEW s \in Slots, Working(s)
  PROVE  /\ slot[s] \in Work /\ On(s) \in Deliveries /\ slot[s].id \in Ids
         /\ slot[s].seen \in Nat /\ Attempts(s) \in Nat
  BY DEF TypeOK, Working, On, Work, Attempts

(* Changing the stage of some work leaves everything else of it. *)
LEMMA Staged ==
  ASSUME NEW w \in Work, NEW stage \in Stages, NEW v, v = [w EXCEPT !.stage = stage]
  PROVE  v \in Work /\ v.stage = stage /\ v.d = w.d /\ v.seen = w.seen
  BY DEF Work, Stages

LEMMA Caught ==
  ASSUME NEW w \in Work, NEW v, v = [w EXCEPT !.caught = TRUE]
  PROVE  v \in Work /\ v.stage = w.stage /\ v.d = w.d /\ v.seen = w.seen
  BY DEF Work
-----------------------------------------------------------------------------
(* The ways in which the work of slot t may change: it goes on with what it  *)
(* has seen, it loads the row, or it takes a job.                            *)
Continues(t) ==
  /\ Working(t) /\ slot'[t] \in Work
  /\ slot'[t].d = slot[t].d /\ slot'[t].seen = slot[t].seen
  /\ slot'[t].stage = "add" => At(t, "add") \/ ~GivesUp(Attempts(t))
  /\ slot'[t].stage = "mark" => At(t, "mark") \/ On(t) \in acked'

Loads(t) ==
  /\ Working(t) /\ slot'[t] \in Work
  /\ slot'[t].d = slot[t].d /\ slot'[t].stage = "post"
  /\ ~Settled(On(t)) /\ slot'[t].seen = row[On(t)].attempts

Begins(t) == slot'[t] \in Work /\ slot'[t].stage = "load" /\ slot'[t].seen = 0

SlotStep(t) == slot'[t] = slot[t] \/ slot'[t] = Free \/ Continues(t) \/ Loads(t) \/ Begins(t)

LEMMA MoveContinues ==
  ASSUME TypeOK, NEW s \in Slots, Working(s), NEW stage \in Stages, Move(s, stage),
         stage = "add" => ~GivesUp(Attempts(s)), stage = "mark" => On(s) \in acked'
  PROVE  SlotStep(s) /\ \A t \in Slots \ {s} : slot'[t] = slot[t]
  <1>1. slot'[s] = [slot[s] EXCEPT !.stage = stage] /\ \A t \in Slots \ {s} : slot'[t] = slot[t]
    BY DEF TypeOK, Move
  <1>2. slot[s] \in Work BY WorkTyped
  <1>3. QED BY <1>1, <1>2, Staged DEF SlotStep, Continues

LEMMA CatchContinues ==
  ASSUME TypeOK, NEW s \in Slots, Working(s), slot' = [slot EXCEPT ![s].stage = "retry", ![s].caught = TRUE]
  PROVE  SlotStep(s) /\ \A t \in Slots \ {s} : slot'[t] = slot[t]
  <1>1. slot'[s] = [slot[s] EXCEPT !.stage = "retry", !.caught = TRUE]
    BY DEF TypeOK
  <1>2. \A t \in Slots \ {s} : slot'[t] = slot[t] BY DEF TypeOK
  <1>3. slot[s] \in Work BY WorkTyped
  <1>4. slot'[s] \in Work /\ slot'[s].stage = "retry" /\ slot'[s].d = slot[s].d /\ slot'[s].seen = slot[s].seen
    <2> DEFINE v == [slot[s] EXCEPT !.stage = "retry"]
    <2>1. v \in Work /\ v.stage = "retry" /\ v.d = slot[s].d /\ v.seen = slot[s].seen BY <1>3 DEF Work
    <2>2. slot'[s] = [v EXCEPT !.caught = TRUE] BY <1>1
    <2> HIDE DEF v
    <2>3. QED BY <2>1, <2>2, Caught
  <1>5. QED BY <1>2, <1>4 DEF SlotStep, Continues

(* Slot s takes a step and the others keep their work. *)
OnlySlot(s) == SlotStep(s) /\ \A t \in Slots \ {s} : slot'[t] = slot[t]

LEMMA SlotFreed ==
  ASSUME TypeOK, NEW s \in Slots, slot' = [slot EXCEPT ![s] = Free]
  PROVE  OnlySlot(s)
  BY DEF TypeOK, SlotStep, OnlySlot

LEMMA TakeStep ==
  ASSUME TypeOK, NEW s \in Slots, NEW d \in Deliveries, NEW id \in Ids, Take(s, d, id)
  PROVE  OnlySlot(s)
  <1>1. slot'[s] = [stage |-> "load", d |-> d, id |-> id, seen |-> 0, caught |-> FALSE, outlasted |-> {}]
    BY DEF TypeOK, Take
  <1>2. \A t \in Slots \ {s} : slot'[t] = slot[t] BY DEF TypeOK, Take
  <1>3. Begins(s) BY <1>1 DEF Begins, Work
  <1>4. QED BY <1>2, <1>3 DEF OnlySlot, SlotStep

LEMMA LoadStep ==
  ASSUME TypeOK, NEW s \in Slots, Load(s)
  PROVE  OnlySlot(s)
  <1>0. Working(s) /\ slot[s] \in Work /\ On(s) \in Deliveries BY WorkTyped DEF Load, At
  <1>1. CASE Settled(On(s)) BY <1>0, <1>1, MoveContinues DEF Load, Stages, OnlySlot
  <1>2. CASE ~Settled(On(s))
    <2> DEFINE n == row[On(s)].attempts
    <2>1. slot'[s] = [slot[s] EXCEPT !.stage = "post", !.seen = n] BY <1>2 DEF Load, TypeOK
    <2>2. \A t \in Slots \ {s} : slot'[t] = slot[t] BY <1>2 DEF Load, TypeOK
    <2>3. n \in Nat BY <1>0, DeliveryAssumption DEF TypeOK
    <2>4. slot'[s] \in Work /\ slot'[s].stage = "post" /\ slot'[s].d = slot[s].d /\ slot'[s].seen = n
      BY <1>0, <2>1, <2>3 DEF Work
    <2>5. QED BY <1>0, <1>2, <2>2, <2>4 DEF OnlySlot, SlotStep, Loads
  <1>3. QED BY <1>1, <1>2

(* A retry is only added within the attempts, so that its id is one of Ids. *)
LEMMA RetryIdTyped ==
  ASSUME TypeOK, AttemptsInv, NEW s \in Slots, At(s, "add")
  PROVE  RetryId(s) \in Ids /\ RetryId(s) < MaxAttempts
  <1>1. Attempts(s) \in Nat /\ Attempts(s) < MaxAttempts BY WorkTyped DEF AttemptsInv, At
  <1>2. QED BY <1>1, DeliveryAssumption DEF RetryId, Ids

LEMMA AddRetrySlots ==
  ASSUME TypeOK, AttemptsInv, NEW s \in Slots, AddRetry(s)
  PROVE  \A t \in Slots : SlotStep(t)
  <1> DEFINE begun == IF jobs[On(s)][RetryId(s)] = "absent" THEN {RetryId(s)} ELSE {}
  <1>0. At(s, "add") BY DEF AddRetry
  <1>1. begun \in SUBSET Ids BY <1>0, RetryIdTyped
  <1>2. slot'[s] = [slot[s] EXCEPT !.stage = "end"] BY DEF AddRetry
  <1>3. slot'[s] \in Work /\ slot'[s].stage = "end" /\ slot'[s].d = slot[s].d /\ slot'[s].seen = slot[s].seen
    <2>1. slot[s] \in Work BY <1>0, WorkTyped DEF At
    <2>2. "end" \in Stages BY DEF Stages
    <2>3. QED BY <2>1, <2>2, <1>2, Staged
  <1>4. SlotStep(s) BY <1>0, <1>3 DEF SlotStep, Continues, At
  <1>5. ASSUME NEW t \in Slots \ {s} PROVE SlotStep(t)
    <2>1. CASE slot'[t] = slot[t] BY <2>1 DEF SlotStep
    <2>2. CASE Working(t) /\ slot'[t] = [slot[t] EXCEPT !.outlasted = @ \cup begun]
      <3>1. slot'[t] \in Work /\ slot'[t].stage = slot[t].stage /\ slot'[t].d = slot[t].d
            /\ slot'[t].seen = slot[t].seen
        <4>1. slot[t] \in Work BY <2>2, WorkTyped
        <4>2. QED BY <1>1, <2>2, <4>1 DEF Work
      <3>2. QED BY <2>2, <3>1 DEF SlotStep, Continues, At
    <2>3. QED BY <2>1, <2>2 DEF AddRetry
  <1>6. QED BY <1>4, <1>5

LEMMA ThrowStep ==
  ASSUME TypeOK, NEW s \in Slots, Working(s), Throw(s)
  PROVE  OnlySlot(s)
  <1>1. CASE slot[s].caught BY <1>1, MoveContinues DEF Throw, FailJob, Stages, OnlySlot
  <1>2. CASE ~slot[s].caught BY <1>2, CatchContinues DEF Throw, OnlySlot
  <1>3. QED BY <1>1, <1>2

LEMMA HandlingSlots ==
  ASSUME TypeOK, AttemptsInv, NEW s \in Slots, Handling(s)
  PROVE  \A t \in Slots : SlotStep(t)
  <1>0. OnlySlot(s) => \A t \in Slots : SlotStep(t) BY DEF OnlySlot, SlotStep
  <1>1. CASE \E d \in Deliveries, id \in Ids : Take(s, d, id) BY <1>0, <1>1, TakeStep
  <1>2. CASE Load(s) BY <1>0, <1>2, LoadStep
  <1>3. CASE Reject(s) BY <1>0, <1>3, MoveContinues DEF Reject, At, Stages, OnlySlot
  <1>4. CASE Accepted(s) BY <1>0, <1>4, MoveContinues DEF Accepted, Post, At, Stages, OnlySlot
  <1>5. CASE Refused(s) BY <1>0, <1>5, MoveContinues DEF Refused, Post, At, Stages, OnlySlot
  <1>6. CASE Unreachable(s) BY <1>0, <1>6, CatchContinues DEF Unreachable, Post, At, OnlySlot
  <1>7. CASE MarkDelivered(s) BY <1>0, <1>7, MoveContinues DEF MarkDelivered, At, Stages, OnlySlot
  <1>8. CASE Abandon(s) BY <1>0, <1>8, MoveContinues DEF Abandon, At, Stages, OnlySlot
  <1>9. CASE MarkFailed(s) BY <1>0, <1>9, MoveContinues DEF MarkFailed, At, Stages, OnlySlot
  <1>10. CASE AddRetry(s) BY <1>10, AddRetrySlots
  <1>11. CASE Return(s) \/ WorkerCrash(s) BY <1>0, <1>11, SlotFreed DEF Return, WorkerCrash
  <1>12. CASE LoadError(s) BY <1>0, <1>12, MoveContinues DEF LoadError, FailJob, At, Stages, OnlySlot
  <1>13. CASE WriteError(s) \/ AddError(s) BY <1>0, <1>13, ThrowStep DEF WriteError, AddError, At
  <1>14. QED
    BY <1>1, <1>2, <1>3, <1>4, <1>5, <1>6, <1>7, <1>8, <1>9, <1>10, <1>11, <1>12, <1>13
    DEF Handling, Attempt

LEMMA SlotSteps ==
  ASSUME TypeOK, AttemptsInv, [Next]_vars
  PROVE  \A t \in Slots : SlotStep(t)
  <1>1. CASE Emit \/ EmitError \/ EmitterCrash \/ UNCHANGED vars
    BY <1>1 DEF Emit, CreateRow, AddFirst, EmitError, EmitterCrash, vars, SlotStep
  <1>2. CASE \E d \in Deliveries : Requests(d)
    BY <1>2 DEF Requests, Promote, Forget, RetryRead, Retry, RetryWrite, RetryAdd, RemoveEndpoint, SlotStep
  <1>3. QED BY <1>1, <1>2, HandlingSlots, StepCases
-----------------------------------------------------------------------------
(* The ways in which the row of delivery d may change. *)
Created(d) ==
  /\ d \in emitter.todo /\ d \notin emitter'.todo
  /\ row'[d] = [status |-> "pending", attempts |-> row[d].attempts]

Replayed(d) ==
  /\ Exists(d) /\ admin[d] = "read" /\ admin'[d] = "written" /\ replays' = replays
  /\ row'[d] = [status |-> "pending", attempts |-> row[d].attempts]

Writes(d, s, status) ==
  /\ Working(s) /\ On(s) = d /\ Exists(d)
  /\ row'[d] = [status |-> status, attempts |-> Attempts(s)]
  /\ status = "delivered" => At(s, "mark")
  /\ status = "failed" => ~GivesUp(Attempts(s))

Written(d) == \E s \in Slots, status \in {"failed", "delivered", "abandoned"} : Writes(d, s, status)

RowStep(d) ==
  \/ row'[d] = row[d]
  \/ row'[d] = [status |-> "none", attempts |-> 0]
  \/ Created(d) \/ Replayed(d) \/ Written(d)

LEMMA RowHolds ==
  ASSUME TypeOK, NEW d \in Deliveries
  PROVE  row[d] \in RowSet /\ row[d].attempts \in Nat
  BY DeliveryAssumption DEF TypeOK, RowSet

LEMMA Pending ==
  ASSUME NEW r \in RowSet, NEW v, v = [r EXCEPT !.status = "pending"]
  PROVE  v = [status |-> "pending", attempts |-> r.attempts]
  BY DEF RowSet

LEMMA PendingRow ==
  ASSUME TypeOK, NEW d \in Deliveries, row' = [row EXCEPT ![d].status = "pending"]
  PROVE  /\ row'[d] = [status |-> "pending", attempts |-> row[d].attempts]
         /\ \A e \in Deliveries \ {d} : row'[e] = row[e]
  <1>1. row'[d] = [row[d] EXCEPT !.status = "pending"] /\ \A e \in Deliveries \ {d} : row'[e] = row[e]
    BY DEF TypeOK
  <1>2. QED BY <1>1, RowHolds, Pending

LEMMA WriteRow ==
  ASSUME TypeOK, NEW s \in Slots, Working(s), NEW status \in {"failed", "delivered", "abandoned"},
         Write(s, status), status = "delivered" => At(s, "mark"), status = "failed" => ~GivesUp(Attempts(s))
  PROVE  \A d \in Deliveries : RowStep(d)
  <1>1. On(s) \in Deliveries BY WorkTyped
  <1>2. row'[On(s)] = [status |-> status, attempts |-> Attempts(s)] BY <1>1 DEF Write, TypeOK
  <1>3. \A e \in Deliveries \ {On(s)} : row'[e] = row[e] BY <1>1 DEF Write, TypeOK
  <1>4. Writes(On(s), s, status) BY <1>2 DEF Writes, Write
  <1>5. QED BY <1>3, <1>4 DEF RowStep, Written

LEMMA HandlingRows ==
  ASSUME TypeOK, NEW s \in Slots, Handling(s)
  PROVE  \A d \in Deliveries : RowStep(d)
  <1>1. CASE Reject(s) BY <1>1, WriteRow DEF Reject, At
  <1>2. CASE MarkDelivered(s) BY <1>2, WriteRow DEF MarkDelivered, At
  <1>3. CASE Abandon(s) BY <1>3, WriteRow DEF Abandon, At
  <1>4. CASE MarkFailed(s) BY <1>4, WriteRow DEF MarkFailed, At
  <1>5. CASE UNCHANGED row BY <1>5 DEF RowStep
  <1>6. QED
    BY <1>1, <1>2, <1>3, <1>4, <1>5
    DEF Handling, Attempt, Take, Load, Accepted, Refused, Unreachable, Post, AddRetry, Return, LoadError, WriteError,
        Throw, AddError, WorkerCrash

LEMMA RowSteps ==
  ASSUME TypeOK, [Next]_vars
  PROVE  \A d \in Deliveries : RowStep(d)
  <1>1. ASSUME NEW d \in Deliveries, CreateRow(d) PROVE \A e \in Deliveries : RowStep(e)
    <2>1. d \in emitter.todo /\ d \notin emitter'.todo BY <1>1 DEF CreateRow, TypeOK
    <2>2. QED BY <1>1, <2>1, PendingRow DEF CreateRow, RowStep, Created
  <1>2. ASSUME NEW d \in Deliveries, RetryWrite(d) PROVE \A e \in Deliveries : RowStep(e)
    <2>1. CASE Exists(d)
      <3>1. admin[d] = "read" /\ admin'[d] = "written" /\ replays' = replays BY <1>2, <2>1 DEF RetryWrite, TypeOK
      <3>2. QED BY <1>2, <2>1, <3>1, PendingRow DEF RetryWrite, RowStep, Replayed
    <2>2. CASE ~Exists(d) BY <1>2, <2>2 DEF RetryWrite, RowStep
    <2>3. QED BY <2>1, <2>2
  <1>3. ASSUME NEW d \in Deliveries, RemoveEndpoint(d) PROVE \A e \in Deliveries : RowStep(e)
    BY <1>3 DEF RemoveEndpoint, RowStep, TypeOK
  <1>4. CASE UNCHANGED row BY <1>4 DEF RowStep
  <1>5. CASE Emit \/ EmitError \/ EmitterCrash BY <1>5, <1>1, <1>4 DEF Emit, AddFirst, EmitError, EmitterCrash
  <1>6. CASE \E d \in Deliveries : Requests(d)
    BY <1>6, <1>2, <1>3, <1>4 DEF Requests, Promote, Forget, RetryRead, Retry, RetryAdd
  <1>7. QED BY <1>4, <1>5, <1>6, HandlingRows, StepCases DEF vars
-----------------------------------------------------------------------------
(* Manual retries: who has read a row, how many there were, what is left. *)
AdminStep(d) ==
  \/ admin'[d] = admin[d]
  \/ admin[d] = "none" /\ admin'[d] = "read" /\ replays' = replays + 1
  \/ admin[d] = "read" /\ admin'[d] \in {"written", "none"} /\ replays' = replays
  \/ admin[d] = "written" /\ admin'[d] = "none"

CountStep ==
  \/ replays' = replays /\ left' = left
  \/ replays' \in {replays, replays + 1} /\ left > 0 /\ left' = left - 1

LEMMA HandlingCounts ==
  ASSUME NEW s \in Slots, Handling(s)
  PROVE  admin' = admin /\ CountStep
  BY DEF Handling, Attempt, Take, Load, Reject, Accepted, Refused, Unreachable, Post, MarkDelivered, Abandon, MarkFailed,
         AddRetry, Return, LoadError, WriteError, Throw, AddError, WorkerCrash, CountStep, Fault, Disturb

LEMMA AdminSteps ==
  ASSUME TypeOK, [Next]_vars
  PROVE  CountStep /\ \A d \in Deliveries : AdminStep(d)
  <1>1. CASE UNCHANGED admin /\ CountStep BY <1>1 DEF AdminStep
  <1>2. CASE Emit \/ EmitError \/ EmitterCrash \/ UNCHANGED vars
    BY <1>2, <1>1 DEF Emit, CreateRow, AddFirst, EmitError, EmitterCrash, CountStep, Fault, Disturb, vars
  <1>3. ASSUME NEW d \in Deliveries, RetryRead(d) PROVE CountStep /\ \A e \in Deliveries : AdminStep(e)
    BY <1>3 DEF RetryRead, Disturb, CountStep, AdminStep, TypeOK
  <1>4. ASSUME NEW d \in Deliveries, RetryWrite(d) PROVE CountStep /\ \A e \in Deliveries : AdminStep(e)
    BY <1>4 DEF RetryWrite, CountStep, AdminStep, TypeOK
  <1>5. ASSUME NEW d \in Deliveries, RetryAdd(d) PROVE CountStep /\ \A e \in Deliveries : AdminStep(e)
    BY <1>5 DEF RetryAdd, Fault, Disturb, CountStep, AdminStep, TypeOK
  <1>6. CASE \E d \in Deliveries : Requests(d)
    BY <1>6, <1>1, <1>3, <1>4, <1>5 DEF Requests, Promote, Forget, Retry, RemoveEndpoint, CountStep
  <1>7. QED BY <1>1, <1>2, <1>6, HandlingCounts, StepCases

LEMMA ReplaysKept ==
  ASSUME TypeOK, ReplaysInv, [Next]_vars
  PROVE  ReplaysInv' /\ replays' \in Nat /\ replays' >= replays /\ left' \in 0..MaxDisturbances
  <1>1. replays \in Nat /\ left \in Nat /\ left <= MaxDisturbances BY DeliveryAssumption DEF TypeOK
  <1>2. replays' \in Nat /\ replays' >= replays /\ left' \in 0..MaxDisturbances /\ replays' + left' <= MaxDisturbances
    BY <1>1, AdminSteps, DeliveryAssumption DEF CountStep, ReplaysInv
  <1>3. ASSUME NEW d \in Deliveries, admin'[d] # "none" PROVE replays' >= 1
    BY <1>1, <1>2, <1>3, AdminSteps DEF AdminStep, ReplaysInv
  <1>4. QED BY <1>2, <1>3 DEF ReplaysInv

(* What the attempts may come to never shrinks, and grows when a retry of the *)
(* operator is written.                                                       *)
NewCap(d) == MaxAttempts + replays' - (IF admin'[d] = "read" THEN 1 ELSE 0)

LEMMA Sums ==
  ASSUME NEW a \in Nat, NEW m \in Nat, NEW n \in Nat, m >= n
  PROVE  /\ a + m \in Nat /\ a + m >= a + n
         /\ \A c \in Int : c <= a + n => a + m >= c
         /\ a >= 1 => a + m - 1 \in Nat /\ a + m - 1 >= a + n - 1
  OBVIOUS

LEMMA CapGrows ==
  ASSUME TypeOK, ReplaysInv, [Next]_vars, NEW d \in Deliveries
  PROVE  /\ Cap(d) \in Nat /\ Cap(d) >= 1 /\ NewCap(d) \in Nat /\ NewCap(d) >= Cap(d)
         /\ Replayed(d) => NewCap(d) = Cap(d) + 1
  <1>1. replays \in Nat /\ MaxAttempts \in Nat /\ MaxAttempts >= 1 BY DeliveryAssumption DEF TypeOK
  <1>2. replays' \in Nat /\ replays' >= replays BY ReplaysKept
  <1>3. admin[d] = "read" => replays >= 1 BY DEF ReplaysInv
  <1>4. AdminStep(d) BY AdminSteps
  <1>5. admin'[d] = "read" => replays' >= 1 BY ReplaysKept DEF ReplaysInv
  <1>6. Cap(d) \in Nat /\ Cap(d) >= 1 BY <1>1, <1>3 DEF Cap
  <1>7. NewCap(d) \in Nat /\ NewCap(d) >= Cap(d)
    <2>1. CASE admin'[d] = "read" /\ admin[d] # "read"
      <3>1. replays' = replays + 1 BY <1>4, <2>1 DEF AdminStep
      <3>2. QED BY <1>1, <2>1, <3>1 DEF Cap, NewCap
    <2>2. CASE admin'[d] # "read"
      <3>1. NewCap(d) = MaxAttempts + replays' BY <1>1, <1>2, <2>2 DEF NewCap
      <3>2. Cap(d) <= MaxAttempts + replays BY <1>1 DEF Cap
      <3>3. Cap(d) \in Int BY <1>6
      <3>4. MaxAttempts + replays' >= Cap(d) /\ MaxAttempts + replays' \in Nat BY <1>1, <1>2, <3>2, <3>3, Sums
      <3>5. QED BY <3>1, <3>4
    <2>3. CASE admin'[d] = "read" /\ admin[d] = "read"
      <3>1. NewCap(d) = MaxAttempts + replays' - 1 BY <2>3 DEF NewCap
      <3>2. Cap(d) = MaxAttempts + replays - 1 BY <2>3 DEF Cap
      <3>3. QED BY <1>1, <1>2, <3>1, <3>2, Sums
    <2>4. QED BY <2>1, <2>2, <2>3
  <1>8. Replayed(d) => NewCap(d) = Cap(d) + 1 BY <1>1 DEF Cap, NewCap, Replayed
  <1>9. QED BY <1>6, <1>7, <1>8

LEMMA AttemptsKept ==
  ASSUME TypeOK, AttemptsInv, ReplaysInv, [Next]_vars
  PROVE  AttemptsInv'
  <1>0. \A s \in Slots : SlotStep(s) BY SlotSteps
  <1>1. \A d \in Deliveries : RowStep(d) BY RowSteps
  <1>2. emitter'.todo \subseteq emitter.todo
    <2>1. CASE Emit \/ EmitError \/ EmitterCrash
      <3>1. ASSUME NEW d \in Deliveries, CreateRow(d) \/ AddFirst(d) PROVE emitter'.todo \subseteq emitter.todo
        <4>1. emitter'.todo \in {emitter.todo, emitter.todo \ {d}} BY <3>1 DEF CreateRow, AddFirst, TypeOK
        <4>2. QED BY <4>1
      <3>2. CASE EmitError BY <3>2 DEF EmitError, TypeOK
      <3>3. CASE EmitterCrash BY <3>3 DEF EmitterCrash, TypeOK
      <3>4. QED BY <2>1, <3>1, <3>2, <3>3 DEF Emit
    <2>2. ASSUME NEW s \in Slots, Handling(s) PROVE emitter' = emitter
      BY <2>2 DEF Handling, Attempt, Take, Load, Reject, Accepted, Refused, Unreachable, Post, MarkDelivered, Abandon,
                  MarkFailed, AddRetry, Return, LoadError, WriteError, Throw, AddError, WorkerCrash
    <2>3. ASSUME NEW d \in Deliveries, Requests(d) PROVE emitter' = emitter
      BY <2>3 DEF Requests, Promote, Forget, RetryRead, Retry, RetryWrite, RetryAdd, RemoveEndpoint
    <2>4. QED BY <2>1, <2>2, <2>3, StepCases DEF vars
  <1>3. ASSUME NEW d \in Deliveries
        PROVE  /\ row'[d].attempts <= NewCap(d)
               /\ row'[d].status \in {"pending", "failed"} => row'[d].attempts < NewCap(d)
    <2>0. /\ Cap(d) \in Nat /\ Cap(d) >= 1 /\ NewCap(d) \in Nat /\ NewCap(d) >= Cap(d)
          /\ Replayed(d) => NewCap(d) = Cap(d) + 1
      BY CapGrows
    <2>00. /\ row[d].attempts \in Nat /\ row[d].attempts <= Cap(d)
           /\ row[d].status \in {"pending", "failed"} => row[d].attempts < Cap(d)
      BY RowHolds DEF AttemptsInv, Settled
    <2>1. CASE row'[d] = row[d] BY <2>0, <2>00, <2>1
    <2>2. CASE row'[d] = [status |-> "none", attempts |-> 0] BY <2>0, <2>2
    <2>3. CASE Created(d)
      <3>1. row[d].attempts = 0 BY <2>3 DEF Created, AttemptsInv
      <3>2. QED BY <3>1, <2>0, <2>3 DEF Created
    <2>4. CASE Replayed(d) BY <2>0, <2>00, <2>4 DEF Replayed
    <2>5. ASSUME NEW s \in Slots, NEW status \in {"failed", "delivered", "abandoned"}, Writes(d, s, status)
          PROVE  /\ row'[d].attempts <= NewCap(d)
                 /\ row'[d].status \in {"pending", "failed"} => row'[d].attempts < NewCap(d)
      <3>1. Working(s) /\ On(s) = d /\ row'[d].attempts = Attempts(s) /\ row'[d].status = status
        BY <2>5 DEF Writes
      <3>2. slot[s].seen \in Nat /\ slot[s].seen < Cap(d) BY <3>1, WorkTyped DEF AttemptsInv
      <3>3. Attempts(s) = slot[s].seen + 1 BY DEF Attempts
      <3>4. CASE status = "failed"
        <4>1. ~(Attempts(s) >= MaxAttempts) BY <2>5, <3>4 DEF Writes, GivesUp
        <4>2. NewCap(d) >= MaxAttempts
          <5>1. admin'[d] = "read" => replays' >= 1 BY ReplaysKept DEF ReplaysInv
          <5>2. QED BY <5>1, ReplaysKept, DeliveryAssumption DEF NewCap
        <4>3. QED BY <3>1, <3>2, <3>3, <4>1, <4>2, <2>0, DeliveryAssumption
      <3>5. CASE status # "failed" BY <3>1, <3>2, <3>3, <3>5, <2>0
      <3>6. QED BY <3>4, <3>5
    <2>6. QED BY <1>1, <2>1, <2>2, <2>3, <2>4, <2>5 DEF RowStep, Written
  <1>4. ASSUME NEW s \in Slots, Working(s)'
        PROVE  slot'[s].seen < NewCap(slot'[s].d)
    <2>1. CASE slot'[s] = slot[s]
      <3>1. Working(s) /\ On(s) \in Deliveries /\ slot[s].seen \in Nat BY <1>4, <2>1, WorkTyped DEF Working
      <3>2. slot[s].seen < Cap(On(s)) BY <3>1 DEF AttemptsInv
      <3>3. QED BY <2>1, <3>1, <3>2, CapGrows DEF On
    <2>2. CASE Continues(s)
      <3>1. Working(s) /\ On(s) \in Deliveries /\ slot[s].seen \in Nat BY <2>2, WorkTyped DEF Continues
      <3>2. slot[s].seen < Cap(On(s)) BY <3>1 DEF AttemptsInv
      <3>3. QED BY <2>2, <3>1, <3>2, CapGrows DEF On, Continues
    <2>3. CASE Loads(s)
      <3>1. Working(s) /\ On(s) \in Deliveries BY <2>3, WorkTyped DEF Loads
      <3>2. row[On(s)].attempts \in Nat /\ row[On(s)].attempts < Cap(On(s)) BY <2>3, <3>1, RowHolds DEF Loads, AttemptsInv
      <3>3. QED BY <2>3, <3>1, <3>2, CapGrows DEF On, Loads
    <2>4. CASE Begins(s)
      <3>1. slot'[s].d \in Deliveries /\ slot'[s].seen = 0 BY <2>4 DEF Begins, Work
      <3>2. QED BY <3>1, CapGrows
    <2>5. QED BY <1>0, <1>4, <2>1, <2>2, <2>3, <2>4 DEF SlotStep, Working
  <1>5. ASSUME NEW s \in Slots, At(s, "add")' PROVE Attempts(s)' < MaxAttempts
    <2>1. CASE slot'[s] = slot[s] BY <1>5, <2>1 DEF AttemptsInv, At, Attempts, Working
    <2>2. CASE Continues(s)
      <3>1. At(s, "add") => Attempts(s) < MaxAttempts BY DEF AttemptsInv
      <3>2. ~GivesUp(Attempts(s)) => Attempts(s) < MaxAttempts
        BY <2>2, WorkTyped, DeliveryAssumption DEF GivesUp, Continues
      <3>3. QED BY <1>5, <2>2, <3>1, <3>2 DEF Continues, At, Attempts
    <2>3. QED BY <1>0, <1>5, <2>1, <2>2 DEF SlotStep, At, Working, Loads, Begins
  <1>6. ASSUME NEW d \in emitter'.todo PROVE row'[d].status = "none" /\ row'[d].attempts = 0
    <2>1. d \in emitter.todo /\ d \in Deliveries BY <1>2 DEF TypeOK
    <2>2. row[d].status = "none" /\ row[d].attempts = 0 BY <2>1 DEF AttemptsInv
    <2>3. ~Created(d) /\ ~Replayed(d) /\ ~Written(d)
      BY <2>2 DEF Created, Replayed, Written, Writes, Exists
    <2>4. QED BY <1>1, <2>1, <2>2, <2>3 DEF RowStep
  <1>7. \A d \in Deliveries : row'[d].status \in Statuses
    <2>1. \A d \in Deliveries : row[d].status \in Statuses BY DEF TypeOK
    <2>2. ASSUME NEW d \in Deliveries, Written(d) PROVE row'[d].status \in Statuses
      BY <2>2 DEF Written, Writes, Statuses
    <2>3. ASSUME NEW d \in Deliveries PROVE row'[d].status \in Statuses
      <3>1. row'[d].status \in {row[d].status, "none", "pending"} \/ Written(d)
        <4>1. RowStep(d) BY <1>1
        <4>2. CASE Created(d) \/ Replayed(d)
          <5>1. row'[d] = [status |-> "pending", attempts |-> row[d].attempts] BY <4>2 DEF Created, Replayed
          <5>2. QED BY <5>1
        <4>3. CASE row'[d] = [status |-> "none", attempts |-> 0] BY <4>3
        <4>4. CASE row'[d] = row[d] BY <4>4
        <4>5. QED BY <4>1, <4>2, <4>3, <4>4 DEF RowStep
      <3>2. QED BY <2>1, <2>2, <3>1 DEF Statuses
    <2>4. QED BY <2>3
  <1>8. \A d \in Deliveries : Settled(d)' \/ row'[d].status \in {"pending", "failed"}
    BY <1>7 DEF Settled, Statuses
  <1>9. QED BY <1>3, <1>4, <1>5, <1>6, <1>8 DEF AttemptsInv, Cap, NewCap, On
-----------------------------------------------------------------------------
(* The types of what the steps write. *)
AttemptsFit == \A s \in Slots : Working(s) => Attempts(s) \in 0..(MaxAttempts + MaxDisturbances)

LEMMA AttemptsDoFit ==
  ASSUME TypeOK, AttemptsInv, ReplaysInv
  PROVE  AttemptsFit
  <1> SUFFICES ASSUME NEW s \in Slots, Working(s)
               PROVE  Attempts(s) \in 0..(MaxAttempts + MaxDisturbances)
    BY DEF AttemptsFit
  <1>1. slot[s].seen \in Nat /\ On(s) \in Deliveries /\ Attempts(s) \in Nat BY WorkTyped
  <1>2. slot[s].seen < Cap(On(s)) BY DEF AttemptsInv
  <1>3. replays \in Nat /\ replays <= MaxDisturbances /\ MaxAttempts \in Nat /\ MaxDisturbances \in Nat
    BY DeliveryAssumption DEF TypeOK
  <1>4. Cap(On(s)) \in Int /\ Cap(On(s)) <= MaxAttempts + replays BY <1>3 DEF Cap
  <1>5. QED BY <1>1, <1>2, <1>3, <1>4 DEF Attempts

LEMMA WriteTyped ==
  ASSUME TypeOK, AttemptsFit, NEW s \in Slots, Working(s), NEW status \in Statuses, Write(s, status)
  PROVE  row' \in [Deliveries -> RowSet]
  <1>1. On(s) \in Deliveries BY WorkTyped
  <1>2. [status |-> status, attempts |-> Attempts(s)] \in RowSet BY DEF AttemptsFit, RowSet
  <1>3. QED BY <1>1, <1>2 DEF Write, TypeOK, RowSet

LEMMA PendingTyped ==
  ASSUME TypeOK, NEW d \in Deliveries, row' = [row EXCEPT ![d].status = "pending"]
  PROVE  row' \in [Deliveries -> RowSet]
  <1>1. row[d] \in RowSet BY RowHolds
  <1>2. row' = [row EXCEPT ![d] = [row[d] EXCEPT !.status = "pending"]] OBVIOUS
  <1>3. [row[d] EXCEPT !.status = "pending"] \in RowSet BY <1>1 DEF RowSet, Statuses
  <1>4. QED BY <1>2, <1>3 DEF TypeOK, RowSet

LEMMA RowsTyped ==
  ASSUME TypeOK, AttemptsInv, ReplaysInv, [Next]_vars
  PROVE  row' \in [Deliveries -> RowSet]
  <1>0. AttemptsFit BY AttemptsDoFit
  <1>1. CASE row' = row BY <1>1 DEF TypeOK, RowSet
  <1>2. ASSUME NEW s \in Slots, Handling(s) PROVE row' \in [Deliveries -> RowSet]
    <2>1. CASE Reject(s) BY <1>0, <2>1, WriteTyped DEF Reject, At, Statuses
    <2>2. CASE MarkDelivered(s) BY <1>0, <2>2, WriteTyped DEF MarkDelivered, At, Statuses
    <2>3. CASE Abandon(s) BY <1>0, <2>3, WriteTyped DEF Abandon, At, Statuses
    <2>4. CASE MarkFailed(s) BY <1>0, <2>4, WriteTyped DEF MarkFailed, At, Statuses
    <2>5. QED
      BY <1>1, <1>2, <2>1, <2>2, <2>3, <2>4
      DEF Handling, Attempt, Take, Load, Accepted, Refused, Unreachable, Post, AddRetry, Return, LoadError, WriteError,
          Throw, AddError, WorkerCrash
  <1>3. ASSUME NEW d \in Deliveries, Requests(d) PROVE row' \in [Deliveries -> RowSet]
    <2>1. CASE RetryWrite(d) BY <1>1, <2>1, PendingTyped DEF RetryWrite
    <2>2. CASE RemoveEndpoint(d)
      <3>1. [status |-> "none", attempts |-> 0] \in RowSet BY DeliveryAssumption DEF RowSet, Statuses
      <3>2. QED BY <2>2, <3>1 DEF RemoveEndpoint, TypeOK, RowSet
    <2>3. QED BY <1>1, <1>3, <2>1, <2>2 DEF Requests, Promote, Forget, RetryRead, Retry, RetryAdd
  <1>4. ASSUME NEW d \in Deliveries, CreateRow(d) PROVE row' \in [Deliveries -> RowSet]
    BY <1>4, PendingTyped DEF CreateRow
  <1>5. QED BY <1>1, <1>2, <1>3, <1>4, StepCases DEF Emit, AddFirst, EmitError, EmitterCrash, vars

JobsSet == [Deliveries -> [Ids -> Alive \cup {"absent", "kept"}]]

LEMMA JobWritten ==
  ASSUME TypeOK, NEW d \in Deliveries, NEW id \in Ids, NEW state \in Alive \cup {"absent", "kept"},
         jobs' = [jobs EXCEPT ![d][id] = state]
  PROVE  jobs' \in JobsSet
  <1>1. [jobs[d] EXCEPT ![id] = state] \in [Ids -> Alive \cup {"absent", "kept"}] BY DEF TypeOK
  <1>2. jobs' = [jobs EXCEPT ![d] = [jobs[d] EXCEPT ![id] = state]] OBVIOUS
  <1>3. QED BY <1>1, <1>2 DEF TypeOK, JobsSet

LEMMA JobAdded ==
  ASSUME TypeOK, NEW d \in Deliveries, NEW id \in Ids, NEW state \in Alive, Add(d, id, state)
  PROVE  jobs' \in JobsSet
  <1> DEFINE v == IF jobs[d][id] = "absent" THEN state ELSE jobs[d][id]
  <1>1. jobs' = [jobs EXCEPT ![d][id] = v] BY DEF Add
  <1>2. v \in Alive \cup {"absent", "kept"} BY DEF TypeOK
  <1> HIDE DEF v
  <1>3. QED BY <1>1, <1>2, JobWritten

LEMMA FirstIsId == First \in Ids
  BY DeliveryAssumption DEF First, Ids

LEMMA AdminIdTyped ==
  ASSUME TypeOK, ReplaysInv, NEW d \in Deliveries, admin[d] = "written"
  PROVE  AdminId(replays - 1) \in Ids
  <1>1. replays \in Nat /\ replays >= 1 /\ replays <= MaxDisturbances BY DeliveryAssumption DEF ReplaysInv, TypeOK
  <1>2. QED BY <1>1, DeliveryAssumption DEF AdminId, Ids

LEMMA JobsTyped ==
  ASSUME TypeOK, AttemptsInv, ReplaysInv, [Next]_vars
  PROVE  jobs' \in JobsSet
  <1> USE DEF Alive
  <1>1. CASE jobs' = jobs BY <1>1 DEF TypeOK, JobsSet
  <1>2. ASSUME NEW s \in Slots, Handling(s) PROVE jobs' \in JobsSet
    <2>1. ASSUME NEW d \in Deliveries, NEW id \in Ids, Take(s, d, id) PROVE jobs' \in JobsSet
      BY <2>1, JobWritten DEF Take
    <2>2. CASE AddRetry(s)
      <3>1. At(s, "add") /\ Add(On(s), RetryId(s), "delayed") BY <2>2 DEF AddRetry
      <3>2. RetryId(s) \in Ids /\ On(s) \in Deliveries BY <3>1, RetryIdTyped, WorkTyped DEF At
      <3>3. QED BY <3>1, <3>2, JobAdded
    <2>3. CASE Return(s) \/ WorkerCrash(s)
      <3>1. Working(s) BY <2>3 DEF Return, WorkerCrash, At
      <3>2. On(s) \in Deliveries /\ slot[s].id \in Ids BY <3>1, WorkTyped
      <3>3. \E v \in {"waiting", "kept"} : jobs' = [jobs EXCEPT ![On(s)][slot[s].id] = v]
        BY <2>3 DEF Return, WorkerCrash
      <3>4. QED BY <3>2, <3>3, JobWritten
    <2>4. QED
      BY <1>1, <1>2, <2>1, <2>2, <2>3
      DEF Handling, Attempt, Load, Reject, Accepted, Refused, Unreachable, Post, MarkDelivered, Abandon, MarkFailed,
          LoadError, WriteError, Throw, AddError
  <1>3. ASSUME NEW d \in Deliveries, Requests(d) PROVE jobs' \in JobsSet
    <2>1. ASSUME NEW id \in Ids, Promote(d, id) \/ Forget(d, id) PROVE jobs' \in JobsSet
      BY <2>1, JobWritten DEF Promote, Forget
    <2>2. CASE RetryAdd(d) BY <1>1, <2>2, AdminIdTyped, JobAdded DEF RetryAdd
    <2>3. QED BY <1>1, <1>3, <2>1, <2>2 DEF Requests, RetryRead, Retry, RetryWrite, RemoveEndpoint
  <1>4. ASSUME NEW d \in Deliveries, AddFirst(d) PROVE jobs' \in JobsSet
    BY <1>4, FirstIsId, JobAdded DEF AddFirst
  <1>5. QED BY <1>1, <1>2, <1>3, <1>4, StepCases DEF Emit, CreateRow, EmitError, EmitterCrash, vars

LEMMA SlotsTyped ==
  ASSUME TypeOK, AttemptsInv, [Next]_vars
  PROVE  slot' \in [Slots -> Work \cup {Free}]
  <1>1. \A t \in Slots : slot'[t] \in Work \cup {Free}
    BY SlotSteps DEF SlotStep, Continues, Loads, Begins, TypeOK
  <1>2. slot' = [t \in Slots |-> slot'[t]]
    <2>1. CASE slot' = slot BY <2>1 DEF TypeOK
    <2>2. ASSUME NEW s \in Slots, Handling(s) PROVE slot' = [t \in Slots |-> slot'[t]]
      <3>1. ASSUME NEW d \in Deliveries, NEW id \in Ids, Take(s, d, id) PROVE slot' = [t \in Slots |-> slot'[t]]
        BY <3>1 DEF Take, TypeOK
      <3>2. CASE Load(s) BY <3>2 DEF Load, Move, TypeOK
      <3>3. CASE AddRetry(s) BY <3>3 DEF AddRetry
      <3>4. ASSUME NEW stage, Move(s, stage) PROVE slot' = [t \in Slots |-> slot'[t]] BY <3>4 DEF Move, TypeOK
      <3>5. CASE Unreachable(s) BY <3>5 DEF Unreachable, TypeOK
      <3>6. CASE Return(s) \/ WorkerCrash(s) BY <3>6 DEF Return, WorkerCrash, TypeOK
      <3>7. CASE WriteError(s) \/ AddError(s) BY <3>7, <3>4 DEF WriteError, AddError, Throw, FailJob, TypeOK
      <3>8. QED
        BY <2>2, <3>1, <3>2, <3>3, <3>4, <3>5, <3>6, <3>7
        DEF Handling, Attempt, Reject, Accepted, Refused, MarkDelivered, Abandon, MarkFailed, LoadError, FailJob
    <2>3. ASSUME NEW d \in Deliveries, Requests(d) PROVE slot' = slot
      BY <2>3 DEF Requests, Promote, Forget, RetryRead, Retry, RetryWrite, RetryAdd, RemoveEndpoint
    <2>4. QED
      BY <2>1, <2>2, <2>3, StepCases DEF Emit, CreateRow, AddFirst, EmitError, EmitterCrash, vars
  <1>3. QED BY <1>1, <1>2

EmitterSet == [format : {"camaleonic", "standard"}, todo : SUBSET Deliveries, created : SUBSET Deliveries]

LEMMA EmitterWritten ==
  ASSUME TypeOK, NEW T \in SUBSET Deliveries, NEW C \in SUBSET Deliveries,
         emitter' = [emitter EXCEPT !.todo = T, !.created = C]
  PROVE  emitter' \in EmitterSet
  <1>1. emitter \in EmitterSet BY DEF TypeOK, EmitterSet
  <1>2. emitter' = [format |-> emitter.format, todo |-> T, created |-> C] BY <1>1 DEF EmitterSet
  <1>3. emitter.format \in {"camaleonic", "standard"} BY <1>1 DEF EmitterSet
  <1>4. QED BY <1>2, <1>3 DEF EmitterSet

LEMMA EmitterTyped ==
  ASSUME TypeOK, [Next]_vars
  PROVE  emitter' \in EmitterSet
  <1>1. CASE emitter' = emitter BY <1>1 DEF TypeOK, EmitterSet
  <1>t. emitter.todo \subseteq Deliveries BY DEF TypeOK
  <1>2. ASSUME NEW d \in Deliveries, CreateRow(d) \/ AddFirst(d) PROVE emitter' \in EmitterSet
    <2>1. CASE CreateRow(d)
      <3>1. emitter' = [emitter EXCEPT !.todo = emitter.todo \ {d}, !.created = {d}] BY <2>1 DEF CreateRow
      <3>2. emitter.todo \ {d} \in SUBSET Deliveries /\ {d} \in SUBSET Deliveries BY <1>t
      <3>3. QED BY <3>1, <3>2, EmitterWritten
    <2>2. CASE AddFirst(d) BY <2>2 DEF AddFirst, TypeOK, EmitterSet
    <2>3. QED BY <1>2, <2>1, <2>2
  <1>3. CASE EmitError
    <2>1. \E d : emitter' = [emitter EXCEPT !.todo = IF emitter.format = "standard" THEN emitter.todo \ {d} ELSE {},
                                           !.created = {}]
      BY <1>3 DEF EmitError
    <2>2. PICK d : emitter' = [emitter EXCEPT
                     !.todo = IF emitter.format = "standard" THEN emitter.todo \ {d} ELSE {}, !.created = {}]
      BY <2>1
    <2> DEFINE T == IF emitter.format = "standard" THEN emitter.todo \ {d} ELSE {}
    <2>3. T \subseteq Deliveries BY <1>t
    <2>4. emitter' = [emitter EXCEPT !.todo = T, !.created = {}] BY <2>2
    <2> HIDE DEF T
    <2>5. QED BY <2>3, <2>4, EmitterWritten
  <1>4. CASE EmitterCrash BY <1>4 DEF EmitterCrash, TypeOK, EmitterSet
  <1>5. ASSUME NEW s \in Slots, Handling(s) PROVE emitter' = emitter
    BY <1>5 DEF Handling, Attempt, Take, Load, Reject, Accepted, Refused, Unreachable, Post, MarkDelivered, Abandon,
                MarkFailed, AddRetry, Return, LoadError, WriteError, Throw, AddError, WorkerCrash
  <1>6. ASSUME NEW d \in Deliveries, Requests(d) PROVE emitter' = emitter
    BY <1>6 DEF Requests, Promote, Forget, RetryRead, Retry, RetryWrite, RetryAdd, RemoveEndpoint
  <1>7. QED BY <1>1, <1>2, <1>3, <1>4, <1>5, <1>6, StepCases DEF Emit, vars

LEMMA HistoryTyped ==
  ASSUME TypeOK, [Next]_vars
  PROVE  acked' \subseteq Deliveries /\ posts' \in [Deliveries -> Nat] /\ dropped' \subseteq Deliveries
  <1> DEFINE Fits == acked' \subseteq Deliveries /\ posts' \in [Deliveries -> Nat] /\ dropped' \subseteq Deliveries
  <1>1. ASSUME NEW s \in Slots, Handling(s) PROVE Fits
    <2>1. CASE Accepted(s) \/ Refused(s) \/ Unreachable(s)
      <3>1. Working(s) /\ Post(s) BY <2>1 DEF Accepted, Refused, Unreachable, Post, At
      <3>2. On(s) \in Deliveries BY <3>1, WorkTyped
      <3>3. posts' \in [Deliveries -> Nat] BY <3>1, <3>2 DEF Post, TypeOK
      <3>4. QED BY <2>1, <3>1, <3>2, <3>3 DEF Accepted, Refused, Unreachable, Post, TypeOK
    <2>2. CASE LoadError(s) \/ WriteError(s) \/ AddError(s) \/ WorkerCrash(s)
      <3>1. Working(s) BY <2>2 DEF LoadError, WriteError, AddError, WorkerCrash, At
      <3>2. On(s) \in Deliveries BY <3>1, WorkTyped
      <3>3. QED BY <2>2, <3>2 DEF LoadError, WriteError, AddError, Throw, FailJob, WorkerCrash, TypeOK
    <2>3. CASE UNCHANGED <<acked, posts, dropped>> BY <2>3 DEF TypeOK
    <2>4. QED
      BY <1>1, <2>1, <2>2, <2>3
      DEF Handling, Attempt, Take, Load, Reject, MarkDelivered, Abandon, MarkFailed, AddRetry, Return
  <1>2. ASSUME NEW d \in Deliveries, Requests(d) PROVE Fits
    BY <1>2 DEF Requests, Promote, Forget, RetryRead, Retry, RetryWrite, RetryAdd, RemoveEndpoint, TypeOK
  <1>3. CASE Emit \/ EmitError \/ EmitterCrash \/ UNCHANGED vars
    BY <1>3 DEF Emit, CreateRow, AddFirst, EmitError, EmitterCrash, vars, TypeOK
  <1>4. QED BY <1>1, <1>2, <1>3, StepCases

LEMMA AdminWritten ==
  ASSUME TypeOK, NEW d \in Deliveries, NEW v \in {"none", "read", "written"}, admin' = [admin EXCEPT ![d] = v]
  PROVE  admin' \in [Deliveries -> {"none", "read", "written"}]
  BY DEF TypeOK

LEMMA AdminTyped ==
  ASSUME TypeOK, [Next]_vars
  PROVE  admin' \in [Deliveries -> {"none", "read", "written"}]
  <1>0. CASE admin' = admin BY <1>0 DEF TypeOK
  <1>1. ASSUME NEW d \in Deliveries, Requests(d) PROVE admin' \in [Deliveries -> {"none", "read", "written"}]
    <2>1. CASE RetryRead(d) BY <2>1, AdminWritten DEF RetryRead
    <2>2. CASE RetryWrite(d) BY <2>2, AdminWritten DEF RetryWrite
    <2>3. CASE RetryAdd(d) BY <2>3, AdminWritten DEF RetryAdd
    <2>4. QED BY <1>0, <1>1, <2>1, <2>2, <2>3 DEF Requests, Promote, Forget, Retry, RemoveEndpoint
  <1>2. CASE Emit \/ EmitError \/ EmitterCrash \/ UNCHANGED vars
    BY <1>0, <1>2 DEF Emit, CreateRow, AddFirst, EmitError, EmitterCrash, vars
  <1>3. QED BY <1>0, <1>1, <1>2, HandlingCounts, StepCases

LEMMA InitIInv == Init => IInv
  <1> SUFFICES ASSUME Init PROVE IInv OBVIOUS
  <1> USE DeliveryAssumption
  <1>1. TypeOK BY DEF Init, TypeOK, Statuses, Alive
  <1>2. \A s \in Slots : ~Working(s) BY DEF Init, Working
  <1>3. AttemptsInv BY <1>2 DEF Init, AttemptsInv, Cap, Settled, At
  <1>4. ReplaysInv BY DEF Init, ReplaysInv
  <1>5. QED BY <1>1, <1>3, <1>4 DEF IInv

LEMMA NextIInv == IInv /\ [Next]_vars => IInv'
  <1> SUFFICES ASSUME TypeOK, AttemptsInv, ReplaysInv, [Next]_vars PROVE IInv' BY DEF IInv
  <1>1. AttemptsInv' /\ ReplaysInv' BY AttemptsKept, ReplaysKept
  <1>2. replays' \in 0..MaxDisturbances /\ left' \in 0..MaxDisturbances
    BY ReplaysKept, DeliveryAssumption DEF ReplaysInv
  <1>3. TypeOK'
    BY <1>2, RowsTyped, JobsTyped, SlotsTyped, EmitterTyped, HistoryTyped, AdminTyped
    DEF TypeOK, RowSet, JobsSet, EmitterSet
  <1>4. QED BY <1>1, <1>3 DEF IInv

(* The rows, the jobs and the slots stay in their types, for any number of     *)
(* endpoints, slots, faults and manual retries: the attempts of a delivery     *)
(* exceed MaxAttempts by one for each manual retry at most, and a retry is     *)
(* never added under an id that could be an operator's.                        *)
THEOREM DeliveryTyped == Spec => []TypeOK
  <1>1. IInv => TypeOK BY DEF IInv
  <1>2. QED BY <1>1, InitIInv, NextIInv, PTL DEF Spec

(* The attempts written and those a slot is about to write stay within what   *)
(* the manual retries account for.                                            *)
THEOREM AttemptsBounded == Spec => []IInv
  BY InitIInv, NextIInv, PTL DEF Spec
-----------------------------------------------------------------------------
(* Only what was answered 2xx is on its way to be marked. *)
MarksAccepted == \A s \in Slots : At(s, "mark") => On(s) \in acked

LEMMA AckedStays ==
  ASSUME [Next]_vars
  PROVE  acked \subseteq acked'
  <1>1. ASSUME NEW s \in Slots, Handling(s) PROVE acked \subseteq acked'
    BY <1>1 DEF Handling, Attempt, Take, Load, Reject, Accepted, Refused, Unreachable, Post, MarkDelivered, Abandon,
                MarkFailed, AddRetry, Return, LoadError, WriteError, Throw, AddError, WorkerCrash
  <1>2. ASSUME NEW d \in Deliveries, Requests(d) PROVE acked' = acked
    BY <1>2 DEF Requests, Promote, Forget, RetryRead, Retry, RetryWrite, RetryAdd, RemoveEndpoint
  <1>3. CASE Emit \/ EmitError \/ EmitterCrash \/ UNCHANGED vars
    BY <1>3 DEF Emit, CreateRow, AddFirst, EmitError, EmitterCrash, vars
  <1>4. QED BY <1>1, <1>2, <1>3, StepCases

(* What is reported delivered was answered 2xx, whatever crashed, failed or   *)
(* was retried by hand, for any number of deliveries and slots.               *)
THEOREM DeliveredOnceAccepted == Spec => []DeliveredWasAccepted
  <1> DEFINE J == MarksAccepted /\ DeliveredWasAccepted
  <1>1. Init => J BY DEF Init, MarksAccepted, DeliveredWasAccepted, At, Working
  <1>2. IInv /\ J /\ [Next]_vars => J'
    <2> SUFFICES ASSUME TypeOK, AttemptsInv, MarksAccepted, DeliveredWasAccepted, [Next]_vars PROVE J' BY DEF IInv
    <2>1. ASSUME NEW s \in Slots, At(s, "mark")' PROVE slot'[s].d \in acked'
      <3>1. CASE slot'[s] = slot[s] BY <2>1, <3>1, AckedStays DEF MarksAccepted, At, Working, On
      <3>2. CASE Continues(s) BY <2>1, <3>2, AckedStays DEF Continues, MarksAccepted, At, Working, On
      <3>3. QED BY <2>1, <3>1, <3>2, SlotSteps DEF SlotStep, Loads, Begins, At, Working
    <2>2. ASSUME NEW d \in Deliveries, row'[d].status = "delivered" PROVE d \in acked'
      <3>1. CASE row'[d] = row[d] BY <2>2, <3>1, AckedStays DEF DeliveredWasAccepted
      <3>2. ASSUME NEW s \in Slots, NEW status \in {"failed", "delivered", "abandoned"}, Writes(d, s, status)
            PROVE  d \in acked'
        BY <2>2, <3>2, AckedStays DEF Writes, MarksAccepted
      <3>3. CASE row'[d].status \in {"none", "pending"} BY <2>2, <3>3
      <3>4. ASSUME NEW n, NEW status \in {"none", "pending"}, row'[d] = [status |-> status, attempts |-> n]
            PROVE  row'[d].status \in {"none", "pending"}
        BY <3>4
      <3>5. RowStep(d) BY RowSteps
      <3>6. QED BY <3>1, <3>2, <3>3, <3>4, <3>5 DEF RowStep, Created, Replayed, Written
    <2>3. QED BY <2>1, <2>2 DEF MarksAccepted, DeliveredWasAccepted, On
  <1>3. QED BY <1>1, <1>2, AttemptsBounded, PTL DEF Spec
-----------------------------------------------------------------------------
(* How often a delivery is posted.  What may still lead to a post of delivery *)
(* d is a token: a slot at work on it, a job that waits, a manual retry, an   *)
(* emit() that has yet to add the first job.  Without a disturbance there is  *)
(* one at a time; a crash or a manual retry makes two.                        *)
SlotTok(s) == <<"slot", s>>
JobTok(id) == <<"job", id>>
AdminTok == <<"admin">>
EmitTok == <<"emit">>
Gather(S, J, a, e) ==
  {SlotTok(s) : s \in S} \cup {JobTok(id) : id \in J}
  \cup (IF a THEN {AdminTok} ELSE {}) \cup (IF e THEN {EmitTok} ELSE {})

(* What a slot is doing about delivery d. *)
Role(d, s) ==
  IF ~Working(s) \/ On(s) # d \/ slot[s].stage = "end" THEN "none"
  ELSE IF slot[s].stage \in {"mark", "retry"} THEN "sent" ELSE slot[s].stage
Roles == {"none", "load", "post", "sent", "add"}

Engaged(d) == {s \in Slots : Role(d, s) # "none"}
Sending(d) == {s \in Slots : Role(d, s) = "post"}
Sent(d) == {s \in Slots : Role(d, s) = "sent"}
Queued(d) == {id \in Ids : jobs[d][id] \in {"waiting", "delayed"}}
Toks(d) == Gather(Engaged(d), Queued(d), admin[d] # "none", d \in emitter.todo \cup emitter.created)

OneOf(S) == \A t, u \in S : t = u
TwoOf(S) == \A t, u, v \in S : t = u \/ u = v \/ t = v

Used == MaxDisturbances - left
Made(d) == row[d].attempts
Served(d) == {s \in Slots : Working(s) /\ On(s) = d}
-----------------------------------------------------------------------------
(* The states of a delivery.  Its row is still to be created ... *)
Waiting(d) ==
  /\ d \in emitter.todo /\ d \notin emitter.created /\ ~Exists(d)
  /\ posts[d] = 0 /\ Toks(d) \subseteq {EmitTok} /\ Served(d) = {}

(* ... or was deleted, or never came to be: what is on its way to be posted *)
(* still is.                                                                *)
Gone(d) ==
  /\ d \notin emitter.todo /\ ~Exists(d)
  /\ posts[d] <= MaxAttempts + 1 /\ TwoOf(Sending(d))
  /\ Sending(d) # {} => posts[d] <= MaxAttempts
  /\ ~OneOf(Sending(d)) => posts[d] + 1 <= MaxAttempts

(* The row counts the posts, but for those whose outcome is not written yet. *)
Counted(d) ==
  \/ posts[d] <= Made(d)
  \/ posts[d] = Made(d) + 1 /\ Sent(d) # {}
  \/ posts[d] = Made(d) + 2 /\ ~OneOf(Sent(d))

Fresh(d) ==
  /\ d \notin emitter.todo /\ Exists(d) /\ TwoOf(Toks(d)) /\ Counted(d)
  /\ Toks(d) # {} => Made(d) < MaxAttempts
  /\ \A s \in Sending(d) \cup Sent(d) : slot[s].seen = Made(d)

(* One post is not counted, and a single token is left to carry on. *)
Resting(d, t) == \A s \in Slots : t = SlotTok(s) => Role(d, s) \in {"load", "add"}
Roomy(d) == posts[d] <= Made(d) + 1 /\ posts[d] <= MaxAttempts

Spent(d) ==
  /\ d \notin emitter.todo /\ Exists(d) /\ OneOf(Toks(d)) /\ posts[d] <= MaxAttempts + 1
  /\ \A s \in Sending(d) : posts[d] <= Attempts(s) /\ posts[d] <= MaxAttempts
  /\ \A s \in Sent(d) : posts[d] <= Attempts(s) + 1
  /\ \A t \in Toks(d) : Resting(d, t) /\ (~Settled(d) \/ admin[d] # "none") => Roomy(d)

(* Two slots have posted the same attempt.  They add their retries under one *)
(* id: the second finds the job of the first, whose delay outlasts it.       *)
Follows(d, t, s) ==
  \/ \E r \in Slots : Role(d, r) = "add" /\ Attempts(r) = Made(d) /\ t = SlotTok(r)
  \/ t = JobTok(Made(d)) /\ jobs[d][Made(d)] = "delayed" /\ Made(d) \in slot[s].outlasted

TwinOf(d, s, t) ==
  /\ Role(d, s) \in {"post", "sent", "add"} /\ Attempts(s) = Made(d)
  /\ Role(d, s) = "post" => posts[d] <= Made(d)
  /\ t # SlotTok(s) /\ Toks(d) \subseteq {t, SlotTok(s)} /\ Follows(d, t, s)

Twin(d) ==
  /\ d \notin emitter.todo /\ Exists(d) /\ Made(d) < MaxAttempts /\ posts[d] <= Made(d) + 1
  /\ \E s \in Slots, t \in Toks(d) : TwinOf(d, s, t)

Exact(d) == \A s \in Slots : Role(d, s) = "add" => Attempts(s) = Made(d)

Calm(d) == OneOf(Toks(d)) /\ (Waiting(d) \/ Gone(d) \/ (Fresh(d) /\ Exact(d)))
Shaken(d) == Waiting(d) \/ Gone(d) \/ Fresh(d) \/ Spent(d) \/ Twin(d)

(* A slot's job is active, and no other slot has it. *)
Held ==
  \A s \in Slots : Working(s) =>
    /\ jobs[On(s)][slot[s].id] = "active"
    /\ \A r \in Slots \ {s} : Working(r) => On(r) # On(s) \/ slot[r].id # slot[s].id

(* Before the first disturbance, a post is still within the attempts. *)
Early(d) == posts[d] <= MaxAttempts /\ (Sending(d) # {} => posts[d] < MaxAttempts)

PostsInv ==
  /\ Held
  /\ \A d \in Deliveries : (Used = 0 => Calm(d) /\ Early(d)) /\ (Used = 1 => Shaken(d))
-----------------------------------------------------------------------------
LEMMA Gathered ==
  ASSUME NEW S, NEW J, NEW a \in BOOLEAN, NEW e \in BOOLEAN
  PROVE  /\ \A s : SlotTok(s) \in Gather(S, J, a, e) <=> s \in S
         /\ \A id : JobTok(id) \in Gather(S, J, a, e) <=> id \in J
         /\ AdminTok \in Gather(S, J, a, e) <=> a
         /\ EmitTok \in Gather(S, J, a, e) <=> e
  BY DEF Gather, SlotTok, JobTok, AdminTok, EmitTok

LEMMA Differ ==
  /\ \A s, r : SlotTok(s) = SlotTok(r) => s = r
  /\ \A s, id : SlotTok(s) # JobTok(id)
  /\ \A s : SlotTok(s) # AdminTok /\ SlotTok(s) # EmitTok
  /\ \A id : JobTok(id) # AdminTok /\ JobTok(id) # EmitTok
  BY DEF SlotTok, JobTok, AdminTok, EmitTok

LEMMA GatherCases ==
  ASSUME NEW S, NEW J, NEW a \in BOOLEAN, NEW e \in BOOLEAN, NEW t \in Gather(S, J, a, e)
  PROVE  \/ \E s \in S : t = SlotTok(s)
         \/ \E id \in J : t = JobTok(id)
         \/ a /\ t = AdminTok
         \/ e /\ t = EmitTok
  BY DEF Gather

LEMMA RoleTyped ==
  ASSUME TypeOK, NEW d, NEW s \in Slots
  PROVE  Role(d, s) \in Roles
  <1>1. CASE Role(d, s) = "none" BY <1>1 DEF Roles
  <1>2. CASE Role(d, s) # "none"
    <2>1. Working(s) BY <1>2 DEF Role
    <2>2. slot[s].stage \in Stages BY <2>1, WorkTyped DEF Work, Stages
    <2>3. QED BY <2>2 DEF Role, Roles, Stages
  <1>3. QED BY <1>1, <1>2

(* Slots and their tokens. *)
LEMMA SlotGathered ==
  ASSUME NEW S, NEW J, NEW a, NEW e, NEW s
  PROVE  SlotTok(s) \in Gather(S, J, a, e) <=> s \in S
  BY DEF Gather, SlotTok, JobTok, AdminTok, EmitTok

LEMMA EmitGathered ==
  ASSUME NEW S, NEW J, NEW a, NEW e
  PROVE  e => EmitTok \in Gather(S, J, a, e)
  BY DEF Gather

LEMMA SlotTokens ==
  ASSUME NEW d, NEW s
  PROVE  SlotTok(s) \in Toks(d) <=> s \in Engaged(d)
  BY SlotGathered DEF Toks

LEMMA SlotTokensNext ==
  ASSUME NEW d, NEW s
  PROVE  SlotTok(s) \in Toks(d)' <=> s \in Engaged(d)'
  BY SlotGathered DEF Toks

LEMMA EngagedRole ==
  ASSUME NEW d, NEW s \in Slots
  PROVE  /\ s \in Engaged(d) <=> Role(d, s) # "none"
         /\ s \in Engaged(d)' <=> Role(d, s)' # "none"
  BY DEF Engaged

LEMMA Numbers ==
  ASSUME TypeOK, NEW d \in Deliveries
  PROVE  posts[d] \in Nat /\ Made(d) \in Nat /\ MaxAttempts \in Nat /\ MaxAttempts >= 1
  BY RowHolds, DeliveryAssumption DEF TypeOK, Made

(* A set that lost or exchanged an element. *)
Changed(S, T) == T \subseteq S \/ \E t \in S, u \in T : T \subseteq (S \ {t}) \cup {u}

LEMMA FewStay ==
  ASSUME NEW S, NEW T, Changed(S, T)
  PROVE  /\ OneOf(S) => OneOf(T)
         /\ TwoOf(S) => TwoOf(T)
         /\ T # {} => S # {}
  BY DEF Changed, OneOf, TwoOf
-----------------------------------------------------------------------------
(* The steps of a delivery's tokens.  Most leave the row and the posts alone: *)
(* a token may end, or go from a slot to a job or from a job to a slot.       *)
Still(d) ==
  /\ row'[d] = row[d] /\ posts'[d] = posts[d]
  /\ d \in emitter'.todo <=> d \in emitter.todo
  /\ d \in emitter'.created => d \in emitter.created

Same(d, s) == Role(d, s)' = Role(d, s) /\ slot'[s].seen = slot[s].seen

Retried(d, r) ==
  LET u == JobTok(Attempts(r))
  IN  \/ Toks(d)' \subseteq Toks(d) \ {SlotTok(r)}
      \/ /\ u \in Toks(d)' /\ Toks(d)' \subseteq (Toks(d) \ {SlotTok(r)}) \cup {u}
         /\ jobs'[d][Attempts(r)] = "delayed"
         /\ \A s \in Engaged(d) \ {r} : Attempts(r) \in slot'[s].outlasted

Steady(d) ==
  /\ Still(d)
  /\ admin'[d] # "none" => admin[d] # "none"
  /\ \A s \in Slots : Role(d, s) \in {"post", "sent"} \/ Role(d, s)' \in {"post", "sent", "add"} => Same(d, s)
  /\ \A s \in Slots : Role(d, s) = "add" => Same(d, s) \/ Retried(d, s)
  /\ Changed(Toks(d), Toks(d)')
  /\ Served(d)' \subseteq Served(d) \/ \E id : JobTok(id) \in Toks(d)

(* A delay that outlasts the work of a slot still does. *)
Outlasting(d) ==
  \A s \in Engaged(d), id \in Ids :
    jobs[d][id] = "delayed" /\ id \in slot[s].outlasted
      => jobs'[d][id] = "delayed" /\ (Role(d, s)' # "none" => id \in slot'[s].outlasted)

LEMMA StillRow ==
  ASSUME NEW d, Still(d)
  PROVE  Made(d)' = Made(d) /\ (Exists(d)' <=> Exists(d)) /\ (Settled(d)' <=> Settled(d))
  BY DEF Still, Made, Exists, Settled

LEMMA SteadySlots ==
  ASSUME TypeOK, TypeOK', NEW d \in Deliveries, Steady(d)
  PROVE  Sending(d)' = Sending(d) /\ Sent(d)' = Sent(d)
  <1>1. \A s \in Slots : Role(d, s)' = "post" <=> Role(d, s) = "post" BY DEF Steady, Same
  <1>2. \A s \in Slots : Role(d, s)' = "sent" <=> Role(d, s) = "sent" BY DEF Steady, Same
  <1>3. QED BY <1>1, <1>2 DEF Sending, Sent

LEMMA SteadyWaiting ==
  ASSUME NEW d, Steady(d), Waiting(d)
  PROVE  Waiting(d)'
  <1>1. Toks(d)' \subseteq {EmitTok}
    <2>1. EmitTok \in Toks(d)' BY EmitGathered DEF Toks, Steady, Still, Waiting
    <2>2. QED BY <2>1 DEF Steady, Waiting, Changed
  <1>2. Served(d)' = {}
    BY Differ DEF Steady, Waiting
  <1>3. QED BY <1>1, <1>2, StillRow DEF Steady, Still, Waiting

LEMMA SteadyGone ==
  ASSUME TypeOK, TypeOK', NEW d \in Deliveries, Steady(d), Gone(d)
  PROVE  Gone(d)'
  BY SteadySlots, StillRow DEF Gone, Steady, Still

LEMMA SteadyFresh ==
  ASSUME TypeOK, TypeOK', NEW d \in Deliveries, Steady(d), Fresh(d)
  PROVE  Fresh(d)'
  <1>1. Sending(d)' = Sending(d) /\ Sent(d)' = Sent(d) BY SteadySlots
  <1>2. TwoOf(Toks(d)') /\ (Toks(d)' # {} => Toks(d) # {}) BY FewStay DEF Fresh, Steady
  <1>3. Counted(d)' BY <1>1, StillRow DEF Fresh, Steady, Still, Counted
  <1>4. \A s \in Sending(d)' \cup Sent(d)' : slot'[s].seen = Made(d)'
    BY <1>1, StillRow DEF Fresh, Steady, Sending, Sent, Same
  <1>5. QED BY <1>2, <1>3, <1>4, StillRow DEF Fresh, Steady, Still

LEMMA SteadyExact ==
  ASSUME NEW d, Steady(d), Exact(d)
  PROVE  Exact(d)'
  BY StillRow DEF Exact, Steady, Same, Attempts

(* What a slot at work on a post knows survives, with its token. *)
LEMMA BusySteady ==
  ASSUME TypeOK, NEW d \in Deliveries, Steady(d), NEW s \in Slots, SlotTok(s) \in Toks(d)
  PROVE  \/ Role(d, s) \in {"load", "add"}
         \/ Same(d, s) /\ SlotTok(s) \in Toks(d)' /\ Role(d, s)' \in {"post", "sent"}
  <1>1. Role(d, s) \in {"load", "add", "post", "sent"} BY RoleTyped, SlotTokens DEF Engaged, Roles
  <1>2. CASE Role(d, s) \in {"post", "sent"}
    <2>1. Same(d, s) BY <1>2 DEF Steady
    <2>2. s \in Engaged(d)' BY <1>2, <2>1, EngagedRole DEF Same
    <2>3. QED BY <1>2, <2>1, <2>2, SlotTokensNext DEF Same
  <1>3. QED BY <1>1, <1>2

LEMMA SteadySpent ==
  ASSUME TypeOK, TypeOK', NEW d \in Deliveries, Steady(d), Spent(d)
  PROVE  Spent(d)'
  <1>1. Sending(d)' = Sending(d) /\ Sent(d)' = Sent(d) BY SteadySlots
  <1>2. OneOf(Toks(d)') BY FewStay DEF Spent, Steady
  <1>3. \A s \in Sending(d)' \cup Sent(d)' : Attempts(s)' = Attempts(s)
    BY <1>1 DEF Steady, Sending, Sent, Same, Attempts
  <1>4. Roomy(d)' <=> Roomy(d) BY StillRow DEF Steady, Still, Roomy
  <1>5. ASSUME NEW u \in Toks(d)', Resting(d, u)', ~Settled(d)' \/ admin'[d] # "none" PROVE Roomy(d)
    <2>1. ~Settled(d) \/ admin[d] # "none" BY <1>5, StillRow DEF Steady
    <2>2. PICK t \in Toks(d) : u = t \/ (u \notin Toks(d) /\ Toks(d)' \subseteq (Toks(d) \ {t}) \cup {u})
      BY DEF Steady, Changed
    <2>3. Resting(d, t)
      <3> SUFFICES ASSUME NEW s \in Slots, t = SlotTok(s) PROVE Role(d, s) \in {"load", "add"} BY DEF Resting
      <3>1. CASE u = t
        <4>1. Role(d, s)' \in {"load", "add"} BY <1>5, <3>1 DEF Resting
        <4>2. QED BY <4>1, BusySteady
      <3>2. CASE u \notin Toks(d) /\ Toks(d)' \subseteq (Toks(d) \ {t}) \cup {u}
        BY <3>2, BusySteady
      <3>3. QED BY <2>2, <3>1, <3>2
    <2>4. QED BY <2>1, <2>3 DEF Spent
  <1>6. QED BY <1>1, <1>2, <1>3, <1>4, <1>5, StillRow DEF Spent, Steady, Still

LEMMA SpentNext ==
  ASSUME NEW d, d \notin emitter'.todo, Exists(d)', OneOf(Toks(d)'), Roomy(d)', posts'[d] <= MaxAttempts + 1,
         \A s \in Sending(d)' : posts'[d] <= Attempts(s)',
         \A s \in Sent(d)' : posts'[d] <= Attempts(s)' + 1
  PROVE  Spent(d)'
  BY DEF Spent, Roomy

LEMMA JobTokens ==
  ASSUME NEW d, NEW id \in Ids, jobs'[d][id] \in {"waiting", "delayed"}
  PROVE  JobTok(id) \in Toks(d)'
  BY DEF Toks, Gather, Queued

LEMMA SteadyTwin ==
  ASSUME TypeOK, TypeOK', NEW d \in Deliveries, Steady(d), Outlasting(d), Twin(d)
  PROVE  Twin(d)' \/ Spent(d)'
  <1>0. PICK a : a = Made(d) OBVIOUS
  <1>1. PICK s \in Slots, t \in Toks(d) : TwinOf(d, s, t) BY DEF Twin
  <1>2. PICK q : q = SlotTok(s) OBVIOUS
  <1>3. /\ a \in Nat /\ a < MaxAttempts /\ a \in Ids /\ posts[d] \in Nat /\ posts[d] <= a + 1 /\ MaxAttempts \in Nat
        /\ Attempts(s) = a /\ Role(d, s) \in {"post", "sent", "add"} /\ (Role(d, s) = "post" => posts[d] <= a)
    BY <1>0, <1>1, Numbers, DeliveryAssumption DEF Twin, TwinOf, Ids
  <1>4. q \in Toks(d) /\ t # q /\ Toks(d) \subseteq {t, q} /\ s \in Engaged(d)
    BY <1>1, <1>2, <1>3, EngagedRole, SlotTokens DEF TwinOf
  <1>5. /\ Made(d)' = a /\ posts'[d] = posts[d] /\ d \notin emitter'.todo /\ Exists(d)'
    BY <1>0, StillRow DEF Twin, Steady, Still
  <1>6. \/ \E r \in Slots : Role(d, r) = "add" /\ Attempts(r) = a /\ t = SlotTok(r)
        \/ t = JobTok(a) /\ jobs[d][a] = "delayed" /\ a \in slot[s].outlasted
    BY <1>0, <1>1 DEF TwinOf, Follows
  <1>7. ASSUME OneOf(Toks(d)') PROVE Spent(d)'
    <2>1. Sending(d)' = Sending(d) /\ Sent(d)' = Sent(d) BY SteadySlots
    <2>2. ASSUME NEW r \in Sending(d) \cup Sent(d) PROVE r = s
      <3>1. SlotTok(r) \in Toks(d) BY SlotTokens DEF Sending, Sent, Engaged
      <3>2. SlotTok(r) # t BY <1>6, Differ DEF Sending, Sent
      <3>3. QED BY <1>2, <1>4, <3>1, <3>2, Differ
    <2>3. \A r \in Sending(d) \cup Sent(d) : Attempts(r)' = Attempts(r) BY DEF Steady, Sending, Sent, Same, Attempts
    <2>4. QED BY <1>3, <1>5, <1>7, <2>1, <2>2, <2>3 DEF Spent, Roomy, Sending, Sent
  <1>8. ASSUME NEW r \in Slots, Same(d, r), Role(d, r) \in {"post", "sent", "add"}, Attempts(r) = a,
               Role(d, r) = "post" => posts[d] <= a, NEW u \in Toks(d)', u # SlotTok(r),
               Toks(d)' \subseteq {u, SlotTok(r)}, Follows(d, u, r)'
        PROVE  Twin(d)'
    BY <1>3, <1>5, <1>8 DEF Twin, TwinOf, Same, Attempts
  <1>9. ASSUME t \in Toks(d)', q \in Toks(d)' PROVE Toks(d)' \subseteq {t, q}
    BY <1>4, <1>9 DEF Steady, Changed
  <1>10. ASSUME Same(d, s), NEW r \in Slots, Same(d, r), Role(d, r) = "add", Attempts(r) = a, t = SlotTok(r)
         PROVE  Twin(d)'
    <2>1. t \in Toks(d)' /\ q \in Toks(d)' BY <1>2, <1>3, <1>10, EngagedRole, SlotTokensNext DEF Same
    <2>2. Follows(d, t, s)' BY <1>5, <1>10 DEF Follows, Same, Attempts
    <2>3. QED BY <1>2, <1>3, <1>4, <1>8, <1>9, <1>10, <2>1, <2>2
  <1>11. ASSUME Same(d, s), t = JobTok(a), jobs[d][a] = "delayed", a \in slot[s].outlasted
         PROVE  Twin(d)'
    <2>1. jobs'[d][a] = "delayed" /\ a \in slot'[s].outlasted
      BY <1>3, <1>4, <1>11, EngagedRole DEF Outlasting, Same
    <2>2. t \in Toks(d)' /\ q \in Toks(d)' BY <1>2, <1>3, <1>11, <2>1, JobTokens, EngagedRole, SlotTokensNext DEF Same
    <2>3. Follows(d, t, s)' BY <1>5, <1>11, <2>1 DEF Follows
    <2>4. QED BY <1>2, <1>3, <1>4, <1>8, <1>9, <1>11, <2>2, <2>3
  <1>12. ASSUME NEW r \in Slots, Retried(d, r), Attempts(r) = a, SlotTok(r) \in {t, q},
                NEW o \in Slots, SlotTok(o) \in {t, q}, o # r, Same(d, o), Role(d, o) \in {"post", "sent", "add"},
                Attempts(o) = a, Role(d, o) = "post" => posts[d] <= a
         PROVE  Twin(d)' \/ Spent(d)'
    <2>1. PICK u : u = JobTok(a) OBVIOUS
    <2>2. {t, q} = {SlotTok(r), SlotTok(o)} BY <1>4, <1>12, Differ
    <2>3. CASE Toks(d)' \subseteq Toks(d) \ {SlotTok(r)} BY <1>4, <1>7, <2>2, <2>3 DEF OneOf
    <2>4. CASE /\ u \in Toks(d)' /\ Toks(d)' \subseteq (Toks(d) \ {SlotTok(r)}) \cup {u}
               /\ jobs'[d][a] = "delayed" /\ \A x \in Engaged(d) \ {r} : a \in slot'[x].outlasted
      <3>1. Toks(d)' \subseteq {u, SlotTok(o)} /\ u # SlotTok(o) BY <1>4, <2>1, <2>2, <2>4, Differ
      <3>2. o \in Engaged(d) \ {r} BY <1>12, EngagedRole
      <3>3. Follows(d, u, o)' BY <1>5, <2>1, <2>4, <3>2 DEF Follows
      <3>4. QED BY <1>8, <1>12, <2>4, <3>1, <3>3
    <2>5. QED BY <1>12, <2>1, <2>3, <2>4 DEF Retried
  <1>13. CASE Same(d, s)
    <2>1. ASSUME NEW r \in Slots, Role(d, r) = "add", Attempts(r) = a, t = SlotTok(r) PROVE Twin(d)' \/ Spent(d)'
      <3>1. CASE Same(d, r) BY <1>10, <1>13, <2>1, <3>1
      <3>2. CASE Retried(d, r) BY <1>2, <1>3, <1>4, <1>12, <1>13, <2>1, <3>2
      <3>3. QED BY <2>1, <3>1, <3>2 DEF Steady
    <2>2. QED BY <1>6, <1>11, <1>13, <2>1
  <1>14. CASE Role(d, s) = "add" /\ Retried(d, s)
    <2>1. ASSUME NEW r \in Slots, Role(d, r) = "add", Attempts(r) = a, t = SlotTok(r) PROVE Twin(d)' \/ Spent(d)'
      <3>1. CASE Same(d, r) BY <1>2, <1>3, <1>4, <1>12, <1>14, <2>1, <3>1
      <3>2. CASE Retried(d, r)
        <4>1. Toks(d)' \subseteq {t, JobTok(a)} /\ Toks(d)' \subseteq {q, JobTok(a)}
          BY <1>2, <1>3, <1>4, <1>14, <2>1, <3>2 DEF Retried
        <4>2. QED BY <1>4, <1>7, <4>1 DEF OneOf
      <3>3. QED BY <2>1, <3>1, <3>2 DEF Steady
    <2>2. CASE t = JobTok(a)
      <3>1. Toks(d)' \subseteq {t} BY <1>2, <1>3, <1>4, <1>14, <2>2 DEF Retried
      <3>2. QED BY <1>7, <3>1 DEF OneOf
    <2>3. QED BY <1>6, <2>1, <2>2
  <1>15. QED BY <1>3, <1>13, <1>14 DEF Steady

(* A steady step leaves a delivery as calm, or as shaken, as it was. *)
LEMMA SteadyStep ==
  ASSUME TypeOK, TypeOK', NEW d \in Deliveries, Steady(d), Outlasting(d)
  PROVE  (Calm(d) => Calm(d)') /\ (Shaken(d) => Shaken(d)')
  <1>1. OneOf(Toks(d)) => OneOf(Toks(d)') BY FewStay DEF Steady
  <1>2. QED
    BY <1>1, SteadyWaiting, SteadyGone, SteadyFresh, SteadyExact, SteadySpent, SteadyTwin DEF Calm, Shaken
-----------------------------------------------------------------------------
(* The other steps that are nobody's fault. *)
Alike(d, s) == \A r \in Slots \ {s} : Same(d, r)

Starts(d, s) ==
  /\ Still(d) /\ Alike(d, s) /\ ~Settled(d) /\ Toks(d)' = Toks(d) /\ admin'[d] = admin[d]
  /\ Role(d, s) = "load" /\ Role(d, s)' = "post" /\ slot'[s].seen = Made(d)

Posted(d, s) ==
  /\ row'[d] = row[d] /\ posts'[d] = posts[d] + 1 /\ (d \in emitter'.todo <=> d \in emitter.todo)
  /\ Alike(d, s) /\ Toks(d)' = Toks(d) /\ admin'[d] = admin[d]
  /\ Role(d, s) = "post" /\ Role(d, s)' = "sent" /\ slot'[s].seen = slot[s].seen

(* What a slot reports about its attempt. *)
Reports(d, s) ==
  /\ posts'[d] = posts[d] /\ (d \in emitter'.todo <=> d \in emitter.todo)
  /\ Alike(d, s) /\ Exists(d) /\ Exists(d)' /\ Made(d)' = Attempts(s)

Settles(d, s) ==
  /\ Reports(d, s) /\ Settled(d)' /\ Toks(d)' = Toks(d) \ {SlotTok(s)} /\ admin'[d] = admin[d]
  /\ Role(d, s) \in {"post", "sent"} /\ Role(d, s)' = "none"

Fails(d, s) ==
  /\ Reports(d, s) /\ Attempts(s) < MaxAttempts /\ Toks(d)' = Toks(d)
  /\ Role(d, s) = "sent" /\ Role(d, s)' = "add" /\ slot'[s].seen = slot[s].seen

(* What becomes of the row while the slots go on as they were. *)
Aside(d) == posts'[d] = posts[d] /\ Toks(d)' = Toks(d) /\ (\A s \in Slots : Same(d, s))

Reopens(d) ==
  /\ Aside(d) /\ Exists(d) /\ Exists(d)' /\ Made(d)' = Made(d) /\ admin[d] # "none"
  /\ d \in emitter'.todo <=> d \in emitter.todo

Removes(d) ==
  /\ Aside(d) /\ Exists(d) /\ ~Exists(d)'
  /\ d \in emitter'.todo <=> d \in emitter.todo

Opens(d) ==
  /\ Aside(d) /\ Exists(d)' /\ Made(d)' = 0
  /\ d \in emitter.todo /\ d \notin emitter'.todo

(* Work on a deleted row comes to its end. *)
Withers(d) ==
  /\ Still(d) /\ ~Exists(d) /\ Toks(d)' \subseteq Toks(d)
  /\ Sending(d)' \subseteq Sending(d) /\ Served(d)' \subseteq Served(d)

Undisturbed(d) ==
  \/ Steady(d) \/ Reopens(d) \/ Removes(d) \/ Opens(d) \/ Withers(d)
  \/ \E s \in Slots : Starts(d, s) \/ Posted(d, s) \/ Settles(d, s) \/ Fails(d, s)

LEMMA SlotAtWork ==
  ASSUME NEW d, NEW s \in Slots, Role(d, s) # "none"
  PROVE  SlotTok(s) \in Toks(d) /\ ~Waiting(d) /\ Toks(d) # {}
  BY EngagedRole, SlotTokens, Differ DEF Waiting

LEMMA WaitingRests ==
  ASSUME NEW d, Waiting(d), NEW s \in Slots
  PROVE  Role(d, s) = "none"
  BY SlotAtWork

LEMMA GoneUnsettled ==
  ASSUME NEW d, ~Exists(d)
  PROVE  Settled(d)
  BY DEF Exists, Settled

LEMMA StartsFresh ==
  ASSUME TypeOK, NEW d \in Deliveries, NEW s \in Slots, Starts(d, s), Fresh(d)
  PROVE  Fresh(d)' /\ (Exact(d) => Exact(d)')
  <1>1. Made(d)' = Made(d) /\ Exists(d)' /\ Made(d) < MaxAttempts
    BY StillRow, SlotAtWork DEF Fresh, Starts
  <1>2. Sent(d)' = Sent(d) /\ Sending(d)' = Sending(d) \cup {s}
    BY DEF Sent, Sending, Starts, Alike, Same
  <1>3. \A r \in Sending(d)' \cup Sent(d)' : slot'[r].seen = Made(d)
    BY <1>2 DEF Fresh, Starts, Alike, Same, Sending, Sent
  <1>4. Exact(d) => Exact(d)' BY <1>1 DEF Exact, Starts, Alike, Same, Attempts
  <1>5. QED BY <1>1, <1>2, <1>3, <1>4 DEF Fresh, Counted, Starts, Still

LEMMA StartsSpent ==
  ASSUME TypeOK, NEW d \in Deliveries, NEW s \in Slots, Starts(d, s), Spent(d)
  PROVE  Spent(d)'
  <1>1. Made(d)' = Made(d) /\ Exists(d)' /\ posts'[d] = posts[d] BY StillRow DEF Spent, Starts, Still
  <1>2. SlotTok(s) \in Toks(d) BY SlotAtWork DEF Starts
  <1>3. Roomy(d)
    <2>1. Resting(d, SlotTok(s)) BY Differ DEF Resting, Starts
    <2>2. QED BY <1>2, <2>1 DEF Spent, Starts
  <1>4. \A r \in Sending(d)' \cup Sent(d)' : r = s
    <2>1. \A r \in Sending(d)' \cup Sent(d)' : SlotTok(r) \in Toks(d)
      BY SlotTokensNext DEF Sending, Sent, Engaged, Starts
    <2>2. QED BY <1>2, <2>1, Differ DEF Spent, OneOf
  <1>5. Attempts(s)' = Made(d) + 1 BY DEF Attempts, Starts
  <1>6. QED BY <1>1, <1>3, <1>4, <1>5, SpentNext DEF Spent, Starts, Still, Sent, Roomy

LEMMA TwinAlone ==
  ASSUME NEW d, NEW s \in Slots, NEW t \in Toks(d), TwinOf(d, s, t)
  PROVE  /\ SlotTok(s) \in Toks(d)
         /\ \A r \in Slots : Role(d, r) \in {"load", "post", "sent"} => r = s
         /\ AdminTok \notin Toks(d)
  <1>1. SlotTok(s) \in Toks(d) BY SlotAtWork DEF TwinOf
  <1>2. AdminTok \notin Toks(d) BY Differ DEF TwinOf, Follows
  <1>3. ASSUME NEW r \in Slots, Role(d, r) \in {"load", "post", "sent"} PROVE r = s
    <2>1. SlotTok(r) \in Toks(d) BY <1>3, SlotAtWork
    <2>2. SlotTok(r) # t BY <1>3, Differ DEF TwinOf, Follows
    <2>3. QED BY <2>1, <2>2, Differ DEF TwinOf
  <1>4. QED BY <1>1, <1>2, <1>3

LEMMA StartsStep ==
  ASSUME TypeOK, NEW d \in Deliveries, NEW s \in Slots, Starts(d, s)
  PROVE  (Calm(d) => Calm(d)') /\ (Shaken(d) => Shaken(d)')
  <1>1. ~Waiting(d) /\ ~Gone(d) BY SlotAtWork, GoneUnsettled DEF Starts, Gone
  <1>2. ~Twin(d) BY TwinAlone DEF Twin, TwinOf, Starts
  <1>3. Toks(d)' = Toks(d) BY DEF Starts
  <1>4. QED BY <1>1, <1>2, <1>3, StartsFresh, StartsSpent DEF Calm, Shaken, OneOf

(* A post: one token more has sent. *)
LEMMA PostedSlots ==
  ASSUME NEW d, NEW s \in Slots, Posted(d, s)
  PROVE  /\ Sending(d)' = Sending(d) \ {s} /\ Sent(d)' = Sent(d) \cup {s}
         /\ s \in Sending(d) /\ s \notin Sent(d)
         /\ Made(d)' = Made(d) /\ (Exists(d)' <=> Exists(d)) /\ (Settled(d)' <=> Settled(d))
         /\ \A r \in Slots : Role(d, r) \in {"post", "sent", "add"} => Attempts(r)' = Attempts(r)
         /\ Toks(d)' = Toks(d)
  BY DEF Posted, Sending, Sent, Alike, Same, Made, Exists, Settled, Attempts

LEMMA PostedGone ==
  ASSUME TypeOK, NEW d \in Deliveries, NEW s \in Slots, Posted(d, s), Gone(d)
  PROVE  Gone(d)'
  <1>1. posts[d] \in Nat /\ posts'[d] = posts[d] + 1 /\ MaxAttempts \in Nat BY Numbers DEF Posted
  <1>2. TwoOf(Sending(d)') /\ OneOf(Sending(d)') BY PostedSlots DEF Gone, TwoOf, OneOf
  <1>3. Sending(d)' # {} => ~OneOf(Sending(d)) BY PostedSlots DEF OneOf
  <1>4. posts'[d] <= MaxAttempts + 1 /\ (Sending(d)' # {} => posts'[d] <= MaxAttempts)
    BY <1>1, <1>3, PostedSlots DEF Gone
  <1>5. QED BY <1>2, <1>4, PostedSlots DEF Gone, Posted

LEMMA PostedFresh ==
  ASSUME TypeOK, NEW d \in Deliveries, NEW s \in Slots, Posted(d, s), Fresh(d)
  PROVE  Fresh(d)' /\ (Exact(d) => Exact(d)')
  <1>1. posts[d] \in Nat /\ Made(d) \in Nat /\ posts'[d] = posts[d] + 1 BY Numbers DEF Posted
  <1>2. OneOf(Sent(d))
    <2>1. \A r \in Sent(d) : SlotTok(r) \in Toks(d) /\ r # s BY SlotAtWork, PostedSlots DEF Sent
    <2>2. SlotTok(s) \in Toks(d) BY SlotAtWork DEF Posted
    <2>3. QED BY <2>1, <2>2, Differ DEF Fresh, TwoOf, OneOf
  <1>3. Sent(d) # {} => ~OneOf(Sent(d)') BY PostedSlots DEF OneOf
  <1>4. Sent(d)' # {} BY PostedSlots
  <1>5. Counted(d)' BY <1>1, <1>2, <1>3, <1>4, PostedSlots DEF Fresh, Counted
  <1>6. \A r \in Sending(d)' \cup Sent(d)' : slot'[r].seen = Made(d)
    BY PostedSlots DEF Fresh, Posted, Alike, Same, Sending, Sent
  <1>7. Exact(d) => Exact(d)' BY PostedSlots DEF Exact, Posted, Alike, Same
  <1>8. QED BY <1>5, <1>6, <1>7, PostedSlots DEF Fresh, Posted

LEMMA PostedSpent ==
  ASSUME TypeOK, NEW d \in Deliveries, NEW s \in Slots, Posted(d, s), Spent(d)
  PROVE  Spent(d)'
  <1>1. posts[d] \in Nat /\ Made(d) \in Nat /\ posts'[d] = posts[d] + 1 /\ MaxAttempts \in Nat BY Numbers DEF Posted
  <1>2. posts[d] <= Attempts(s) /\ posts[d] <= MaxAttempts BY PostedSlots DEF Spent
  <1>3. \A t \in Toks(d)' : t = SlotTok(s) BY PostedSlots, SlotAtWork DEF Spent, OneOf, Posted
  <1>4. \A r \in Sending(d)' \cup Sent(d)' : r = s
    <2>1. \A r \in Sending(d)' \cup Sent(d)' : SlotTok(r) \in Toks(d)'
      BY SlotTokensNext DEF Sending, Sent, Engaged
    <2>2. QED BY <1>3, <2>1, Differ
  <1>5. \A t \in Toks(d)' : ~Resting(d, t)' BY <1>3 DEF Resting, Posted
  <1>6. Attempts(s)' = Attempts(s) /\ Attempts(s) \in Nat
    BY PostedSlots, WorkTyped DEF Posted, Role
  <1>7. Sending(d)' = {} BY <1>4, PostedSlots
  <1>8. OneOf(Toks(d)') BY PostedSlots DEF Spent
  <1>9. QED BY <1>1, <1>2, <1>4, <1>5, <1>6, <1>7, <1>8, PostedSlots DEF Spent, Posted

(* Two slots on one attempt: what a step of theirs must leave. *)
LEMMA TwinStays ==
  ASSUME TypeOK, NEW d \in Deliveries, NEW s \in Slots, NEW t \in Toks(d), TwinOf(d, s, t), Outlasting(d), Made(d) < MaxAttempts,
         Alike(d, s), Toks(d)' = Toks(d), d \notin emitter'.todo, Exists(d)', Made(d)' = Made(d),
         slot'[s].seen = slot[s].seen, Role(d, s)' \in {"post", "sent", "add"},
         posts'[d] <= Made(d) + 1, Role(d, s)' = "post" => posts'[d] <= Made(d)
  PROVE  Twin(d)'
  <1>1. Follows(d, t, s)'
    <2>1. ASSUME NEW r \in Slots, Role(d, r) = "add", Attempts(r) = Made(d), t = SlotTok(r) PROVE Follows(d, t, s)'
      <3>1. r # s BY <2>1 DEF TwinOf
      <3>2. QED BY <2>1, <3>1 DEF Follows, Alike, Same, Attempts
    <2>2. CASE t = JobTok(Made(d)) /\ jobs[d][Made(d)] = "delayed" /\ Made(d) \in slot[s].outlasted
      <3>1. s \in Engaged(d) BY EngagedRole DEF TwinOf
      <3>2. Made(d) \in Ids BY Numbers, DeliveryAssumption DEF Ids
      <3>3. QED BY <2>2, <3>1, <3>2 DEF Outlasting, Follows
    <2>3. QED BY <2>1, <2>2 DEF TwinOf, Follows
  <1>2. Attempts(s)' = Made(d)' BY DEF TwinOf, Attempts
  <1>3. QED BY <1>1, <1>2 DEF Twin, TwinOf

LEMMA PostedTwin ==
  ASSUME TypeOK, NEW d \in Deliveries, NEW s \in Slots, Posted(d, s), Outlasting(d), Twin(d)
  PROVE  Twin(d)'
  <1>1. PICK r \in Slots, t \in Toks(d) : TwinOf(d, r, t) BY DEF Twin
  <1>2. r = s BY <1>1, TwinAlone DEF Posted
  <1>3. posts'[d] <= Made(d) + 1 BY <1>1, <1>2, Numbers DEF TwinOf, Posted
  <1>4. QED BY <1>1, <1>2, <1>3, PostedSlots, TwinStays DEF Twin, Posted

LEMMA PostedStep ==
  ASSUME TypeOK, NEW d \in Deliveries, NEW s \in Slots, Posted(d, s), Outlasting(d)
  PROVE  (Calm(d) => Calm(d)') /\ (Shaken(d) => Shaken(d)')
  <1>1. ~Waiting(d) BY SlotAtWork DEF Posted
  <1>2. QED
    BY <1>1, PostedSlots, PostedGone, PostedFresh, PostedSpent, PostedTwin DEF Calm, Shaken

(* A slot that posts or has posted takes a token. *)
LEMMA PostsTokens ==
  ASSUME NEW d, NEW s \in Sending(d) \cup Sent(d)
  PROVE  s \in Slots /\ SlotTok(s) \in Toks(d)
  BY SlotAtWork DEF Sending, Sent

LEMMA FewSend ==
  ASSUME NEW d
  PROVE  /\ OneOf(Toks(d)) => OneOf(Sending(d)) /\ OneOf(Sent(d))
         /\ TwoOf(Toks(d)) => TwoOf(Sending(d)) /\ TwoOf(Sent(d))
  BY PostsTokens, Differ DEF OneOf, TwoOf

(* Of two tokens, one that does not post leaves one that does. *)
LEMMA OneSends ==
  ASSUME NEW d, TwoOf(Toks(d)), NEW t \in Toks(d)
  PROVE  /\ (\A s \in Sent(d) : t # SlotTok(s)) => OneOf(Sent(d))
         /\ (\A s \in Sending(d) : t # SlotTok(s)) => OneOf(Sending(d))
  BY PostsTokens, Differ DEF OneOf, TwoOf

LEMMA SendingNotSent ==
  ASSUME NEW d, TwoOf(Toks(d)), Sending(d) # {}
  PROVE  OneOf(Sent(d)) /\ (~OneOf(Sending(d)) => Sent(d) = {})
  <1>1. \A s \in Sending(d), r \in Sent(d) : s # r BY DEF Sending, Sent
  <1>2. QED BY <1>1, PostsTokens, Differ DEF OneOf, TwoOf

LEMMA SettlesSlots ==
  ASSUME NEW d, NEW s \in Slots, Settles(d, s)
  PROVE  /\ Sending(d)' = Sending(d) \ {s} /\ Sent(d)' = Sent(d) \ {s}
         /\ s \in Sending(d) \cup Sent(d) /\ SlotTok(s) \in Toks(d)
         /\ \A r \in Slots \ {s} : Attempts(r)' = Attempts(r)
         /\ Toks(d)' = Toks(d) \ {SlotTok(s)} /\ posts'[d] = posts[d] /\ Made(d)' = Attempts(s)
  <1>1. SlotTok(s) \in Toks(d) BY SlotAtWork DEF Settles
  <1>2. QED BY <1>1 DEF Settles, Reports, Sending, Sent, Alike, Same, Attempts

LEMMA SettlesFresh ==
  ASSUME TypeOK, NEW d \in Deliveries, NEW s \in Slots, Settles(d, s), Fresh(d)
  PROVE  Spent(d)' /\ (OneOf(Toks(d)) => Fresh(d)' /\ Exact(d)')
  <1>1. posts[d] \in Nat /\ Made(d) \in Nat /\ MaxAttempts \in Nat /\ Made(d) < MaxAttempts
    BY Numbers, SettlesSlots DEF Fresh
  <1>2. \A r \in Sending(d) \cup Sent(d) : Attempts(r) = Made(d) + 1 BY DEF Fresh, Attempts
  <1>3. Made(d)' = Made(d) + 1 BY <1>2, SettlesSlots
  <1>4. posts[d] <= Made(d) + 2 /\ (OneOf(Sent(d)) => posts[d] <= Made(d) + 1) BY <1>1 DEF Fresh, Counted
  <1>5. d \notin emitter'.todo /\ Exists(d)' BY DEF Settles, Reports, Fresh
  <1>6. Spent(d)'
    <2>1. OneOf(Toks(d)') BY SettlesSlots DEF Fresh, TwoOf, OneOf
    <2>2. ASSUME NEW r \in Sending(d)' PROVE posts'[d] <= Attempts(r)' /\ posts'[d] <= MaxAttempts
      <3>1. r \in Sending(d) /\ r \in Slots \ {s} BY <2>2, SettlesSlots DEF Sending
      <3>2. OneOf(Sent(d)) BY <3>1, SendingNotSent DEF Fresh
      <3>3. QED BY <1>1, <1>2, <1>4, <3>1, <3>2, SettlesSlots
    <2>3. ASSUME NEW r \in Sent(d)' PROVE posts'[d] <= Attempts(r)' + 1
      <3>1. r \in Sent(d) /\ r \in Slots \ {s} BY <2>3, SettlesSlots DEF Sent
      <3>2. QED BY <1>1, <1>2, <1>4, <3>1, SettlesSlots
    <2>4. ASSUME NEW t \in Toks(d)', Resting(d, t)' PROVE Roomy(d)'
      <3>1. t \in Toks(d) /\ t # SlotTok(s) BY SettlesSlots
      <3>2. \A r \in Sent(d) \ {s} : t # SlotTok(r)
        BY <2>4 DEF Resting, Sent, Settles, Reports, Alike, Same
      <3>3. OneOf(Sent(d)) BY <3>1, <3>2, OneSends DEF Fresh
      <3>4. QED BY <1>1, <1>3, <1>4, <3>3, SettlesSlots DEF Roomy
    <2>5. posts'[d] <= MaxAttempts + 1 BY <1>1, <1>4, SettlesSlots
    <2>6. QED BY <1>5, <2>1, <2>2, <2>3, <2>4, <2>5 DEF Spent
  <1>7. ASSUME OneOf(Toks(d)) PROVE Fresh(d)' /\ Exact(d)'
    <2>1. Toks(d)' = {} BY <1>7, SettlesSlots DEF OneOf
    <2>2. \A r \in Slots : Role(d, r)' = "none" BY <2>1, SlotTokensNext, EngagedRole
    <2>3. Sending(d)' = {} /\ Sent(d)' = {} BY <2>2 DEF Sending, Sent
    <2>4. posts'[d] <= Made(d)' BY <1>3, <1>4, <1>7, FewSend, SettlesSlots
    <2>5. QED BY <1>5, <2>1, <2>2, <2>3, <2>4 DEF Fresh, Exact, Counted, TwoOf
  <1>8. QED BY <1>6, <1>7

LEMMA SettlesSpent ==
  ASSUME TypeOK, NEW d \in Deliveries, NEW s \in Slots, Settles(d, s), Spent(d)
  PROVE  Spent(d)'
  <1>1. Toks(d)' = {} BY SettlesSlots DEF Spent, OneOf
  <1>2. \A r \in Slots : Role(d, r)' = "none" BY <1>1, SlotTokensNext, EngagedRole
  <1>3. Sending(d)' = {} /\ Sent(d)' = {} BY <1>2 DEF Sending, Sent
  <1>4. QED BY <1>1, <1>3 DEF Spent, Settles, Reports, OneOf

LEMMA SettlesTwin ==
  ASSUME TypeOK, NEW d \in Deliveries, NEW s \in Slots, Settles(d, s), Twin(d)
  PROVE  Spent(d)'
  <1>1. PICK r \in Slots, t \in Toks(d) : TwinOf(d, r, t) BY DEF Twin
  <1>2. r = s BY <1>1, TwinAlone DEF Settles
  <1>3. Made(d)' = Made(d) /\ Toks(d)' \subseteq {t} BY <1>1, <1>2, SettlesSlots DEF TwinOf
  <1>4. Sending(d)' = {} /\ Sent(d)' = {} BY <1>1, <1>2, TwinAlone, SettlesSlots DEF Sending, Sent
  <1>5. posts'[d] <= Made(d) + 1 /\ posts'[d] <= MaxAttempts BY Numbers, SettlesSlots DEF Twin
  <1>6. posts'[d] <= MaxAttempts + 1 BY <1>5, Numbers, SettlesSlots
  <1>7. QED BY <1>3, <1>4, <1>5, <1>6, SpentNext DEF Twin, Settles, Reports, OneOf, Roomy

LEMMA SettlesStep ==
  ASSUME TypeOK, NEW d \in Deliveries, NEW s \in Slots, Settles(d, s)
  PROVE  (Calm(d) => Calm(d)') /\ (Shaken(d) => Shaken(d)')
  <1>1. ~Waiting(d) /\ ~Gone(d) BY SlotAtWork DEF Gone, Settles, Reports
  <1>2. OneOf(Toks(d)) => OneOf(Toks(d)') BY SettlesSlots DEF OneOf
  <1>3. QED BY <1>1, <1>2, SettlesFresh, SettlesSpent, SettlesTwin DEF Calm, Shaken

LEMMA FailsSlots ==
  ASSUME NEW d, NEW s \in Slots, Fails(d, s)
  PROVE  /\ Sending(d)' = Sending(d) /\ Sent(d)' = Sent(d) \ {s} /\ s \in Sent(d) /\ SlotTok(s) \in Toks(d)
         /\ \A r \in Slots : Attempts(r)' = Attempts(r) \/ Role(d, r) = "none"
         /\ \A r \in Slots \ {s} : Role(d, r)' = Role(d, r)
         /\ Attempts(s)' = Attempts(s) /\ Role(d, s)' = "add"
         /\ Toks(d)' = Toks(d) /\ posts'[d] = posts[d] /\ Made(d)' = Attempts(s) /\ Made(d)' < MaxAttempts
         /\ Exists(d) /\ Exists(d)' /\ (d \in emitter'.todo <=> d \in emitter.todo)
  <1>1. SlotTok(s) \in Toks(d) BY SlotAtWork DEF Fails
  <1>2. QED BY <1>1 DEF Fails, Reports, Sending, Sent, Alike, Same, Attempts

LEMMA FailsFresh ==
  ASSUME TypeOK, NEW d \in Deliveries, NEW s \in Slots, Fails(d, s), Fresh(d)
  PROVE  (Fresh(d)' \/ Twin(d)') /\ (OneOf(Toks(d)) => Fresh(d)' /\ Exact(d)')
  <1>1. posts[d] \in Nat /\ Made(d) \in Nat /\ MaxAttempts \in Nat BY Numbers
  <1>2. \A r \in Sending(d) \cup Sent(d) : Attempts(r) = Made(d) + 1 BY DEF Fresh, Attempts
  <1>3. Made(d)' = Made(d) + 1 BY <1>2, FailsSlots
  <1>4. posts[d] <= Made(d) + 2 /\ (OneOf(Sent(d)) => posts[d] <= Made(d) + 1) BY <1>1 DEF Fresh, Counted
  <1>5. CASE Sending(d)' \cup Sent(d)' = {}
    <2>1. Sent(d) = {s} BY <1>5, FailsSlots
    <2>2. Counted(d)' BY <1>3, <1>4, <2>1, FailsSlots DEF Counted, OneOf
    <2>3. Fresh(d)' BY <1>5, <2>2, FailsSlots DEF Fresh
    <2>4. ASSUME OneOf(Toks(d)) PROVE Exact(d)'
      <3>1. \A r \in Slots \ {s} : Role(d, r)' = "none" BY <2>4, FailsSlots, SlotAtWork, Differ DEF OneOf
      <3>2. QED BY <3>1, FailsSlots DEF Exact
    <2>5. QED BY <2>3, <2>4
  <1>6. ASSUME NEW o \in Sending(d)' \cup Sent(d)' PROVE Twin(d)' /\ ~OneOf(Toks(d))
    <2>1. o \in Slots \ {s} /\ o \in Sending(d) \cup Sent(d) BY FailsSlots DEF Sending, Sent
    <2>2. SlotTok(o) \in Toks(d) /\ SlotTok(o) # SlotTok(s) BY <2>1, PostsTokens, Differ
    <2>3. Toks(d)' \subseteq {SlotTok(s), SlotTok(o)} BY <2>2, FailsSlots DEF Fresh, TwoOf
    <2>4. Role(d, o)' \in {"post", "sent"} /\ Attempts(o)' = Made(d)'
      BY <1>2, <1>3, <2>1, FailsSlots DEF Sending, Sent
    <2>5. Role(d, o)' = "post" => posts'[d] <= Made(d)'
      <3>1. Role(d, o)' = "post" => o \in Sending(d) BY <2>1, FailsSlots DEF Sending
      <3>2. o \in Sending(d) => OneOf(Sent(d)) BY SendingNotSent DEF Fresh
      <3>3. QED BY <1>3, <1>4, <3>1, <3>2, FailsSlots
    <2>6. Follows(d, SlotTok(s), o)' BY FailsSlots DEF Follows
    <2>7. posts'[d] <= Made(d)' + 1 BY <1>1, <1>3, <1>4, FailsSlots
    <2>8. TwinOf(d, o, SlotTok(s))' BY <2>2, <2>3, <2>4, <2>5, <2>6 DEF TwinOf
    <2>9. Twin(d)' BY <2>1, <2>7, <2>8, FailsSlots DEF Twin, Fresh
    <2>10. QED BY <2>2, <2>9, FailsSlots DEF OneOf
  <1>7. QED BY <1>5, <1>6

LEMMA FailsSpent ==
  ASSUME TypeOK, NEW d \in Deliveries, NEW s \in Slots, Fails(d, s), Spent(d)
  PROVE  Spent(d)'
  <1>1. Sending(d)' = {} /\ Sent(d)' = {}
    <2>1. \A r \in Sending(d) \cup Sent(d) : r = s BY PostsTokens, FailsSlots, Differ DEF Spent, OneOf
    <2>2. s \notin Sending(d) BY DEF Fails, Sending
    <2>3. QED BY <2>1, <2>2, FailsSlots
  <1>2. posts[d] <= Attempts(s) + 1 /\ Attempts(s) \in Nat /\ posts[d] \in Nat /\ MaxAttempts \in Nat
    BY FailsSlots, WorkTyped, Numbers DEF Spent, Fails, Role
  <1>3. Roomy(d)' BY <1>2, FailsSlots DEF Roomy
  <1>4. QED BY <1>1, <1>2, <1>3, FailsSlots, SpentNext DEF Spent

LEMMA FailsTwin ==
  ASSUME TypeOK, NEW d \in Deliveries, NEW s \in Slots, Fails(d, s), Outlasting(d), Twin(d)
  PROVE  Twin(d)'
  <1>1. PICK r \in Slots, t \in Toks(d) : TwinOf(d, r, t) BY DEF Twin
  <1>2. r = s BY <1>1, TwinAlone DEF Fails
  <1>3. Made(d)' = Made(d) BY <1>1, <1>2, FailsSlots DEF TwinOf
  <1>4. QED BY <1>1, <1>2, <1>3, FailsSlots, TwinStays DEF Twin, Fails, Reports

LEMMA FailsStep ==
  ASSUME TypeOK, NEW d \in Deliveries, NEW s \in Slots, Fails(d, s), Outlasting(d)
  PROVE  (Calm(d) => Calm(d)') /\ (Shaken(d) => Shaken(d)')
  <1>1. ~Waiting(d) /\ ~Gone(d) BY SlotAtWork, FailsSlots DEF Gone, Fails
  <1>2. QED BY <1>1, FailsSlots, FailsFresh, FailsSpent, FailsTwin DEF Calm, Shaken

LEMMA AsideSlots ==
  ASSUME NEW d, Aside(d)
  PROVE  /\ Sending(d)' = Sending(d) /\ Sent(d)' = Sent(d) /\ Toks(d)' = Toks(d) /\ posts'[d] = posts[d]
         /\ \A s \in Slots : Attempts(s)' = Attempts(s) /\ Role(d, s)' = Role(d, s) /\ slot'[s].seen = slot[s].seen
  BY DEF Aside, Same, Sending, Sent, Attempts

LEMMA AdminToken ==
  ASSUME NEW d, admin[d] # "none"
  PROVE  AdminTok \in Toks(d)
  BY DEF Toks, Gather

LEMMA ReopensStep ==
  ASSUME TypeOK, NEW d \in Deliveries, Reopens(d)
  PROVE  (Calm(d) => Calm(d)') /\ (Shaken(d) => Shaken(d)')
  <1>1. /\ Aside(d) /\ Exists(d) /\ Exists(d)' /\ Made(d)' = Made(d) /\ admin[d] # "none"
        /\ d \in emitter'.todo <=> d \in emitter.todo
    BY DEF Reopens
  <1>2. ~Waiting(d) /\ ~Gone(d) BY <1>1 DEF Waiting, Gone
  <1>3. ~Twin(d) BY <1>1, AdminToken, TwinAlone DEF Twin
  <1>4. Fresh(d) => Fresh(d)' BY <1>1, AsideSlots DEF Fresh, Counted, Sending, Sent
  <1>5. Exact(d) => Exact(d)' BY <1>1, AsideSlots DEF Exact
  <1>6. ASSUME Spent(d) PROVE Spent(d)'
    <2>1. \A t \in Toks(d) : Resting(d, t)' => Resting(d, t) BY <1>1, AsideSlots DEF Resting
    <2>2. Roomy(d)' <=> Roomy(d) BY <1>1, AsideSlots DEF Roomy
    <2>3. QED BY <1>1, <1>6, <2>1, <2>2, AsideSlots DEF Spent, Sending, Sent
  <1>7. QED BY <1>1, <1>2, <1>3, <1>4, <1>5, <1>6, AsideSlots DEF Calm, Shaken

LEMMA RemovesStep ==
  ASSUME TypeOK, NEW d \in Deliveries, Removes(d), Made(d) <= MaxAttempts + 1
  PROVE  (Calm(d) => Calm(d)') /\ (Shaken(d) => Shaken(d)')
  <1>1. Aside(d) /\ Exists(d) /\ ~Exists(d)' /\ (d \in emitter'.todo <=> d \in emitter.todo) BY DEF Removes
  <1>2. posts[d] \in Nat /\ Made(d) \in Nat /\ MaxAttempts \in Nat BY Numbers
  <1>3. ASSUME Fresh(d) PROVE Gone(d)'
    <2>1. posts[d] <= MaxAttempts + 1
      <3>1. CASE Toks(d) = {}
        <4>1. Sent(d) = {} BY <3>1, PostsTokens
        <4>2. QED BY <1>2, <1>3, <4>1 DEF Fresh, Counted, OneOf
      <3>2. CASE Toks(d) # {} BY <1>2, <1>3, <3>2 DEF Fresh, Counted
      <3>3. QED BY <3>1, <3>2
    <2>2. ASSUME Sending(d) # {} PROVE posts[d] <= MaxAttempts /\ (~OneOf(Sending(d)) => posts[d] + 1 <= MaxAttempts)
      <3>1. OneOf(Sent(d)) /\ (~OneOf(Sending(d)) => Sent(d) = {}) BY <1>3, <2>2, SendingNotSent DEF Fresh
      <3>2. Made(d) < MaxAttempts BY <1>3, <2>2, PostsTokens DEF Fresh
      <3>3. posts[d] <= Made(d) + 1 /\ (Sent(d) = {} => posts[d] <= Made(d)) BY <1>2, <1>3, <3>1 DEF Fresh, Counted
      <3>4. QED BY <1>2, <3>1, <3>2, <3>3
    <2>3. TwoOf(Sending(d)) /\ (Sending(d) = {} => OneOf(Sending(d))) BY <1>3, FewSend DEF Fresh, OneOf
    <2>4. QED BY <1>1, <1>3, <2>1, <2>2, <2>3, AsideSlots DEF Gone, Fresh
  <1>4. ASSUME Spent(d) PROVE Gone(d)'
    <2>1. OneOf(Sending(d)) BY <1>4, FewSend DEF Spent
    <2>2. TwoOf(Sending(d)) BY <2>1 DEF OneOf, TwoOf
    <2>3. QED BY <1>1, <1>4, <2>1, <2>2, AsideSlots DEF Spent, Gone
  <1>5. ASSUME Twin(d) PROVE Gone(d)'
    <2>1. PICK s \in Slots, t \in Toks(d) : TwinOf(d, s, t) BY <1>5 DEF Twin
    <2>2. Sending(d) \subseteq {s} BY <2>1, TwinAlone DEF Sending
    <2>3. OneOf(Sending(d)) /\ TwoOf(Sending(d)) BY <2>2 DEF OneOf, TwoOf
    <2>4. posts[d] <= MaxAttempts /\ posts[d] <= MaxAttempts + 1 BY <1>2, <1>5 DEF Twin
    <2>5. QED BY <1>1, <1>5, <2>3, <2>4, AsideSlots DEF Gone, Twin
  <1>6. QED BY <1>1, <1>3, <1>4, <1>5, AsideSlots DEF Calm, Shaken, Waiting, Gone

LEMMA OpensStep ==
  ASSUME TypeOK, NEW d \in Deliveries, Opens(d)
  PROVE  (Calm(d) => Calm(d)') /\ (Shaken(d) => Shaken(d)')
  <1>1. Aside(d) /\ Exists(d)' /\ Made(d)' = 0 /\ d \in emitter.todo /\ d \notin emitter'.todo BY DEF Opens
  <1>2. ASSUME Waiting(d) PROVE Fresh(d)' /\ Exact(d)' /\ OneOf(Toks(d)')
    <2>1. \A s \in Slots : Role(d, s)' = "none" BY <1>1, <1>2, WaitingRests, AsideSlots
    <2>2. Sending(d)' = {} /\ Sent(d)' = {} BY <2>1 DEF Sending, Sent
    <2>3. OneOf(Toks(d)') /\ TwoOf(Toks(d)') BY <1>1, <1>2, AsideSlots DEF Waiting, OneOf, TwoOf
    <2>4. Counted(d)' BY <1>1, <1>2, AsideSlots DEF Waiting, Counted
    <2>5. QED BY <1>1, <2>1, <2>2, <2>3, <2>4, DeliveryAssumption DEF Fresh, Exact
  <1>3. QED BY <1>1, <1>2 DEF Calm, Shaken, Gone, Fresh, Spent, Twin

LEMMA WithersStep ==
  ASSUME NEW d, Withers(d)
  PROVE  (Calm(d) => Calm(d)') /\ (Shaken(d) => Shaken(d)')
  <1>1. OneOf(Toks(d)) => OneOf(Toks(d)') BY DEF Withers, OneOf
  <1>2. ~Exists(d) /\ ~Exists(d)' BY StillRow DEF Withers
  <1>3. Waiting(d) => Waiting(d)' BY <1>2 DEF Withers, Still, Waiting
  <1>4. Gone(d) => Gone(d)' BY <1>2 DEF Withers, Still, Gone, OneOf, TwoOf
  <1>5. QED BY <1>1, <1>2, <1>3, <1>4 DEF Calm, Shaken, Fresh, Spent, Twin

LEMMA UndisturbedStep ==
  ASSUME TypeOK, TypeOK', NEW d \in Deliveries, Undisturbed(d), Outlasting(d), Made(d) <= MaxAttempts + 1
  PROVE  (Calm(d) => Calm(d)') /\ (Shaken(d) => Shaken(d)')
  BY SteadyStep, StartsStep, PostedStep, SettlesStep, FailsStep, ReopensStep, RemovesStep, OpensStep, WithersStep
     DEF Undisturbed
-----------------------------------------------------------------------------
(* The steps that are a disturbance.  Work or a token is lost ... *)
Loses(d) ==
  /\ Still(d) /\ Toks(d)' \subseteq Toks(d) /\ Served(d)' \subseteq Served(d)
  /\ \A s \in Slots : Role(d, s)' # "none" => Same(d, s)

(* ... a retry that was not added is scheduled again ... *)
Retreats(d, s) ==
  /\ Still(d) /\ Toks(d)' = Toks(d) /\ Alike(d, s)
  /\ Role(d, s) = "add" /\ Role(d, s)' = "sent" /\ slot'[s].seen = slot[s].seen

(* ... a job is given back in the middle of its work ... *)
GivesBack(d, s, u) ==
  /\ Still(d) /\ Toks(d)' \subseteq (Toks(d) \ {SlotTok(s)}) \cup {u} /\ Alike(d, s)
  /\ Role(d, s) # "none" /\ Role(d, s)' = "none"

(* ... or a token is added: a manual retry, or a job given back too late. *)
Gains(d, u) ==
  /\ Still(d) /\ Toks(d)' \subseteq Toks(d) \cup {u} /\ (Exists(d) \/ Served(d) # {})
  /\ \A s \in Slots : Role(d, s)' = Role(d, s) /\ (Role(d, s) # "none" => slot'[s].seen = slot[s].seen)

(* The emitter gives up a delivery before it has created its row. *)
Leaves(d) ==
  /\ row'[d] = row[d] /\ posts'[d] = posts[d] /\ d \in emitter.todo /\ d \notin emitter'.todo
  /\ \A s \in Slots : Same(d, s)

Disturbed(d) ==
  \/ Loses(d) \/ Leaves(d)
  \/ \E s \in Slots : Retreats(d, s) \/ \E u : GivesBack(d, s, u)
  \/ \E u : Gains(d, u)

(* One token that is disturbed and not doubled. *)
LEMMA FreshSpent ==
  ASSUME TypeOK, NEW d \in Deliveries, Fresh(d), OneOf(Toks(d)), Made(d) <= MaxAttempts,
         Still(d), OneOf(Toks(d)'), Toks(d)' # {} => Toks(d) # {},
         \A r \in Sending(d)' : r \in Sending(d) /\ slot'[r].seen = slot[r].seen,
         \A r \in Sent(d)' : r \in Engaged(d) /\ Made(d) <= Attempts(r)' /\ Attempts(r)' \in Nat
  PROVE  Spent(d)'
  <1>1. posts[d] \in Nat /\ Made(d) \in Nat /\ MaxAttempts \in Nat BY Numbers
  <1>2. posts[d] <= Made(d) + 1 /\ (Toks(d) # {} => Made(d) + 1 <= MaxAttempts)
    BY <1>1, FewSend DEF Fresh, Counted
  <1>3. posts[d] <= MaxAttempts + 1 /\ (Toks(d) # {} => posts[d] <= MaxAttempts) BY <1>1, <1>2
  <1>4. ASSUME NEW r \in Sending(d)' PROVE posts[d] <= Attempts(r)' /\ posts[d] <= MaxAttempts
    <2>1. Attempts(r)' = Made(d) + 1 BY <1>4 DEF Fresh, Attempts
    <2>2. Toks(d) # {} BY PostsTokens
    <2>3. QED BY <1>2, <1>3, <2>1, <2>2
  <1>5. ASSUME NEW r \in Sent(d)' PROVE posts[d] <= Attempts(r)' + 1
    BY <1>1, <1>2, <1>5
  <1>6. Toks(d)' # {} => Roomy(d)' BY <1>2, <1>3, StillRow DEF Roomy, Still
  <1>7. QED BY <1>3, <1>4, <1>5, <1>6, StillRow DEF Spent, Fresh, Still

LEMMA LosesStep ==
  ASSUME TypeOK, TypeOK', NEW d \in Deliveries, Loses(d), Calm(d), Made(d) <= MaxAttempts
  PROVE  Shaken(d)'
  <1>1. Exists(d)' <=> Exists(d) BY StillRow DEF Loses
  <1>2. Sending(d)' \subseteq Sending(d) /\ Sent(d)' \subseteq Sent(d) BY DEF Loses, Same, Sending, Sent
  <1>3. Waiting(d) => Waiting(d)' BY <1>1 DEF Loses, Still, Waiting
  <1>4. Gone(d) => Gone(d)' BY <1>1, <1>2 DEF Loses, Still, Gone, OneOf, TwoOf
  <1>5. ASSUME Fresh(d) PROVE Spent(d)'
    <2>1. OneOf(Toks(d)) /\ OneOf(Toks(d)') /\ (Toks(d)' # {} => Toks(d) # {}) BY DEF Calm, Loses, OneOf
    <2>2. \A r \in Sending(d)' \cup Sent(d)' : Same(d, r) BY DEF Loses, Sending, Sent
    <2>3. ASSUME NEW r \in Sent(d)' PROVE r \in Engaged(d) /\ Made(d) <= Attempts(r)' /\ Attempts(r)' \in Nat
      <3>1. slot'[r].seen = Made(d) BY <1>2, <1>5, <2>2 DEF Fresh, Same
      <3>2. QED BY <1>2, <3>1, Numbers DEF Attempts, Sent, Engaged
    <2>4. QED BY <1>2, <1>5, <2>1, <2>2, <2>3, FreshSpent DEF Loses, Same
  <1>6. QED BY <1>3, <1>4, <1>5 DEF Calm, Shaken

LEMMA RetreatsStep ==
  ASSUME TypeOK, NEW d \in Deliveries, NEW s \in Slots, Retreats(d, s), Calm(d), Made(d) <= MaxAttempts
  PROVE  Shaken(d)'
  <1>1. ~Waiting(d) BY SlotAtWork DEF Retreats
  <1>2. Sending(d)' = Sending(d) /\ (Exists(d)' <=> Exists(d)) BY StillRow DEF Retreats, Alike, Same, Sending
  <1>3. Gone(d) => Gone(d)' BY <1>2 DEF Retreats, Still, Gone
  <1>4. ASSUME Fresh(d), Exact(d) PROVE Spent(d)'
    <2>1. OneOf(Toks(d)) /\ OneOf(Toks(d)') BY DEF Calm, Retreats
    <2>2. \A r \in Sending(d)' : r \in Sending(d) /\ slot'[r].seen = slot[r].seen
      BY <1>2 DEF Retreats, Alike, Same, Sending
    <2>3. Sent(d)' \subseteq {s}
      <3>1. \A r \in Slots \ {s} : Role(d, r) = "none" BY <2>1, SlotAtWork, Differ DEF OneOf, Retreats
      <3>2. QED BY <3>1 DEF Sent, Retreats, Alike, Same
    <2>4. s \in Engaged(d) /\ Attempts(s)' = Made(d) BY <1>4, EngagedRole DEF Retreats, Exact, Attempts
    <2>5. QED BY <1>4, <2>1, <2>2, <2>3, <2>4, Numbers, FreshSpent DEF Retreats
  <1>5. QED BY <1>1, <1>3, <1>4 DEF Calm, Shaken

LEMMA GivesBackStep ==
  ASSUME TypeOK, NEW d \in Deliveries, NEW s \in Slots, NEW u, GivesBack(d, s, u), Calm(d), Made(d) <= MaxAttempts
  PROVE  Shaken(d)'
  <1>1. ~Waiting(d) /\ SlotTok(s) \in Toks(d) BY SlotAtWork DEF GivesBack
  <1>2. Sending(d)' = Sending(d) \ {s} /\ Sent(d)' = Sent(d) \ {s} /\ (Exists(d)' <=> Exists(d))
    BY StillRow DEF GivesBack, Alike, Same, Sending, Sent
  <1>3. Gone(d) => Gone(d)' BY <1>2 DEF GivesBack, Still, Gone, OneOf, TwoOf
  <1>4. ASSUME Fresh(d) PROVE Spent(d)'
    <2>1. OneOf(Toks(d)) /\ OneOf(Toks(d)') BY <1>1 DEF Calm, GivesBack, OneOf
    <2>2. Sending(d)' = {} /\ Sent(d)' = {}
      BY <1>1, <1>2, <2>1, PostsTokens, Differ DEF OneOf
    <2>3. QED BY <1>1, <1>4, <2>1, <2>2, FreshSpent DEF GivesBack
  <1>5. QED BY <1>1, <1>3, <1>4 DEF Calm, Shaken

LEMMA GainsStep ==
  ASSUME TypeOK, NEW d \in Deliveries, NEW u, Gains(d, u), Calm(d), Made(d) <= MaxAttempts
  PROVE  Shaken(d)'
  <1>1. ~Waiting(d) BY DEF Gains, Waiting
  <1>2. Sending(d)' = Sending(d) /\ Sent(d)' = Sent(d) /\ (Exists(d)' <=> Exists(d))
    BY StillRow DEF Gains, Sending, Sent
  <1>3. Made(d)' = Made(d) /\ posts'[d] = posts[d] BY StillRow DEF Gains, Still
  <1>4. Gone(d) => Gone(d)' BY <1>2 DEF Gains, Still, Gone
  <1>5. ASSUME Fresh(d) PROVE Fresh(d)' \/ Spent(d)'
    <2>1. OneOf(Toks(d)) BY DEF Calm
    <2>2. CASE Made(d) < MaxAttempts
      <3>1. TwoOf(Toks(d)') BY <2>1 DEF Gains, OneOf, TwoOf
      <3>2. Counted(d)' BY <1>2, <1>3, <1>5 DEF Fresh, Counted
      <3>3. \A r \in Sending(d)' \cup Sent(d)' : slot'[r].seen = Made(d)'
        BY <1>2, <1>3, <1>5 DEF Fresh, Gains, Sending, Sent
      <3>4. QED BY <1>2, <1>3, <1>5, <2>2, <3>1, <3>2, <3>3 DEF Fresh, Gains, Still
    <2>3. CASE ~(Made(d) < MaxAttempts)
      <3>1. Toks(d) = {} BY <1>5, <2>3 DEF Fresh
      <3>2. Sending(d)' = {} /\ Sent(d)' = {} BY <1>2, <3>1, PostsTokens
      <3>3. posts[d] <= Made(d) BY <1>2, <1>5, <3>2 DEF Fresh, Counted, OneOf
      <3>4. Roomy(d)' /\ posts'[d] <= MaxAttempts + 1 BY <1>3, <3>3, Numbers DEF Roomy
      <3>5. OneOf(Toks(d)') BY <3>1 DEF Gains, OneOf
      <3>6. QED BY <1>2, <1>5, <3>2, <3>4, <3>5, SpentNext DEF Fresh, Gains, Still
    <2>4. QED BY <2>2, <2>3
  <1>6. QED BY <1>1, <1>4, <1>5 DEF Calm, Shaken

LEMMA LeavesStep ==
  ASSUME TypeOK, NEW d \in Deliveries, Leaves(d), Calm(d)
  PROVE  Shaken(d)'
  <1>1. Waiting(d) BY DEF Leaves, Calm, Gone, Fresh
  <1>2. Sending(d)' = {} BY <1>1, WaitingRests DEF Leaves, Same, Sending
  <1>3. ~Exists(d)' BY <1>1 DEF Leaves, Waiting, Exists
  <1>4. QED BY <1>1, <1>2, <1>3, DeliveryAssumption DEF Leaves, Waiting, Gone, Shaken, OneOf, TwoOf

LEMMA DisturbedStep ==
  ASSUME TypeOK, TypeOK', NEW d \in Deliveries, Disturbed(d), Calm(d), Made(d) <= MaxAttempts
  PROVE  Shaken(d)'
  BY LosesStep, RetreatsStep, GivesBackStep, GainsStep, LeavesStep DEF Disturbed
-----------------------------------------------------------------------------
(* What the actions do to the tokens of a delivery. *)
RoleAt(stage) ==
  IF stage = "end" THEN "none" ELSE IF stage \in {"mark", "retry"} THEN "sent" ELSE stage

(* Slot s goes on with its work, at another stage. *)
Goes(s, stage, seen) ==
  /\ Working(s) /\ Working(s)' /\ slot'[s].d = slot[s].d /\ slot'[s].id = slot[s].id
  /\ slot'[s].outlasted = slot[s].outlasted /\ slot'[s].stage = stage /\ slot'[s].seen = seen
  /\ \A t \in Slots \ {s} : slot'[t] = slot[t]

LEMMA MoveGoes ==
  ASSUME TypeOK, NEW s \in Slots, Working(s), NEW stage, Move(s, stage)
  PROVE  Goes(s, stage, slot[s].seen)
  <1>1. slot[s] \in Work BY WorkTyped
  <1>2. slot'[s] = [slot[s] EXCEPT !.stage = stage] /\ \A t \in Slots \ {s} : slot'[t] = slot[t]
    BY DEF TypeOK, Move
  <1>3. /\ slot'[s].d = slot[s].d /\ slot'[s].id = slot[s].id /\ slot'[s].outlasted = slot[s].outlasted
        /\ slot'[s].stage = stage /\ slot'[s].seen = slot[s].seen
    BY <1>1, <1>2 DEF Work
  <1>4. slot'[s] # Free BY <1>1, <1>2 DEF Work, Free
  <1>5. QED BY <1>2, <1>3, <1>4 DEF Goes, Working

LEMMA CatchGoes ==
  ASSUME TypeOK, NEW s \in Slots, Working(s), slot' = [slot EXCEPT ![s].stage = "retry", ![s].caught = TRUE]
  PROVE  Goes(s, "retry", slot[s].seen)
  <1> DEFINE v == [slot[s] EXCEPT !.stage = "retry"]
  <1>1. slot[s] \in Work BY WorkTyped
  <1>2. slot'[s] = [v EXCEPT !.caught = TRUE] /\ \A t \in Slots \ {s} : slot'[t] = slot[t]
    BY DEF TypeOK
  <1>3. /\ v \in Work /\ v.d = slot[s].d /\ v.id = slot[s].id /\ v.outlasted = slot[s].outlasted
        /\ v.stage = "retry" /\ v.seen = slot[s].seen
    BY <1>1 DEF Work
  <1> HIDE DEF v
  <1>4. /\ slot'[s].d = v.d /\ slot'[s].id = v.id /\ slot'[s].outlasted = v.outlasted
        /\ slot'[s].stage = v.stage /\ slot'[s].seen = v.seen /\ slot'[s] # Free
    BY <1>2, <1>3 DEF Work, Free
  <1>5. QED BY <1>2, <1>3, <1>4 DEF Goes, Working

LEMMA LoadGoes ==
  ASSUME TypeOK, NEW s \in Slots, Working(s), NEW n, slot' = [slot EXCEPT ![s].stage = "post", ![s].seen = n]
  PROVE  Goes(s, "post", n)
  <1> DEFINE v == [slot[s] EXCEPT !.stage = "post"]
  <1>1. slot[s] \in Work BY WorkTyped
  <1>2. slot'[s] = [v EXCEPT !.seen = n] /\ \A t \in Slots \ {s} : slot'[t] = slot[t]
    BY DEF TypeOK
  <1>3. v \in Work /\ v.d = slot[s].d /\ v.id = slot[s].id /\ v.outlasted = slot[s].outlasted /\ v.stage = "post"
    BY <1>1 DEF Work
  <1> HIDE DEF v
  <1>4. /\ slot'[s].d = v.d /\ slot'[s].id = v.id /\ slot'[s].outlasted = v.outlasted
        /\ slot'[s].stage = v.stage /\ slot'[s].seen = n /\ slot'[s] # Free
    BY <1>2, <1>3 DEF Work, Free
  <1>5. QED BY <1>2, <1>3, <1>4 DEF Goes, Working

LEMMA RoleKept ==
  ASSUME NEW d, NEW s, slot'[s] = slot[s]
  PROVE  Same(d, s) /\ (Working(s)' <=> Working(s)) /\ On(s)' = On(s)
  BY DEF Same, Role, Working, On

LEMMA GoesRoles ==
  ASSUME TypeOK, NEW s \in Slots, NEW stage, NEW seen, Goes(s, stage, seen), NEW d \in Deliveries
  PROVE  /\ Alike(d, s) /\ Served(d)' = Served(d)
         /\ d # On(s) => Role(d, s) = "none" /\ Role(d, s)' = "none"
         /\ d = On(s) => Role(d, s) = RoleAt(slot[s].stage) /\ Role(d, s)' = RoleAt(stage)
         /\ slot'[s].seen = seen
  <1>1. Alike(d, s) BY RoleKept DEF Alike, Goes
  <1>2. Served(d)' = Served(d)
    <2>1. \A t \in Slots \ {s} : (Working(t)' <=> Working(t)) /\ On(t)' = On(t) BY RoleKept DEF Goes
    <2>2. (Working(s)' <=> Working(s)) /\ On(s)' = On(s) BY DEF Goes, On
    <2>3. QED BY <2>1, <2>2 DEF Served
  <1>3. QED BY <1>1, <1>2 DEF Goes, Role, RoleAt, On

(* Tokens from their four sources. *)
LEMMA TokensSame ==
  ASSUME NEW d, Engaged(d)' = Engaged(d), jobs'[d] = jobs[d], admin'[d] = admin[d],
         d \in emitter'.todo \cup emitter'.created <=> d \in emitter.todo \cup emitter.created
  PROVE  Toks(d)' = Toks(d)
  BY DEF Toks, Gather, Queued

LEMMA TokensLess ==
  ASSUME NEW d, NEW s, Engaged(d)' = Engaged(d) \ {s}, jobs'[d] = jobs[d], admin'[d] = admin[d],
         d \in emitter'.todo \cup emitter'.created <=> d \in emitter.todo \cup emitter.created
  PROVE  Toks(d)' = Toks(d) \ {SlotTok(s)}
  BY DEF Toks, Gather, Queued, SlotTok, JobTok, AdminTok, EmitTok

LEMMA TokensFewer ==
  ASSUME NEW d, Engaged(d)' \subseteq Engaged(d), Queued(d)' \subseteq Queued(d), admin'[d] # "none" => admin[d] # "none",
         d \in emitter'.todo \cup emitter'.created => d \in emitter.todo \cup emitter.created
  PROVE  Toks(d)' \subseteq Toks(d)
  BY DEF Toks, Gather

(* A delivery none of whose parts a step touches. *)
Untouched(d) ==
  /\ row'[d] = row[d] /\ posts'[d] = posts[d] /\ jobs'[d] = jobs[d] /\ admin'[d] = admin[d]
  /\ d \in emitter'.todo <=> d \in emitter.todo
  /\ d \in emitter'.created <=> d \in emitter.created
  /\ Served(d)' = Served(d) /\ \A s \in Served(d) : slot'[s] = slot[s]

LEMMA RoleServed ==
  ASSUME NEW d, NEW s \in Slots
  PROVE  (s \notin Served(d) => Role(d, s) = "none") /\ (s \notin Served(d)' => Role(d, s)' = "none")
  BY DEF Served, Role

LEMMA UntouchedRoles ==
  ASSUME NEW d, Untouched(d)
  PROVE  /\ \A s \in Slots : Role(d, s)' = Role(d, s) /\ (Role(d, s) # "none" => Same(d, s))
         /\ Toks(d)' = Toks(d)
  <1>1. ASSUME NEW s \in Slots PROVE Role(d, s)' = Role(d, s) /\ (Role(d, s) # "none" => Same(d, s))
    <2>1. CASE s \in Served(d) BY <2>1, RoleKept DEF Untouched, Same
    <2>2. CASE s \notin Served(d) BY <2>2, RoleServed DEF Untouched
    <2>3. QED BY <2>1, <2>2
  <1>2. Engaged(d)' = Engaged(d) BY <1>1 DEF Engaged
  <1>3. QED BY <1>1, <1>2, TokensSame DEF Untouched

LEMMA UntouchedSteady ==
  ASSUME NEW d, Untouched(d)
  PROVE  Steady(d) /\ Loses(d)
  BY UntouchedRoles DEF Steady, Loses, Untouched, Still, Changed, Same

LEMMA GoesOthers ==
  ASSUME TypeOK, NEW s \in Slots, NEW stage, NEW seen, Goes(s, stage, seen), UNCHANGED <<jobs, admin, emitter>>,
         NEW d \in Deliveries \ {On(s)}, row'[d] = row[d], posts'[d] = posts[d]
  PROVE  Untouched(d)
  <1>1. Served(d)' = Served(d) BY GoesRoles
  <1>2. \A t \in Served(d) : slot'[t] = slot[t] BY DEF Served, Goes
  <1>3. QED BY <1>1, <1>2 DEF Untouched

LEMMA GoesOwn ==
  ASSUME TypeOK, NEW s \in Slots, NEW stage, NEW seen, Goes(s, stage, seen), UNCHANGED <<jobs, admin, emitter>>,
         NEW d \in Deliveries, d = On(s)
  PROVE  /\ RoleAt(slot[s].stage) # "none" /\ RoleAt(stage) # "none" => Toks(d)' = Toks(d)
         /\ RoleAt(stage) = "none" => Toks(d)' = Toks(d) \ {SlotTok(s)}
  <1>1. Alike(d, s) /\ Role(d, s) = RoleAt(slot[s].stage) /\ Role(d, s)' = RoleAt(stage) BY GoesRoles
  <1>2. \A t \in Slots \ {s} : Role(d, t)' = Role(d, t) BY <1>1 DEF Alike, Same
  <1>3. RoleAt(slot[s].stage) # "none" /\ RoleAt(stage) # "none" => Engaged(d)' = Engaged(d)
    BY <1>1, <1>2 DEF Engaged
  <1>4. RoleAt(stage) = "none" => Engaged(d)' = Engaged(d) \ {s} BY <1>1, <1>2 DEF Engaged
  <1>5. QED BY <1>3, <1>4, TokensSame, TokensLess

LEMMA WriteEffect ==
  ASSUME TypeOK, NEW s \in Slots, Working(s), NEW status \in {"failed", "delivered", "abandoned"}, Write(s, status)
  PROVE  /\ row'[On(s)].attempts = Attempts(s) /\ row'[On(s)].status = status /\ Exists(On(s))
         /\ \A d \in Deliveries \ {On(s)} : row'[d] = row[d]
  <1>1. On(s) \in Deliveries BY WorkTyped
  <1>2. row'[On(s)] = [status |-> status, attempts |-> Attempts(s)] BY <1>1 DEF Write, TypeOK
  <1>3. \A d \in Deliveries \ {On(s)} : row'[d] = row[d] BY <1>1 DEF Write, TypeOK
  <1>4. row'[On(s)].status = status /\ row'[On(s)].attempts = Attempts(s) BY <1>2
  <1>5. QED BY <1>3, <1>4 DEF Write

(* A slot writes the outcome of its attempt. *)
LEMMA WritesUndisturbed ==
  ASSUME TypeOK, NEW s \in Slots, Working(s), NEW status \in {"failed", "delivered", "abandoned"},
         NEW stage \in {"end", "add"}, Write(s, status), Move(s, stage),
         UNCHANGED <<jobs, emitter, admin, posts>>,
         RoleAt(slot[s].stage) \in {"post", "sent"},
         stage = "end" <=> status # "failed",
         stage = "add" => RoleAt(slot[s].stage) = "sent" /\ Attempts(s) < MaxAttempts
  PROVE  \A d \in Deliveries : Undisturbed(d)
  <1>1. Goes(s, stage, slot[s].seen) BY MoveGoes
  <1>2. ASSUME NEW d \in Deliveries \ {On(s)} PROVE Undisturbed(d)
    BY <1>1, <1>2, WriteEffect, GoesOthers, UntouchedSteady DEF Undisturbed
  <1>3. ASSUME NEW d \in Deliveries, d = On(s) PROVE Undisturbed(d)
    <2>1. Alike(d, s) /\ Role(d, s) = RoleAt(slot[s].stage) /\ Role(d, s)' = RoleAt(stage) /\ slot'[s].seen = slot[s].seen
      BY <1>1, <1>3, GoesRoles
    <2>2. Made(d)' = Attempts(s) /\ Exists(d) /\ Exists(d)' /\ (status # "failed" => Settled(d)')
      <3>1. row'[d].attempts = Attempts(s) /\ row'[d].status = status /\ Exists(d) BY <1>3, WriteEffect
      <3>2. QED BY <3>1 DEF Made, Exists, Settled
    <2>3. Reports(d, s) BY <2>1, <2>2 DEF Reports
    <2>4. CASE stage = "end"
      <3>1. Toks(d)' = Toks(d) \ {SlotTok(s)} BY <1>1, <1>3, <2>4, GoesOwn DEF RoleAt
      <3>2. Settles(d, s) BY <2>1, <2>2, <2>3, <2>4, <3>1 DEF Settles, RoleAt
      <3>3. QED BY <3>2 DEF Undisturbed
    <2>5. CASE stage = "add"
      <3>1. Toks(d)' = Toks(d) BY <1>1, <1>3, <2>5, GoesOwn DEF RoleAt
      <3>2. Fails(d, s) BY <2>1, <2>3, <2>5, <3>1 DEF Fails, RoleAt
      <3>3. QED BY <3>2 DEF Undisturbed
    <2>6. QED BY <2>4, <2>5
  <1>4. QED BY <1>2, <1>3

LEMMA PostsUndisturbed ==
  ASSUME TypeOK, NEW s \in Slots, Working(s), Post(s), NEW stage \in {"mark", "retry"}, Goes(s, stage, slot[s].seen)
  PROVE  \A d \in Deliveries : Undisturbed(d)
  <1>0. UNCHANGED <<row, jobs, emitter, admin>> /\ RoleAt(slot[s].stage) = "post" /\ RoleAt(stage) = "sent"
    BY DEF Post, At, RoleAt
  <1>1. ASSUME NEW d \in Deliveries \ {On(s)} PROVE Undisturbed(d)
    <2>1. posts'[d] = posts[d] BY <1>1 DEF Post, TypeOK
    <2>2. QED BY <1>0, <1>1, <2>1, GoesOthers, UntouchedSteady DEF Undisturbed
  <1>2. ASSUME NEW d \in Deliveries, d = On(s) PROVE Undisturbed(d)
    <2>1. posts'[d] = posts[d] + 1 BY <1>2 DEF Post, TypeOK
    <2>2. Alike(d, s) /\ Role(d, s) = "post" /\ Role(d, s)' = "sent" /\ slot'[s].seen = slot[s].seen
      BY <1>0, <1>2, GoesRoles
    <2>3. Toks(d)' = Toks(d) BY <1>0, <1>2, GoesOwn
    <2>4. Posted(d, s) BY <1>0, <2>1, <2>2, <2>3 DEF Posted
    <2>5. QED BY <2>4 DEF Undisturbed
  <1>3. QED BY <1>1, <1>2

(* Work ends, or is to be scheduled again, and writes nothing. *)
LEMMA Stops ==
  ASSUME TypeOK, NEW s \in Slots, NEW stage \in {"end", "retry"}, Goes(s, stage, slot[s].seen),
         UNCHANGED <<row, posts, jobs, admin, emitter>>,
         stage = "retry" => RoleAt(slot[s].stage) \in {"sent", "add"}, NEW d \in Deliveries
  PROVE  /\ d # On(s) => Untouched(d)
         /\ d = On(s) =>
              \/ Loses(d) /\ (slot[s].stage = "load" => Steady(d)) /\ (~Exists(d) => Withers(d))
              \/ Retreats(d, s) /\ stage = "retry" /\ RoleAt(slot[s].stage) = "add"
  <1>1. d # On(s) => Untouched(d) BY GoesOthers
  <1>2. ASSUME d = On(s)
        PROVE  \/ Loses(d) /\ (slot[s].stage = "load" => Steady(d)) /\ (~Exists(d) => Withers(d))
               \/ Retreats(d, s) /\ stage = "retry" /\ RoleAt(slot[s].stage) = "add"
    <2>1. /\ Alike(d, s) /\ Role(d, s) = RoleAt(slot[s].stage) /\ Role(d, s)' = RoleAt(stage)
          /\ Served(d)' = Served(d) /\ slot'[s].seen = slot[s].seen
      BY <1>2, GoesRoles
    <2>2. Still(d) /\ admin'[d] = admin[d] BY DEF Still
    <2>3. CASE stage = "end"
      <3>1. Toks(d)' = Toks(d) \ {SlotTok(s)} BY <1>2, <2>3, GoesOwn DEF RoleAt
      <3>2. Role(d, s)' = "none" BY <2>1, <2>3 DEF RoleAt
      <3>3. Loses(d) BY <2>1, <2>2, <3>1, <3>2 DEF Loses, Alike
      <3>4. slot[s].stage = "load" => Steady(d)
        BY <2>1, <2>2, <3>1, <3>2 DEF Steady, Changed, Alike, RoleAt
      <3>5. Sending(d)' \subseteq Sending(d) BY <2>1, <3>2 DEF Sending, Alike, Same
      <3>6. ~Exists(d) => Withers(d) BY <2>1, <2>2, <3>1, <3>5 DEF Withers
      <3>7. QED BY <3>3, <3>4, <3>6
    <2>4. CASE stage = "retry"
      <3>1. Toks(d)' = Toks(d) BY <1>2, <2>4, GoesOwn DEF RoleAt
      <3>2. Role(d, s)' = "sent" BY <2>1, <2>4 DEF RoleAt
      <3>3. CASE RoleAt(slot[s].stage) = "sent"
        <4>1. \A r \in Slots : Same(d, r) BY <2>1, <3>2, <3>3 DEF Alike, Same
        <4>2. Loses(d) BY <2>1, <2>2, <3>1, <4>1 DEF Loses
        <4>3. Sending(d)' = Sending(d) BY <4>1 DEF Sending, Same
        <4>4. ~Exists(d) => Withers(d) BY <2>1, <2>2, <3>1, <4>3 DEF Withers
        <4>5. QED BY <3>3, <4>2, <4>4 DEF RoleAt
      <3>4. CASE RoleAt(slot[s].stage) = "add" BY <2>1, <2>2, <2>4, <3>1, <3>2, <3>4 DEF Retreats
      <3>5. QED BY <2>4, <3>3, <3>4
    <2>5. QED BY <2>3, <2>4
  <1>3. QED BY <1>1, <1>2

LEMMA ThrowStops ==
  ASSUME TypeOK, NEW s \in Slots, Working(s), Throw(s), RoleAt(slot[s].stage) \in {"sent", "add"}
  PROVE  \E stage \in {"end", "retry"} : Goes(s, stage, slot[s].seen) /\ UNCHANGED <<row, posts, jobs, admin, emitter>>
  BY MoveGoes, CatchGoes DEF Throw, FailJob

LEMMA FreedRoles ==
  ASSUME TypeOK, NEW s \in Slots, Working(s), slot' = [slot EXCEPT ![s] = Free], NEW d \in Deliveries
  PROVE  /\ Alike(d, s) /\ Role(d, s)' = "none" /\ Served(d)' = Served(d) \ {s}
         /\ (s \in Served(d) <=> d = On(s)) /\ \A t \in Slots \ {s} : slot'[t] = slot[t]
  <1>1. slot'[s] = Free /\ \A t \in Slots \ {s} : slot'[t] = slot[t] BY DEF TypeOK
  <1>2. Alike(d, s) BY <1>1, RoleKept DEF Alike
  <1>3. Role(d, s)' = "none" BY <1>1 DEF Role, Working
  <1>4. \A t \in Slots \ {s} : (Working(t)' <=> Working(t)) /\ On(t)' = On(t) BY <1>1, RoleKept
  <1>5. ~Working(s)' BY <1>1 DEF Working
  <1>6. QED BY <1>1, <1>2, <1>3, <1>4, <1>5 DEF Served

(* A job's state is written. *)
LEMMA JobSet ==
  ASSUME TypeOK, NEW c \in Deliveries, NEW id \in Ids, NEW state, jobs' = [jobs EXCEPT ![c][id] = state], NEW d \in Deliveries
  PROVE  /\ d # c => jobs'[d] = jobs[d]
         /\ jobs'[c][id] = state /\ \A n \in Ids \ {id} : jobs'[c][n] = jobs[c][n]
         /\ state \in {"waiting", "delayed"} => Queued(c)' = Queued(c) \cup {id}
         /\ state \notin {"waiting", "delayed"} => Queued(c)' = Queued(c) \ {id}
  <1>1. d # c => jobs'[d] = jobs[d] BY DEF TypeOK
  <1>2. jobs'[c] = [jobs[c] EXCEPT ![id] = state] /\ jobs[c] \in [Ids -> Alive \cup {"absent", "kept"}] BY DEF TypeOK
  <1>3. jobs'[c][id] = state /\ \A n \in Ids \ {id} : jobs'[c][n] = jobs[c][n] BY <1>2
  <1>4. QED BY <1>1, <1>3 DEF Queued

(* A slot is freed, its job kept or given back. *)
LEMMA FreedOthers ==
  ASSUME TypeOK, NEW s \in Slots, Working(s), slot' = [slot EXCEPT ![s] = Free], NEW state,
         jobs' = [jobs EXCEPT ![On(s)][slot[s].id] = state], UNCHANGED <<row, posts, admin, emitter>>,
         NEW d \in Deliveries \ {On(s)}
  PROVE  Untouched(d)
  <1>1. jobs'[d] = jobs[d] BY WorkTyped, JobSet
  <1>2. s \notin Served(d) BY FreedRoles
  <1>3. Served(d)' = Served(d) BY <1>2, FreedRoles
  <1>4. \A t \in Served(d) : slot'[t] = slot[t]
    <2>1. Served(d) \subseteq Slots \ {s} BY <1>2 DEF Served
    <2>2. QED BY <2>1, FreedRoles
  <1>5. QED BY <1>1, <1>3, <1>4 DEF Untouched

LEMMA FreedOwn ==
  ASSUME TypeOK, NEW s \in Slots, Working(s), slot' = [slot EXCEPT ![s] = Free], NEW state \in {"kept", "waiting"},
         jobs' = [jobs EXCEPT ![On(s)][slot[s].id] = state], UNCHANGED <<row, posts, admin, emitter>>,
         NEW d \in Deliveries, d = On(s)
  PROVE  /\ state = "kept" => Loses(d) /\ (slot[s].stage = "end" => Steady(d))
         /\ state = "waiting" => \E u : GivesBack(d, s, u) \/ Gains(d, u)
  <1>0. slot[s].id \in Ids /\ jobs' = [jobs EXCEPT ![d][slot[s].id] = state] BY WorkTyped
  <1>1. Alike(d, s) /\ Role(d, s)' = "none" /\ Served(d)' = Served(d) \ {s} /\ s \in Served(d) BY FreedRoles
  <1>2. Still(d) /\ admin'[d] = admin[d] BY DEF Still
  <1>3. Engaged(d)' = Engaged(d) \ {s} BY <1>1 DEF Engaged, Alike, Same
  <1>4. ASSUME state = "kept" PROVE Loses(d) /\ (slot[s].stage = "end" => Steady(d))
    <2>1. Queued(d)' \subseteq Queued(d)
      <3>1. state \notin {"waiting", "delayed"} BY <1>4
      <3>2. Queued(d)' = Queued(d) \ {slot[s].id} BY <1>0, <3>1, JobSet
      <3>3. QED BY <3>2
    <2>2. Toks(d)' \subseteq Toks(d) BY <1>3, <2>1, TokensFewer
    <2>3. Loses(d) BY <1>1, <1>2, <2>2 DEF Loses, Alike
    <2>4. ASSUME slot[s].stage = "end" PROVE Steady(d)
      <3>1. Role(d, s) = "none" BY <2>4 DEF Role
      <3>2. QED BY <1>1, <1>2, <2>2, <3>1 DEF Steady, Changed, Alike
    <2>5. QED BY <2>3, <2>4
  <1>5. ASSUME state = "waiting" PROVE \E u : GivesBack(d, s, u) \/ Gains(d, u)
    <2> DEFINE u == JobTok(slot[s].id)
    <2>1. Queued(d)' = Queued(d) \cup {slot[s].id} BY <1>0, <1>5, JobSet
    <2>2. Toks(d)' \subseteq (Toks(d) \ {SlotTok(s)}) \cup {u}
      BY <1>3, <2>1 DEF Toks, Gather, SlotTok, JobTok, AdminTok, EmitTok
    <2> HIDE DEF u
    <2>3. CASE Role(d, s) = "none"
      <3>1. \A r \in Slots : Role(d, r)' = Role(d, r) /\ (Role(d, r) # "none" => slot'[r].seen = slot[r].seen)
        BY <1>1, <2>3 DEF Alike, Same
      <3>2. Gains(d, u) BY <1>1, <1>2, <2>2, <3>1 DEF Gains
      <3>3. QED BY <3>2
    <2>4. CASE Role(d, s) # "none"
      <3>1. GivesBack(d, s, u) BY <1>1, <1>2, <2>2, <2>4 DEF GivesBack
      <3>2. QED BY <3>1
    <2>5. QED BY <2>3, <2>4
  <1>6. QED BY <1>4, <1>5

(* A retry is added: the slot's token becomes the job's, unless there is one. *)
LEMMA RetrySlots ==
  ASSUME TypeOK, AttemptsInv, NEW s \in Slots, AddRetry(s)
  PROVE  /\ Working(s) /\ slot[s].stage = "add" /\ slot'[s].stage = "end"
         /\ \A t \in Slots : (Working(t)' <=> Working(t)) /\ (Working(t) => On(t)' = On(t))
         /\ \A t \in Slots \ {s} : (Working(t) => On(t) # On(s)) => slot'[t] = slot[t]
         /\ \A t \in Slots \ {s} : Working(t) /\ On(t) = On(s) =>
              /\ slot'[t].stage = slot[t].stage /\ slot'[t].seen = slot[t].seen
              /\ slot[t].outlasted \subseteq slot'[t].outlasted
              /\ jobs[On(s)][RetryId(s)] = "absent" => RetryId(s) \in slot'[t].outlasted
  <1> DEFINE begun == IF jobs[On(s)][RetryId(s)] = "absent" THEN {RetryId(s)} ELSE {}
  <1>0. At(s, "add") /\ Working(s) /\ slot[s].stage = "add" BY DEF AddRetry, At
  <1>1. begun \in SUBSET Ids BY <1>0, RetryIdTyped
  <1>2. slot'[s] = [slot[s] EXCEPT !.stage = "end"] BY DEF AddRetry
  <1>3. \A t \in Slots \ {s} : ~(Working(t) /\ On(t) = On(s)) => slot'[t] = slot[t] BY DEF AddRetry
  <1>4. \A t \in Slots \ {s} : Working(t) /\ On(t) = On(s) => slot'[t] = [slot[t] EXCEPT !.outlasted = @ \cup begun]
    BY DEF AddRetry
  <1>5. jobs[On(s)][RetryId(s)] = "absent" => RetryId(s) \in begun OBVIOUS
  <1> HIDE DEF begun
  <1>6. slot'[s].stage = "end" /\ slot'[s] # Free /\ slot'[s].d = slot[s].d
    <2>1. slot[s] \in Work BY <1>0, WorkTyped
    <2>2. QED BY <1>2, <2>1 DEF Work, Free
  <1>7. ASSUME NEW t \in Slots \ {s}, Working(t), On(t) = On(s)
        PROVE  /\ slot'[t] # Free /\ slot'[t].d = slot[t].d /\ slot'[t].stage = slot[t].stage
               /\ slot'[t].seen = slot[t].seen /\ slot'[t].outlasted = slot[t].outlasted \cup begun
    <2>1. slot[t] \in Work BY <1>7, WorkTyped
    <2>2. slot'[t] = [slot[t] EXCEPT !.outlasted = @ \cup begun] BY <1>4, <1>7
    <2>3. QED BY <1>1, <2>1, <2>2 DEF Work, Free
  <1>8. ASSUME NEW t \in Slots PROVE (Working(t)' <=> Working(t)) /\ (Working(t) => On(t)' = On(t))
    <2>1. CASE t = s BY <1>0, <1>6, <2>1 DEF Working, On
    <2>2. CASE t # s /\ Working(t) /\ On(t) = On(s) BY <1>7, <2>2 DEF Working, On
    <2>3. CASE t # s /\ ~(Working(t) /\ On(t) = On(s)) BY <1>3, <2>3 DEF Working, On
    <2>4. QED BY <2>1, <2>2, <2>3
  <1>9. QED BY <1>0, <1>3, <1>5, <1>6, <1>7, <1>8

LEMMA RetryRoles ==
  ASSUME TypeOK, AttemptsInv, NEW s \in Slots, AddRetry(s), NEW d \in Deliveries
  PROVE  /\ Served(d)' = Served(d)
         /\ d # On(s) => \A t \in Served(d) : slot'[t] = slot[t]
         /\ d = On(s) => Alike(d, s) /\ Role(d, s) = "add" /\ Role(d, s)' = "none" /\ Engaged(d)' = Engaged(d) \ {s}
  <1>1. Served(d)' = Served(d) BY RetrySlots DEF Served
  <1>2. d # On(s) => \A t \in Served(d) : slot'[t] = slot[t] BY RetrySlots DEF Served
  <1>3. ASSUME d = On(s)
        PROVE Alike(d, s) /\ Role(d, s) = "add" /\ Role(d, s)' = "none" /\ Engaged(d)' = Engaged(d) \ {s}
    <2>1. Role(d, s) = "add" /\ Role(d, s)' = "none" BY <1>3, RetrySlots DEF Role
    <2>2. ASSUME NEW t \in Slots \ {s} PROVE Same(d, t)
      <3>1. CASE Working(t) /\ On(t) = d
        <4>1. Working(t)' /\ On(t)' = d /\ slot'[t].stage = slot[t].stage /\ slot'[t].seen = slot[t].seen
          BY <1>3, <3>1, RetrySlots
        <4>2. QED BY <3>1, <4>1 DEF Same, Role
      <3>2. CASE ~(Working(t) /\ On(t) = d) BY <1>3, <3>2, RetrySlots, RoleKept
      <3>3. QED BY <3>1, <3>2
    <2>3. Alike(d, s) BY <2>2 DEF Alike
    <2>4. QED BY <2>1, <2>3 DEF Engaged, Alike, Same
  <1>4. QED BY <1>1, <1>2, <1>3

LEMMA RetryJobs ==
  ASSUME TypeOK, NEW d \in Deliveries, NEW id \in Ids, NEW state \in {"waiting", "delayed"}, Add(d, id, state)
  PROVE  /\ \A e \in Deliveries \ {d} : jobs'[e] = jobs[e]
         /\ jobs[d][id] = "absent" => jobs'[d][id] = state /\ Queued(d)' = Queued(d) \cup {id}
         /\ jobs[d][id] # "absent" => jobs'[d] = jobs[d]
         /\ \A n \in Ids \ {id} : jobs'[d][n] = jobs[d][n]
  <1>1. \A e \in Deliveries \ {d} : jobs'[e] = jobs[e] BY DEF Add, TypeOK
  <1>2. /\ jobs[d] \in [Ids -> Alive \cup {"absent", "kept"}]
        /\ jobs'[d] = [jobs[d] EXCEPT ![id] = IF @ = "absent" THEN state ELSE @]
    BY DEF Add, TypeOK
  <1>3. \A n \in Ids \ {id} : jobs'[d][n] = jobs[d][n] BY <1>2
  <1>4. jobs[d][id] = "absent" => jobs'[d][id] = state BY <1>2
  <1>5. jobs[d][id] # "absent" => jobs'[d] = jobs[d] BY <1>2
  <1>6. jobs[d][id] = "absent" => Queued(d)' = Queued(d) \cup {id} BY <1>3, <1>4 DEF Queued
  <1>7. QED BY <1>1, <1>3, <1>4, <1>5, <1>6

LEMMA RetrySteady ==
  ASSUME TypeOK, AttemptsInv, NEW s \in Slots, AddRetry(s), NEW d \in Deliveries
  PROVE  Steady(d)
  <1>0. /\ At(s, "add") /\ RetryId(s) \in Ids /\ On(s) \in Deliveries /\ Add(On(s), RetryId(s), "delayed")
        /\ UNCHANGED <<row, emitter, admin, posts>>
    BY RetryIdTyped, WorkTyped DEF AddRetry, At
  <1>1. CASE d # On(s)
    <2>1. jobs'[d] = jobs[d] BY <1>0, <1>1, RetryJobs
    <2>2. Untouched(d) BY <1>0, <1>1, <2>1, RetryRoles DEF Untouched
    <2>3. QED BY <2>2, UntouchedSteady
  <1>2. CASE d = On(s)
    <2> DEFINE id == Attempts(s)
               u == JobTok(id)
    <2>1. id \in Ids /\ Add(d, id, "delayed") BY <1>0, <1>2 DEF RetryId
    <2>2. /\ Served(d)' = Served(d) /\ Alike(d, s) /\ Role(d, s) = "add" /\ Role(d, s)' = "none"
          /\ Engaged(d)' = Engaged(d) \ {s}
      BY <1>2, RetryRoles
    <2>3. Still(d) /\ admin'[d] = admin[d] BY <1>0 DEF Still
    <2>4. SlotTok(s) \in Toks(d) BY <2>2, SlotAtWork
    <2>5. Retried(d, s) /\ Changed(Toks(d), Toks(d)')
      <3>1. CASE jobs[d][id] # "absent"
        <4>1. Toks(d)' = Toks(d) \ {SlotTok(s)} BY <1>0, <2>1, <2>2, <3>1, RetryJobs, TokensLess
        <4>2. QED BY <4>1 DEF Retried, Changed
      <3>2. CASE jobs[d][id] = "absent"
        <4>1. Queued(d)' = Queued(d) \cup {id} /\ jobs'[d][id] = "delayed" BY <2>1, <3>2, RetryJobs
        <4>2. Toks(d)' = (Toks(d) \ {SlotTok(s)}) \cup {u}
          BY <1>0, <2>2, <4>1 DEF Toks, Gather, SlotTok, JobTok, AdminTok, EmitTok
        <4>3. ASSUME NEW r \in Engaged(d) \ {s} PROVE id \in slot'[r].outlasted
          <5>1. r \in Slots \ {s} /\ Working(r) /\ On(r) = On(s) BY <1>2 DEF Engaged, Role
          <5>2. jobs[On(s)][RetryId(s)] = "absent" BY <1>2, <3>2 DEF RetryId
          <5>3. QED BY <5>1, <5>2, RetrySlots DEF RetryId
        <4>4. Retried(d, s) BY <4>1, <4>2, <4>3 DEF Retried
        <4>5. QED BY <2>4, <4>2, <4>4 DEF Changed
      <3>3. QED BY <3>1, <3>2
    <2>6. QED BY <2>2, <2>3, <2>5 DEF Steady, Alike
  <1>3. QED BY <1>1, <1>2

(* A slot takes a job: the token of the one becomes that of the other. *)
LEMMA TakeSteady ==
  ASSUME TypeOK, NEW s \in Slots, NEW c \in Deliveries, NEW id \in Ids, Take(s, c, id), NEW d \in Deliveries
  PROVE  Steady(d)
  <1>1. /\ ~Working(s) /\ Working(s)' /\ On(s)' = c /\ slot'[s].stage = "load"
        /\ \A t \in Slots \ {s} : slot'[t] = slot[t]
    <2>1. slot'[s] = [stage |-> "load", d |-> c, id |-> id, seen |-> 0, caught |-> FALSE, outlasted |-> {}]
      BY DEF Take, TypeOK
    <2>2. slot[s] = Free /\ slot'[s].stage = "load" /\ slot'[s].d = c /\ slot'[s] # Free
      BY <2>1 DEF Take, Free
    <2>3. \A t \in Slots \ {s} : slot'[t] = slot[t] BY DEF Take, TypeOK
    <2>4. QED BY <2>2, <2>3 DEF Working, On
  <1>2. UNCHANGED <<row, emitter, admin, posts>> /\ jobs[c][id] = "waiting" BY DEF Take
  <1>3. jobs' = [jobs EXCEPT ![c][id] = "active"] BY DEF Take
  <1>4. \A t \in Slots \ {s} : (Working(t)' <=> Working(t)) /\ On(t)' = On(t) /\ Same(d, t) BY <1>1, RoleKept
  <1>5. CASE d # c
    <2>1. jobs'[d] = jobs[d] BY <1>3, <1>5, JobSet
    <2>2. Served(d)' = Served(d) BY <1>1, <1>4, <1>5 DEF Served
    <2>3. \A t \in Served(d) : slot'[t] = slot[t] BY <1>1 DEF Served
    <2>4. Untouched(d) BY <1>2, <2>1, <2>2, <2>3 DEF Untouched
    <2>5. QED BY <2>4, UntouchedSteady
  <1>6. CASE d = c
    <2>1. Role(d, s) = "none" /\ Role(d, s)' = "load" BY <1>1, <1>6 DEF Role
    <2>2. Engaged(d)' = Engaged(d) \cup {s} BY <1>4, <2>1 DEF Engaged, Same
    <2>3. Queued(d)' = Queued(d) \ {id} /\ id \in Queued(d)
      <3>1. "active" \notin {"waiting", "delayed"} OBVIOUS
      <3>2. QED BY <1>2, <1>3, <1>6, <3>1, JobSet DEF Queued
    <2>4. Toks(d)' \subseteq (Toks(d) \ {JobTok(id)}) \cup {SlotTok(s)} /\ JobTok(id) \in Toks(d)
      BY <1>2, <2>2, <2>3 DEF Toks, Gather, SlotTok, JobTok, AdminTok, EmitTok
    <2>5. SlotTok(s) \in Toks(d)' BY <2>2, SlotTokensNext
    <2>6. Still(d) /\ admin'[d] = admin[d] BY <1>2 DEF Still
    <2>7. Changed(Toks(d), Toks(d)') BY <2>4, <2>5 DEF Changed
    <2>8. QED BY <1>4, <2>1, <2>4, <2>6, <2>7 DEF Steady
  <1>7. QED BY <1>5, <1>6

LEMMA LoadUndisturbed ==
  ASSUME TypeOK, NEW s \in Slots, Load(s), NEW d \in Deliveries
  PROVE  Undisturbed(d)
  <1>1. Working(s) /\ slot[s].stage = "load" /\ UNCHANGED <<row, jobs, emitter, admin, posts>> BY DEF Load, At
  <1>2. CASE Settled(On(s))
    <2>1. Goes(s, "end", slot[s].seen) BY <1>1, <1>2, MoveGoes DEF Load
    <2>2. Untouched(d) \/ Steady(d) BY <1>1, <2>1, Stops
    <2>3. QED BY <2>2, UntouchedSteady DEF Undisturbed
  <1>3. CASE ~Settled(On(s))
    <2> DEFINE n == row[On(s)].attempts
    <2>1. slot' = [slot EXCEPT ![s].stage = "post", ![s].seen = n] BY <1>3 DEF Load
    <2>2. Goes(s, "post", n) BY <1>1, <2>1, LoadGoes
    <2>3. CASE d # On(s)
      <3>1. Untouched(d) BY <1>1, <2>2, <2>3, GoesOthers
      <3>2. QED BY <3>1, UntouchedSteady DEF Undisturbed
    <2>4. CASE d = On(s)
      <3>1. Alike(d, s) /\ Role(d, s) = "load" /\ Role(d, s)' = "post" /\ slot'[s].seen = n
        BY <1>1, <2>2, <2>4, GoesRoles DEF RoleAt
      <3>2. Toks(d)' = Toks(d) BY <1>1, <2>2, <2>4, GoesOwn DEF RoleAt
      <3>3. Starts(d, s) BY <1>1, <1>3, <2>4, <3>1, <3>2 DEF Starts, Still, Made
      <3>4. QED BY <3>3 DEF Undisturbed
    <2>5. QED BY <2>3, <2>4
  <1>4. QED BY <1>2, <1>3

(* Each step of a slot, as one of the steps of each delivery. *)
Follow(d) ==
  \/ left' = left /\ Undisturbed(d)
  \/ left' = left - 1 /\ Disturbed(d)

LEMMA StopsFollow ==
  ASSUME TypeOK, NEW s \in Slots, Working(s), NEW stage \in {"end", "retry"}, Goes(s, stage, slot[s].seen),
         UNCHANGED <<row, posts, jobs, admin, emitter>>,
         stage = "retry" => RoleAt(slot[s].stage) \in {"sent", "add"}, NEW d \in Deliveries,
         \/ left' = left /\ ~Exists(On(s)) /\ slot[s].stage # "add"
         \/ left' = left - 1
  PROVE  Follow(d)
  <1>1. CASE d # On(s) BY <1>1, Stops, UntouchedSteady DEF Follow, Undisturbed, Disturbed
  <1>2. CASE d = On(s)
    <2>1. \/ Loses(d) /\ (~Exists(d) => Withers(d))
          \/ Retreats(d, s) /\ RoleAt(slot[s].stage) = "add"
      BY <1>2, Stops
    <2>2. RoleAt(slot[s].stage) = "add" => slot[s].stage = "add" BY DEF RoleAt
    <2>3. QED BY <1>2, <2>1, <2>2 DEF Follow, Undisturbed, Disturbed
  <1>3. QED BY <1>1, <1>2

LEMMA ErrorFollow ==
  ASSUME TypeOK, NEW s \in Slots, LoadError(s) \/ WriteError(s) \/ AddError(s), NEW d \in Deliveries
  PROVE  Follow(d)
  <1>1. CASE LoadError(s)
    <2>1. Working(s) /\ slot[s].stage # "add" /\ Move(s, "end") /\ UNCHANGED <<row, posts, jobs, admin, emitter>>
      BY <1>1 DEF LoadError, FailJob, At
    <2>2. (left' = left /\ ~Exists(On(s))) \/ left' = left - 1 BY <1>1 DEF LoadError, Fault, Disturb
    <2>3. Goes(s, "end", slot[s].seen) BY <2>1, MoveGoes
    <2>4. QED BY <2>1, <2>2, <2>3, StopsFollow
  <1>2. CASE WriteError(s)
    <2>1. Working(s) /\ slot[s].stage # "add" /\ RoleAt(slot[s].stage) = "sent" /\ Throw(s)
      BY <1>2 DEF WriteError, At, RoleAt
    <2>2. (left' = left /\ ~Exists(On(s))) \/ left' = left - 1 BY <1>2 DEF WriteError, Fault, Disturb
    <2>3. QED BY <2>1, <2>2, ThrowStops, StopsFollow
  <1>3. CASE AddError(s)
    <2>1. Working(s) /\ RoleAt(slot[s].stage) = "add" /\ Throw(s) BY <1>3 DEF AddError, At, RoleAt
    <2>2. left' = left - 1 BY <1>3 DEF AddError, Fault, Disturb
    <2>3. QED BY <2>1, <2>2, ThrowStops, StopsFollow
  <1>4. QED BY <1>1, <1>2, <1>3

LEMMA CrashFollow ==
  ASSUME TypeOK, NEW s \in Slots, WorkerCrash(s), NEW d \in Deliveries
  PROVE  Follow(d)
  <1>1. /\ Working(s) /\ slot' = [slot EXCEPT ![s] = Free] /\ UNCHANGED <<row, posts, admin, emitter>>
        /\ left' = left - 1
    BY DEF WorkerCrash, Fault, Disturb
  <1>2. PICK state \in {"kept", "waiting"} : jobs' = [jobs EXCEPT ![On(s)][slot[s].id] = state]
    BY DEF WorkerCrash
  <1>3. CASE d # On(s)
    <2>1. Untouched(d) BY <1>1, <1>2, <1>3, FreedOthers
    <2>2. QED BY <1>1, <2>1, UntouchedSteady DEF Follow, Disturbed
  <1>4. CASE d = On(s)
    <2>1. Loses(d) \/ \E u : GivesBack(d, s, u) \/ Gains(d, u) BY <1>1, <1>2, <1>4, FreedOwn
    <2>2. QED BY <1>1, <2>1 DEF Follow, Disturbed
  <1>5. QED BY <1>3, <1>4

LEMMA AttemptUndisturbed ==
  ASSUME TypeOK, AttemptsInv, NEW s \in Slots, NEW d \in Deliveries,
         Load(s) \/ Reject(s) \/ Accepted(s) \/ Refused(s) \/ Unreachable(s)
         \/ MarkDelivered(s) \/ Abandon(s) \/ MarkFailed(s) \/ AddRetry(s) \/ Return(s)
  PROVE  Undisturbed(d)
  <1>1. CASE Load(s) BY <1>1, LoadUndisturbed
  <1>2. CASE Reject(s)
    <2>1. RoleAt(slot[s].stage) = "post" /\ Working(s) BY <1>2 DEF Reject, At, RoleAt
    <2>2. QED BY <1>2, <2>1, WritesUndisturbed DEF Reject
  <1>3. CASE Accepted(s)
    <2>1. Working(s) /\ Post(s) BY <1>3 DEF Accepted, Post, At
    <2>2. QED BY <1>3, <2>1, MoveGoes, PostsUndisturbed DEF Accepted
  <1>4. CASE Refused(s)
    <2>1. Working(s) /\ Post(s) BY <1>4 DEF Refused, Post, At
    <2>2. QED BY <1>4, <2>1, MoveGoes, PostsUndisturbed DEF Refused
  <1>5. CASE Unreachable(s)
    <2>1. Working(s) /\ Post(s) BY <1>5 DEF Unreachable, Post, At
    <2>2. QED BY <1>5, <2>1, CatchGoes, PostsUndisturbed DEF Unreachable
  <1>6. CASE MarkDelivered(s)
    <2>1. RoleAt(slot[s].stage) = "sent" /\ Working(s) BY <1>6 DEF MarkDelivered, At, RoleAt
    <2>2. QED BY <1>6, <2>1, WritesUndisturbed DEF MarkDelivered
  <1>7. CASE Abandon(s)
    <2>1. RoleAt(slot[s].stage) = "sent" /\ Working(s) BY <1>7 DEF Abandon, At, RoleAt
    <2>2. QED BY <1>7, <2>1, WritesUndisturbed DEF Abandon
  <1>8. CASE MarkFailed(s)
    <2>1. RoleAt(slot[s].stage) = "sent" /\ Working(s) BY <1>8 DEF MarkFailed, At, RoleAt
    <2>2. Attempts(s) < MaxAttempts BY <1>8, <2>1, WorkTyped, DeliveryAssumption DEF MarkFailed, GivesUp
    <2>3. QED BY <1>8, <2>1, <2>2, WritesUndisturbed DEF MarkFailed
  <1>9. CASE AddRetry(s) BY <1>9, RetrySteady DEF Undisturbed
  <1>10. CASE Return(s)
    <2>1. /\ Working(s) /\ slot' = [slot EXCEPT ![s] = Free] /\ UNCHANGED <<row, posts, admin, emitter>>
          /\ jobs' = [jobs EXCEPT ![On(s)][slot[s].id] = "kept"] /\ slot[s].stage = "end"
      BY <1>10 DEF Return, At
    <2>2. CASE d # On(s)
      <3>1. Untouched(d) BY <2>1, <2>2, FreedOthers
      <3>2. QED BY <3>1, UntouchedSteady DEF Undisturbed
    <2>3. CASE d = On(s) BY <2>1, <2>3, FreedOwn DEF Undisturbed
    <2>4. QED BY <2>2, <2>3
  <1>11. QED BY <1>1, <1>2, <1>3, <1>4, <1>5, <1>6, <1>7, <1>8, <1>9, <1>10

LEMMA HandlingFollow ==
  ASSUME TypeOK, AttemptsInv, NEW s \in Slots, Handling(s), NEW d \in Deliveries
  PROVE  Follow(d)
  <1>1. CASE \E c \in Deliveries, id \in Ids : Take(s, c, id)
    <2>1. left' = left BY <1>1 DEF Take
    <2>2. Steady(d) BY <1>1, TakeSteady
    <2>3. QED BY <2>1, <2>2 DEF Follow, Undisturbed
  <1>2. CASE Load(s) \/ Reject(s) \/ Accepted(s) \/ Refused(s) \/ Unreachable(s)
             \/ MarkDelivered(s) \/ Abandon(s) \/ MarkFailed(s) \/ AddRetry(s) \/ Return(s)
    <2>1. left' = left
      BY <1>2 DEF Load, Reject, Accepted, Refused, Unreachable, Post, MarkDelivered, Abandon, MarkFailed, AddRetry, Return
    <2>2. Undisturbed(d) BY <1>2, AttemptUndisturbed
    <2>3. QED BY <2>1, <2>2 DEF Follow
  <1>3. CASE LoadError(s) \/ WriteError(s) \/ AddError(s) BY <1>3, ErrorFollow
  <1>4. CASE WorkerCrash(s) BY <1>4, CrashFollow
  <1>5. QED BY <1>1, <1>2, <1>3, <1>4 DEF Handling, Attempt

(* The steps of the emitter, the operator and the customer leave the slots. *)
LEMMA SlotsKept ==
  ASSUME slot' = slot, NEW d
  PROVE  (\A s \in Slots : Same(d, s)) /\ Served(d)' = Served(d) /\ Engaged(d)' = Engaged(d)
  <1>1. \A s \in Slots : Same(d, s) /\ (Working(s)' <=> Working(s)) /\ On(s)' = On(s) BY RoleKept
  <1>2. QED BY <1>1 DEF Served, Engaged, Same

LEMMA KeptUntouched ==
  ASSUME slot' = slot, NEW d, row'[d] = row[d], posts'[d] = posts[d], jobs'[d] = jobs[d], admin'[d] = admin[d],
         d \in emitter'.todo <=> d \in emitter.todo, d \in emitter'.created <=> d \in emitter.created
  PROVE  Untouched(d)
  BY SlotsKept DEF Untouched, Served

LEMMA KeptSteady ==
  ASSUME slot' = slot, NEW d, row'[d] = row[d], posts'[d] = posts[d], admin'[d] # "none" => admin[d] # "none",
         d \in emitter'.todo <=> d \in emitter.todo, d \in emitter'.created => d \in emitter.created,
         Changed(Toks(d), Toks(d)')
  PROVE  Steady(d)
  BY SlotsKept DEF Steady, Still

(* Exchanging the token of a manual retry, or of the emitter, for a job's. *)
LEMMA NewJob ==
  ASSUME NEW d, NEW id, Engaged(d)' = Engaged(d), Queued(d)' \subseteq Queued(d) \cup {id},
         \/ admin[d] # "none" /\ admin'[d] = "none"
            /\ (d \in emitter'.todo \cup emitter'.created => d \in emitter.todo \cup emitter.created)
         \/ d \in emitter.todo \cup emitter.created /\ d \notin emitter'.todo \cup emitter'.created
            /\ (admin'[d] # "none" => admin[d] # "none")
  PROVE  Changed(Toks(d), Toks(d)' \cup {JobTok(id)})
  <1>1. CASE admin[d] # "none" /\ admin'[d] = "none"
    <2>1. AdminTok \in Toks(d) BY <1>1, AdminToken
    <2>2. Toks(d)' \cup {JobTok(id)} \subseteq (Toks(d) \ {AdminTok}) \cup {JobTok(id)}
      BY <1>1 DEF Toks, Gather, SlotTok, JobTok, AdminTok, EmitTok
    <2>3. QED BY <2>1, <2>2 DEF Changed
  <1>2. CASE /\ d \in emitter.todo \cup emitter.created /\ d \notin emitter'.todo \cup emitter'.created
             /\ admin'[d] # "none" => admin[d] # "none"
    <2>1. EmitTok \in Toks(d) BY <1>2 DEF Toks, Gather
    <2>2. Toks(d)' \cup {JobTok(id)} \subseteq (Toks(d) \ {EmitTok}) \cup {JobTok(id)}
      BY <1>2 DEF Toks, Gather, SlotTok, JobTok, AdminTok, EmitTok
    <2>3. QED BY <2>1, <2>2 DEF Changed
  <1>3. QED BY <1>1, <1>2

LEMMA ChangedPart ==
  ASSUME NEW S, NEW T, NEW u, Changed(S, T \cup {u})
  PROVE  Changed(S, T)
  BY DEF Changed

LEMMA AddedJob ==
  ASSUME TypeOK, NEW d \in Deliveries, NEW id \in Ids, NEW state \in {"waiting", "delayed"}, Add(d, id, state)
  PROVE  Queued(d)' \subseteq Queued(d) \cup {id}
  <1>1. CASE jobs[d][id] = "absent" BY <1>1, RetryJobs
  <1>2. CASE jobs[d][id] # "absent"
    <2>1. jobs'[d] = jobs[d] BY <1>2, RetryJobs
    <2>2. QED BY <2>1 DEF Queued
  <1>3. QED BY <1>1, <1>2

LEMMA TimeSteady ==
  ASSUME TypeOK, NEW c \in Deliveries, NEW id \in Ids, Promote(c, id) \/ Forget(c, id), NEW d \in Deliveries
  PROVE  Steady(d)
  <1>1. UNCHANGED <<row, slot, emitter, admin, posts>> BY DEF Promote, Forget
  <1>2. CASE d # c
    <2>1. jobs'[d] = jobs[d] BY <1>2, JobSet DEF Promote, Forget
    <2>2. QED BY <1>1, <2>1, KeptUntouched, UntouchedSteady
  <1>3. CASE d = c
    <2>2. Queued(d)' \subseteq Queued(d)
      <3>1. CASE Promote(c, id)
        <4>1. Queued(c)' = Queued(c) \cup {id} /\ id \in Queued(c) BY <3>1, JobSet DEF Promote, Queued
        <4>2. QED BY <1>3, <4>1
      <3>2. CASE Forget(c, id)
        <4>1. "absent" \notin {"waiting", "delayed"} OBVIOUS
        <4>2. Queued(c)' = Queued(c) \ {id} BY <3>2, <4>1, JobSet DEF Forget
        <4>3. QED BY <1>3, <4>2
      <3>3. QED BY <3>1, <3>2
    <2>3. Toks(d)' \subseteq Toks(d) BY <1>1, <2>2, SlotsKept, TokensFewer
    <2>4. QED BY <1>1, <2>3, KeptSteady DEF Changed
  <1>4. QED BY <1>2, <1>3

LEMMA RequestsFollow ==
  ASSUME TypeOK, ReplaysInv, NEW c \in Deliveries, Requests(c), NEW d \in Deliveries
  PROVE  Follow(d)
  <1>0. ASSUME d # c, UNCHANGED <<slot, posts, emitter>>, row'[d] = row[d], jobs'[d] = jobs[d], admin'[d] = admin[d],
               left' = left \/ left' = left - 1
        PROVE  Follow(d)
    BY <1>0, KeptUntouched, UntouchedSteady DEF Follow, Undisturbed, Disturbed
  <1>1. ASSUME NEW id \in Ids, Promote(c, id) \/ Forget(c, id) PROVE Follow(d)
    <2>1. Steady(d) BY <1>1, TimeSteady
    <2>2. left' = left BY <1>1 DEF Promote, Forget
    <2>3. QED BY <2>1, <2>2 DEF Follow, Undisturbed
  <1>2. CASE RetryRead(c)
    <2>1. UNCHANGED <<row, jobs, slot, emitter, posts>> /\ left' = left - 1 BY <1>2 DEF RetryRead, Disturb
    <2>2. CASE d # c BY <1>0, <1>2, <2>1, <2>2 DEF RetryRead, TypeOK
    <2>3. CASE d = c
      <3>1. Toks(d)' \subseteq Toks(d) \cup {AdminTok} BY <2>1, SlotsKept DEF Toks, Gather, Queued
      <3>2. Exists(d) BY <1>2, <2>3 DEF RetryRead
      <3>3. Gains(d, AdminTok) BY <2>1, <3>1, <3>2, SlotsKept DEF Gains, Still, Same
      <3>4. QED BY <2>1, <3>3 DEF Follow, Disturbed
    <2>4. QED BY <2>2, <2>3
  <1>3. CASE RetryWrite(c)
    <2>1. UNCHANGED <<jobs, slot, emitter, posts, left>> /\ admin[c] = "read" BY <1>3 DEF RetryWrite
    <2>2. CASE d # c
      <3>1. row'[d] = row[d] BY <1>3, <2>2, PendingRow DEF RetryWrite
      <3>2. admin'[d] = admin[d] BY <1>3, <2>2 DEF RetryWrite, TypeOK
      <3>3. QED BY <1>0, <2>1, <2>2, <3>1, <3>2
    <2>3. CASE d = c /\ Exists(c)
      <3>1. row'[d] = [status |-> "pending", attempts |-> row[d].attempts] BY <1>3, <2>3, PendingRow DEF RetryWrite
      <3>2. admin'[d] = "written" BY <1>3, <2>3 DEF RetryWrite, TypeOK
      <3>3. Exists(d)' /\ Made(d)' = Made(d) BY <3>1 DEF Exists, Made
      <3>4. Toks(d)' = Toks(d) BY <2>1, <2>3, <3>2, SlotsKept DEF Toks, Gather, Queued
      <3>5. Reopens(d) BY <2>1, <2>3, <3>3, <3>4, SlotsKept DEF Reopens, Aside
      <3>6. QED BY <2>1, <3>5 DEF Follow, Undisturbed
    <2>4. CASE d = c /\ ~Exists(c)
      <3>1. admin'[d] = "none" /\ row' = row BY <1>3, <2>4 DEF RetryWrite, TypeOK
      <3>2. Queued(d)' = Queued(d) BY <2>1 DEF Queued
      <3>3. Toks(d)' \subseteq Toks(d) BY <2>1, <3>1, <3>2, SlotsKept, TokensFewer
      <3>4. Steady(d) BY <2>1, <3>1, <3>3, KeptSteady DEF Changed
      <3>5. QED BY <2>1, <3>4 DEF Follow, Undisturbed
    <2>5. QED BY <2>2, <2>3, <2>4
  <1>4. CASE RetryAdd(c)
    <2> DEFINE id == AdminId(replays - 1)
    <2>1. UNCHANGED <<row, slot, emitter, posts>> /\ admin[c] = "written" BY <1>4 DEF RetryAdd
    <2>2. id \in Ids BY <2>1, AdminIdTyped
    <2> HIDE DEF id
    <2>3. (Add(c, id, "waiting") /\ left' = left) \/ (jobs' = jobs /\ left' = left - 1)
      BY <1>4 DEF RetryAdd, id, Fault, Disturb
    <2>4. CASE d # c
      <3>1. jobs'[d] = jobs[d] BY <2>2, <2>3, <2>4, RetryJobs
      <3>2. admin'[d] = admin[d] BY <1>4, <2>4 DEF RetryAdd, TypeOK
      <3>3. QED BY <1>0, <2>1, <2>3, <2>4, <3>1, <3>2
    <2>5. CASE d = c
      <3>1. admin[d] # "none" /\ admin'[d] = "none" BY <1>4, <2>1, <2>5 DEF RetryAdd, TypeOK
      <3>2. CASE Add(c, id, "waiting") /\ left' = left
        <4>1. Queued(d)' \subseteq Queued(d) \cup {id} BY <2>2, <2>5, <3>2, AddedJob
        <4>2. Changed(Toks(d), Toks(d)' \cup {JobTok(id)}) BY <2>1, <3>1, <4>1, SlotsKept, NewJob
        <4>3. Changed(Toks(d), Toks(d)') BY <4>2, ChangedPart
        <4>4. Steady(d) BY <2>1, <3>1, <4>3, KeptSteady
        <4>5. QED BY <3>2, <4>4 DEF Follow, Undisturbed
      <3>3. CASE jobs' = jobs /\ left' = left - 1
        <4>1. Queued(d)' = Queued(d) BY <3>3 DEF Queued
        <4>2. Toks(d)' \subseteq Toks(d) BY <2>1, <3>1, <4>1, SlotsKept, TokensFewer
        <4>3. Loses(d) BY <2>1, <4>2, SlotsKept DEF Loses, Still
        <4>4. QED BY <3>3, <4>3 DEF Follow, Disturbed
      <3>4. QED BY <2>3, <3>2, <3>3
    <2>6. QED BY <2>4, <2>5
  <1>5. CASE RemoveEndpoint(c)
    <2>1. UNCHANGED <<jobs, slot, emitter, admin, posts, left>> /\ Exists(c) BY <1>5 DEF RemoveEndpoint
    <2>2. CASE d # c BY <1>0, <1>5, <2>1, <2>2 DEF RemoveEndpoint, TypeOK
    <2>3. CASE d = c
      <3>1. ~Exists(d)' BY <1>5, <2>3 DEF RemoveEndpoint, TypeOK, Exists
      <3>2. Toks(d)' = Toks(d) BY <2>1, SlotsKept, TokensSame
      <3>3. Removes(d) BY <2>1, <2>3, <3>1, <3>2, SlotsKept DEF Removes, Aside
      <3>4. QED BY <2>1, <3>3 DEF Follow, Undisturbed
    <2>4. QED BY <2>2, <2>3
  <1>6. QED BY <1>1, <1>2, <1>3, <1>4, <1>5 DEF Requests, Retry

(* The emitter. *)
LEMMA EmitterWrites ==
  ASSUME TypeOK, NEW T, NEW C, emitter' = [emitter EXCEPT !.todo = T, !.created = C]
  PROVE  emitter'.todo = T /\ emitter'.created = C
  <1>1. emitter \in EmitterSet BY DEF TypeOK, EmitterSet
  <1>2. emitter' = [format |-> emitter.format, todo |-> T, created |-> C] BY <1>1 DEF EmitterSet
  <1>3. QED BY <1>2

LEMMA CreateUndisturbed ==
  ASSUME TypeOK, AttemptsInv, NEW c \in Deliveries, CreateRow(c), NEW d \in Deliveries
  PROVE  Undisturbed(d)
  <1>1. UNCHANGED <<jobs, slot, admin, posts>> /\ c \in emitter.todo /\ emitter.created = {} BY DEF CreateRow
  <1>2. emitter'.todo = emitter.todo \ {c} /\ emitter'.created = {c}
    <2>1. emitter' = [emitter EXCEPT !.todo = emitter.todo \ {c}, !.created = {c}] BY DEF CreateRow
    <2>2. QED BY <2>1, EmitterWrites
  <1>3. CASE d # c
    <2>1. row'[d] = row[d] BY <1>3, PendingRow DEF CreateRow
    <2>2. QED BY <1>1, <1>2, <1>3, <2>1, KeptUntouched, UntouchedSteady DEF Undisturbed
  <1>4. CASE d = c
    <2>1. row'[d] = [status |-> "pending", attempts |-> row[d].attempts] BY <1>4, PendingRow DEF CreateRow
    <2>2. row[d].attempts = 0 BY <1>1, <1>4 DEF AttemptsInv
    <2>3. Exists(d)' /\ Made(d)' = 0 BY <2>1, <2>2 DEF Exists, Made
    <2>4. Toks(d)' = Toks(d) BY <1>1, <1>2, <1>4, SlotsKept, TokensSame
    <2>5. Opens(d) BY <1>1, <1>2, <1>4, <2>3, <2>4, SlotsKept DEF Opens, Aside
    <2>6. QED BY <2>5 DEF Undisturbed
  <1>5. QED BY <1>3, <1>4

(* A first job is only added for a row that was created. *)
LEMMA FirstSteady ==
  ASSUME TypeOK, NEW c \in Deliveries, AddFirst(c), NEW d \in Deliveries,
         d \in emitter.todo => d \notin emitter.created
  PROVE  Steady(d)
  <1>1. UNCHANGED <<row, slot, admin, posts>> /\ c \in emitter.created /\ Add(c, First, "waiting") BY DEF AddFirst
  <1>2. emitter'.todo = emitter.todo /\ emitter'.created = {}
    <2>1. emitter \in EmitterSet BY DEF TypeOK, EmitterSet
    <2>2. emitter' = [emitter EXCEPT !.created = {}] BY DEF AddFirst
    <2>3. QED BY <2>1, <2>2 DEF EmitterSet
  <1>3. CASE d # c
    <2>1. jobs'[d] = jobs[d] BY <1>1, <1>3, FirstIsId, RetryJobs
    <2>2. Queued(d)' = Queued(d) BY <2>1 DEF Queued
    <2>3. Toks(d)' \subseteq Toks(d) BY <1>1, <1>2, <2>2, SlotsKept, TokensFewer
    <2>4. QED BY <1>1, <1>2, <2>3, KeptSteady DEF Changed
  <1>4. CASE d = c
    <2>1. Queued(d)' \subseteq Queued(d) \cup {First} BY <1>1, <1>4, FirstIsId, AddedJob
    <2>2. Changed(Toks(d), Toks(d)' \cup {JobTok(First)}) BY <1>1, <1>2, <1>4, <2>1, SlotsKept, NewJob
    <2>3. Changed(Toks(d), Toks(d)') BY <2>2, ChangedPart
    <2>4. QED BY <1>1, <1>2, <2>3, KeptSteady
  <1>5. QED BY <1>3, <1>4

LEMMA StopDisturbed ==
  ASSUME UNCHANGED <<row, jobs, slot, admin, posts>>, emitter'.todo \subseteq emitter.todo, emitter'.created = {},
         NEW d \in Deliveries
  PROVE  Disturbed(d)
  <1>1. CASE d \in emitter.todo /\ d \notin emitter'.todo BY <1>1, SlotsKept DEF Leaves, Disturbed
  <1>2. CASE d \in emitter'.todo <=> d \in emitter.todo
    <2>1. Queued(d)' = Queued(d) BY DEF Queued
    <2>2. Toks(d)' \subseteq Toks(d) BY <1>2, <2>1, SlotsKept, TokensFewer
    <2>3. Loses(d) BY <1>2, <2>2, SlotsKept DEF Loses, Still
    <2>4. QED BY <2>3 DEF Disturbed
  <1>3. QED BY <1>1, <1>2

LEMMA EmittingFollow ==
  ASSUME TypeOK, AttemptsInv, Emit \/ EmitError \/ EmitterCrash \/ UNCHANGED vars, NEW d \in Deliveries,
         d \in emitter.todo => d \notin emitter.created
  PROVE  Follow(d)
  <1>1. CASE Emit
    <2>1. PICK c \in Deliveries : CreateRow(c) \/ AddFirst(c) BY <1>1 DEF Emit
    <2>2. left' = left BY <2>1 DEF CreateRow, AddFirst
    <2>3. Undisturbed(d) BY <2>1, CreateUndisturbed, FirstSteady DEF Undisturbed
    <2>4. QED BY <2>2, <2>3 DEF Follow
  <1>2. CASE EmitError
    <2>1. UNCHANGED <<row, jobs, slot, admin, posts>> /\ left' = left - 1 BY <1>2 DEF EmitError, Fault, Disturb
    <2>2. \E e : emitter' = [emitter EXCEPT !.todo = IF emitter.format = "standard" THEN emitter.todo \ {e} ELSE {},
                                           !.created = {}]
      BY <1>2 DEF EmitError
    <2>3. PICK e : emitter' = [emitter EXCEPT
                     !.todo = IF emitter.format = "standard" THEN emitter.todo \ {e} ELSE {}, !.created = {}]
      BY <2>2
    <2> DEFINE T == IF emitter.format = "standard" THEN emitter.todo \ {e} ELSE {}
    <2>4. T \subseteq emitter.todo OBVIOUS
    <2>5. emitter' = [emitter EXCEPT !.todo = T, !.created = {}] BY <2>3
    <2> HIDE DEF T
    <2>6. emitter'.todo = T /\ emitter'.created = {} BY <2>5, EmitterWrites
    <2>7. Disturbed(d) BY <2>1, <2>4, <2>6, StopDisturbed
    <2>8. QED BY <2>1, <2>7 DEF Follow
  <1>3. CASE EmitterCrash
    <2>1. UNCHANGED <<row, jobs, slot, admin, posts>> /\ left' = left - 1 BY <1>3 DEF EmitterCrash, Fault, Disturb
    <2>2. emitter' = [emitter EXCEPT !.todo = {}, !.created = {}] BY <1>3 DEF EmitterCrash
    <2>3. emitter'.todo = {} /\ emitter'.created = {} BY <2>2, EmitterWrites
    <2>4. Disturbed(d) BY <2>1, <2>3, StopDisturbed
    <2>5. QED BY <2>1, <2>4 DEF Follow
  <1>4. CASE UNCHANGED vars
    <2>1. Untouched(d) BY <1>4, KeptUntouched DEF vars
    <2>2. Steady(d) BY <2>1, UntouchedSteady
    <2>3. left' = left BY <1>4 DEF vars
    <2>4. QED BY <2>2, <2>3 DEF Follow, Undisturbed
  <1>5. QED BY <1>1, <1>2, <1>3, <1>4

LEMMA StepFollow ==
  ASSUME TypeOK, AttemptsInv, ReplaysInv, [Next]_vars, NEW d \in Deliveries,
         d \in emitter.todo => d \notin emitter.created
  PROVE  Follow(d)
  BY StepCases, HandlingFollow, RequestsFollow, EmittingFollow
-----------------------------------------------------------------------------
(* A slot's job stays active while the slot has it. *)
Mine(s) == jobs[On(s)][slot[s].id] = "active"
Alone(s) == \A r \in Slots \ {s} : Working(r) => On(r) # On(s) \/ slot[r].id # slot[s].id

LEMMA HeldAlone ==
  ASSUME Held, NEW s \in Slots, Working(s)
  PROVE  Mine(s) /\ Alone(s)
  BY DEF Held, Mine, Alone

(* The slots keep the jobs they have, and what is active stays so. *)
Keeps ==
  /\ \A s \in Slots : Working(s)' => Working(s) /\ On(s)' = On(s) /\ slot'[s].id = slot[s].id
  /\ \A d \in Deliveries, id \in Ids : jobs[d][id] = "active" => jobs'[d][id] = "active"

LEMMA KeepsHeld ==
  ASSUME TypeOK, Held, Keeps
  PROVE  Held'
  BY WorkTyped DEF Held, Keeps

LEMMA GoesKeeps ==
  ASSUME TypeOK, NEW s \in Slots, NEW stage, NEW seen, Goes(s, stage, seen), jobs' = jobs
  PROVE  Keeps
  <1>1. \A t \in Slots \ {s} : (Working(t)' <=> Working(t)) /\ On(t)' = On(t) /\ slot'[t].id = slot[t].id
    BY RoleKept DEF Goes
  <1>2. QED BY <1>1 DEF Keeps, Goes, On

LEMMA FreedHeld ==
  ASSUME TypeOK, Held, NEW s \in Slots, Working(s), slot' = [slot EXCEPT ![s] = Free], NEW state,
         jobs' = [jobs EXCEPT ![On(s)][slot[s].id] = state]
  PROVE  Held'
  <1>1. slot'[s] = Free /\ \A t \in Slots \ {s} : slot'[t] = slot[t] BY DEF TypeOK
  <1>2. ~Working(s)' BY <1>1 DEF Working
  <1>3. \A t \in Slots \ {s} : (Working(t)' <=> Working(t)) /\ On(t)' = On(t) /\ slot'[t].id = slot[t].id
    BY <1>1, RoleKept
  <1>4. ASSUME NEW t \in Slots \ {s}, Working(t) PROVE jobs'[On(t)][slot[t].id] = "active"
    <2>1. Mine(t) /\ (On(s) # On(t) \/ slot[s].id # slot[t].id) BY <1>4, HeldAlone DEF Alone
    <2>2. On(t) \in Deliveries /\ slot[t].id \in Ids /\ On(s) \in Deliveries /\ slot[s].id \in Ids BY <1>4, WorkTyped
    <2>3. jobs'[On(t)][slot[t].id] = jobs[On(t)][slot[t].id] BY <2>1, <2>2, JobSet
    <2>4. QED BY <2>1, <2>3 DEF Mine
  <1>5. QED BY <1>2, <1>3, <1>4 DEF Held

LEMMA TakeHeld ==
  ASSUME TypeOK, Held, NEW s \in Slots, NEW c \in Deliveries, NEW id \in Ids, Take(s, c, id)
  PROVE  Held'
  <1>1. /\ On(s)' = c /\ slot'[s].id = id /\ \A t \in Slots \ {s} : slot'[t] = slot[t]
    <2>1. slot'[s] = [stage |-> "load", d |-> c, id |-> id, seen |-> 0, caught |-> FALSE, outlasted |-> {}]
      BY DEF Take, TypeOK
    <2>2. QED BY <2>1 DEF Take, TypeOK, On
  <1>2. jobs[c][id] = "waiting" /\ jobs' = [jobs EXCEPT ![c][id] = "active"] BY DEF Take
  <1>3. \A t \in Slots \ {s} : (Working(t)' <=> Working(t)) /\ On(t)' = On(t) /\ slot'[t].id = slot[t].id
    BY <1>1, RoleKept
  <1>4. ASSUME NEW t \in Slots \ {s}, Working(t)
        PROVE jobs'[On(t)][slot[t].id] = "active" /\ (On(t) # c \/ slot[t].id # id)
    <2>1. Mine(t) BY <1>4, HeldAlone
    <2>2. On(t) # c \/ slot[t].id # id BY <1>2, <2>1 DEF Mine
    <2>3. On(t) \in Deliveries /\ slot[t].id \in Ids BY <1>4, WorkTyped
    <2>4. jobs'[On(t)][slot[t].id] = jobs[On(t)][slot[t].id] BY <1>2, <2>2, <2>3, JobSet
    <2>5. QED BY <2>1, <2>2, <2>4 DEF Mine
  <1>5. jobs'[c][id] = "active" BY <1>2 DEF TypeOK
  <1>6. ASSUME NEW t \in Slots, Working(t)' PROVE jobs'[On(t)'][slot'[t].id] = "active"
    BY <1>1, <1>3, <1>4, <1>5, <1>6
  <1>7. ASSUME NEW t \in Slots, Working(t)', NEW r \in Slots \ {t}, Working(r)'
        PROVE On(r)' # On(t)' \/ slot'[r].id # slot'[t].id
    <2>1. CASE t = s \/ r = s BY <1>1, <1>3, <1>4, <1>7, <2>1
    <2>2. CASE t # s /\ r # s
      <3>1. Alone(t) BY <1>3, <1>7, <2>2, HeldAlone
      <3>2. QED BY <1>3, <1>7, <2>2, <3>1 DEF Alone
    <2>3. QED BY <2>1, <2>2
  <1>8. QED BY <1>6, <1>7 DEF Held

(* What a slot may do: it goes on, adds a retry, takes a job or is freed. *)
Frees(s) ==
  /\ Working(s) /\ slot' = [slot EXCEPT ![s] = Free]
  /\ \E state : jobs' = [jobs EXCEPT ![On(s)][slot[s].id] = state]

LEMMA HandlingGoes ==
  ASSUME TypeOK, NEW s \in Slots, Handling(s)
  PROVE  \/ \E stage, seen : Goes(s, stage, seen) /\ jobs' = jobs
         \/ AddRetry(s) \/ Frees(s)
         \/ \E c \in Deliveries, id \in Ids : Take(s, c, id)
  <1> DEFINE G == \E stage, seen : Goes(s, stage, seen) /\ jobs' = jobs
  <1>0. ASSUME Working(s), jobs' = jobs, NEW stage, Move(s, stage) PROVE G BY <1>0, MoveGoes
  <1>1. CASE Load(s)
    <2>1. Working(s) /\ jobs' = jobs BY <1>1 DEF Load, At
    <2>2. CASE Settled(On(s)) BY <1>0, <1>1, <2>1, <2>2 DEF Load
    <2>3. CASE ~Settled(On(s))
      <3>1. slot' = [slot EXCEPT ![s].stage = "post", ![s].seen = row[On(s)].attempts] BY <1>1, <2>3 DEF Load
      <3>2. QED BY <2>1, <3>1, LoadGoes
    <2>4. QED BY <2>2, <2>3
  <1>2. CASE Reject(s) BY <1>0, <1>2 DEF Reject, At
  <1>3. CASE Accepted(s) BY <1>0, <1>3 DEF Accepted, Post, At
  <1>4. CASE Refused(s) BY <1>0, <1>4 DEF Refused, Post, At
  <1>5. CASE Unreachable(s)
    <2>1. Working(s) /\ jobs' = jobs /\ slot' = [slot EXCEPT ![s].stage = "retry", ![s].caught = TRUE]
      BY <1>5 DEF Unreachable, Post, At
    <2>2. QED BY <2>1, CatchGoes
  <1>6. CASE MarkDelivered(s) BY <1>0, <1>6 DEF MarkDelivered, At
  <1>7. CASE Abandon(s) BY <1>0, <1>7 DEF Abandon, At
  <1>8. CASE MarkFailed(s) BY <1>0, <1>8 DEF MarkFailed, At
  <1>9. CASE LoadError(s) BY <1>0, <1>9 DEF LoadError, FailJob, At
  <1>10. CASE WriteError(s) \/ AddError(s)
    <2>1. Working(s) /\ jobs' = jobs /\ Throw(s) BY <1>10 DEF WriteError, AddError, Throw, At
    <2>2. CASE slot[s].caught BY <1>0, <2>1, <2>2 DEF Throw, FailJob
    <2>3. CASE ~slot[s].caught BY <2>1, <2>3, CatchGoes DEF Throw
    <2>4. QED BY <2>2, <2>3
  <1>11. CASE Return(s) \/ WorkerCrash(s) BY <1>11 DEF Return, WorkerCrash, At, Frees
  <1>12. QED
    BY <1>1, <1>2, <1>3, <1>4, <1>5, <1>6, <1>7, <1>8, <1>9, <1>10, <1>11 DEF Handling, Attempt

(* Adding a job disturbs none that is there. *)
LEMMA AddKeeps ==
  ASSUME TypeOK, NEW c \in Deliveries, NEW n \in Ids, NEW state \in {"waiting", "delayed"}, Add(c, n, state),
         NEW d \in Deliveries, NEW id \in Ids, jobs[d][id] # "absent"
  PROVE  jobs'[d][id] = jobs[d][id]
  <1>1. CASE d # c BY <1>1, RetryJobs
  <1>2. CASE d = c /\ id # n BY <1>2, RetryJobs
  <1>3. CASE d = c /\ id = n BY <1>3, RetryJobs
  <1>4. QED BY <1>1, <1>2, <1>3

LEMMA AddRetryKeeps ==
  ASSUME TypeOK, AttemptsInv, NEW s \in Slots, AddRetry(s)
  PROVE  Keeps
  <1>1. At(s, "add") /\ Add(On(s), RetryId(s), "delayed") BY DEF AddRetry
  <1>2. On(s) \in Deliveries /\ RetryId(s) \in Ids BY <1>1, RetryIdTyped, WorkTyped DEF At
  <1>3. \A d \in Deliveries, id \in Ids : jobs[d][id] = "active" => jobs'[d][id] = "active" BY <1>1, <1>2, AddKeeps
  <1>4. ASSUME NEW t \in Slots, Working(t) PROVE slot'[t].id = slot[t].id
    <2>1. slot[t] \in Work BY <1>4, WorkTyped
    <2> DEFINE begun == IF jobs[On(s)][RetryId(s)] = "absent" THEN {RetryId(s)} ELSE {}
    <2>2. \/ slot'[t] = slot[t]
          \/ slot'[t] = [slot[t] EXCEPT !.stage = "end"]
          \/ slot'[t] = [slot[t] EXCEPT !.outlasted = @ \cup begun]
      BY DEF AddRetry
    <2> HIDE DEF begun
    <2>3. QED BY <2>1, <2>2 DEF Work
  <1>5. QED BY <1>3, <1>4, RetrySlots DEF Keeps

LEMMA HandlingHeld ==
  ASSUME TypeOK, AttemptsInv, Held, NEW s \in Slots, Handling(s)
  PROVE  Held'
  BY HandlingGoes, GoesKeeps, AddRetryKeeps, KeepsHeld, TakeHeld, FreedHeld DEF Frees

LEMMA OtherKeeps ==
  ASSUME TypeOK, ReplaysInv,
         Emit \/ EmitError \/ EmitterCrash \/ UNCHANGED vars \/ \E c \in Deliveries : Requests(c)
  PROVE  Keeps
  <1>1. slot' = slot
    BY DEF Emit, CreateRow, AddFirst, EmitError, EmitterCrash, vars, Requests, Promote, Forget, RetryRead, Retry, RetryWrite,
           RetryAdd, RemoveEndpoint
  <1>2. ASSUME NEW d \in Deliveries, NEW id \in Ids, jobs[d][id] = "active" PROVE jobs'[d][id] = "active"
    <2>1. ASSUME NEW c \in Deliveries, NEW n \in Ids, Promote(c, n) \/ Forget(c, n) PROVE jobs'[d][id] = "active"
      <3>1. d # c \/ id # n BY <1>2, <2>1 DEF Promote, Forget
      <3>2. QED BY <1>2, <2>1, <3>1, JobSet DEF Promote, Forget
    <2>2. ASSUME NEW c \in Deliveries, AddFirst(c) PROVE jobs'[d][id] = "active"
      BY <1>2, <2>2, AddKeeps, FirstIsId DEF AddFirst
    <2>3. ASSUME NEW c \in Deliveries, RetryAdd(c) PROVE jobs'[d][id] = "active"
      <3>1. AdminId(replays - 1) \in Ids BY <2>3, AdminIdTyped DEF RetryAdd
      <3>2. QED BY <1>2, <2>3, <3>1, AddKeeps DEF RetryAdd
    <2>4. CASE jobs' = jobs BY <1>2, <2>4
    <2>5. QED
      BY <2>1, <2>2, <2>3, <2>4
      DEF Emit, CreateRow, EmitError, EmitterCrash, vars, Requests, RetryRead, Retry, RetryWrite, RemoveEndpoint
  <1>3. QED BY <1>1, <1>2, RoleKept DEF Keeps

LEMMA HeldStep ==
  ASSUME TypeOK, AttemptsInv, ReplaysInv, Held, [Next]_vars
  PROVE  Held'
  BY StepCases, HandlingHeld, OtherKeeps, KeepsHeld

(* A delay that outlasts the attempts under way is not over before they are. *)
LEMMA OutlastedStays ==
  ASSUME TypeOK, AttemptsInv, [Next]_vars, NEW s \in Slots, Working(s), Working(s)'
  PROVE  slot[s].outlasted \subseteq slot'[s].outlasted
  <1>1. CASE slot'[s] = slot[s] BY <1>1
  <1>2. ASSUME NEW t \in Slots, Handling(t) PROVE slot[s].outlasted \subseteq slot'[s].outlasted
    <2>1. CASE \E stage, seen : Goes(t, stage, seen) BY <2>1 DEF Goes
    <2>2. CASE AddRetry(t)
      <3>1. CASE s = t
        <4>1. slot[s] \in Work BY WorkTyped
        <4>2. slot'[s] = [slot[s] EXCEPT !.stage = "end"] BY <2>2, <3>1 DEF AddRetry
        <4>3. QED BY <4>1, <4>2 DEF Work
      <3>2. CASE s # t BY <1>1, <2>2, <3>2, RetrySlots
      <3>3. QED BY <3>1, <3>2
    <2>3. CASE Frees(t)
      <3>1. slot' = [slot EXCEPT ![t] = Free] BY <2>3 DEF Frees
      <3>2. s # t => slot'[s] = slot[s] BY <3>1 DEF TypeOK
      <3>3. s # t BY <3>1 DEF TypeOK, Working
      <3>4. QED BY <3>2, <3>3
    <2>4. CASE \E c \in Deliveries, id \in Ids : Take(t, c, id)
      <3>1. s # t BY <2>4 DEF Take, Working
      <3>2. slot'[s] = slot[s] BY <2>4, <3>1 DEF Take, TypeOK
      <3>3. QED BY <3>2
    <2>5. QED BY <1>2, <2>1, <2>2, <2>3, <2>4, HandlingGoes
  <1>3. CASE Emit \/ EmitError \/ EmitterCrash \/ UNCHANGED vars \/ \E c \in Deliveries : Requests(c)
    <2>1. slot' = slot
      BY <1>3 DEF Emit, CreateRow, AddFirst, EmitError, EmitterCrash, vars, Requests, Promote, Forget, RetryRead, Retry,
                  RetryWrite, RetryAdd, RemoveEndpoint
    <2>2. QED BY <2>1
  <1>4. QED BY <1>2, <1>3, StepCases

LEMMA DelayedStays ==
  ASSUME TypeOK, AttemptsInv, ReplaysInv, Held, ~SlowAttempts, [Next]_vars,
         NEW s \in Slots, Working(s), NEW id \in Ids, id \in slot[s].outlasted,
         NEW d \in Deliveries, d = On(s), jobs[d][id] = "delayed"
  PROVE  jobs'[d][id] = "delayed"
  <1>1. ASSUME NEW t \in Slots, Handling(t) PROVE jobs'[d][id] = "delayed"
    <2>1. CASE jobs' = jobs BY <2>1
    <2>2. CASE AddRetry(t)
      <3>1. At(t, "add") /\ Add(On(t), RetryId(t), "delayed") BY <2>2 DEF AddRetry
      <3>2. On(t) \in Deliveries /\ RetryId(t) \in Ids BY <3>1, RetryIdTyped, WorkTyped DEF At
      <3>3. QED BY <3>1, <3>2, AddKeeps
    <2>3. CASE Frees(t)
      <3>1. On(t) \in Deliveries /\ slot[t].id \in Ids BY <2>3, WorkTyped DEF Frees
      <3>2. Mine(t) BY <2>3, HeldAlone DEF Frees
      <3>3. On(t) # d \/ slot[t].id # id BY <3>2 DEF Mine
      <3>4. QED BY <2>3, <3>1, <3>3, JobSet DEF Frees
    <2>4. ASSUME NEW c \in Deliveries, NEW n \in Ids, Take(t, c, n) PROVE jobs'[d][id] = "delayed"
      <3>1. c # d \/ n # id BY <2>4 DEF Take
      <3>2. QED BY <2>4, <3>1, JobSet DEF Take
    <2>5. QED BY <1>1, <2>1, <2>2, <2>3, <2>4, HandlingGoes
  <1>2. ASSUME NEW c \in Deliveries, NEW n \in Ids, Promote(c, n) \/ Forget(c, n) PROVE jobs'[d][id] = "delayed"
    <2>1. c # d \/ n # id BY <1>2 DEF Promote, Forget
    <2>2. QED BY <1>2, <2>1, JobSet DEF Promote, Forget
  <1>3. ASSUME NEW c \in Deliveries, AddFirst(c) PROVE jobs'[d][id] = "delayed"
    BY <1>3, AddKeeps, FirstIsId DEF AddFirst
  <1>4. ASSUME NEW c \in Deliveries, RetryAdd(c) PROVE jobs'[d][id] = "delayed"
    <2>1. AdminId(replays - 1) \in Ids BY <1>4, AdminIdTyped DEF RetryAdd
    <2>2. QED BY <1>4, <2>1, AddKeeps DEF RetryAdd
  <1>5. CASE jobs' = jobs BY <1>5
  <1>6. CASE Emit \/ EmitError \/ EmitterCrash \/ UNCHANGED vars
    BY <1>3, <1>5, <1>6 DEF Emit, CreateRow, EmitError, EmitterCrash, vars
  <1>7. CASE \E c \in Deliveries : Requests(c)
    BY <1>2, <1>4, <1>5, <1>7 DEF Requests, RetryRead, Retry, RetryWrite, RemoveEndpoint
  <1>8. QED BY <1>1, <1>6, <1>7, StepCases

LEMMA OutlastingStep ==
  ASSUME TypeOK, AttemptsInv, ReplaysInv, Held, ~SlowAttempts, [Next]_vars, NEW d \in Deliveries
  PROVE  Outlasting(d)
  <1> SUFFICES ASSUME NEW s \in Engaged(d), NEW id \in Ids, jobs[d][id] = "delayed", id \in slot[s].outlasted
               PROVE  jobs'[d][id] = "delayed" /\ (Role(d, s)' # "none" => id \in slot'[s].outlasted)
    BY DEF Outlasting
  <1>1. s \in Slots /\ Working(s) /\ On(s) = d BY DEF Engaged, Role
  <1>2. jobs'[d][id] = "delayed" BY <1>1, DelayedStays
  <1>3. Role(d, s)' # "none" => Working(s)' BY DEF Role
  <1>4. QED BY <1>1, <1>2, <1>3, OutlastedStays
-----------------------------------------------------------------------------
LEMMA CalmEarly ==
  ASSUME TypeOK', NEW d \in Deliveries, Calm(d)', Exists(d)' \/ Waiting(d)', Made(d)' <= MaxAttempts
  PROVE  Early(d)'
  <1>0. \A s \in Sending(d)' \cup Sent(d)' : SlotTok(s) \in Toks(d)'
    BY SlotTokensNext DEF Sending, Sent, Engaged
  <1>1. CASE Waiting(d)'
    <2>1. Sending(d)' = {} BY <1>0, <1>1, Differ DEF Waiting
    <2>2. QED BY <1>1, <2>1, DeliveryAssumption DEF Waiting, Early
  <1>2. CASE Fresh(d)'
    <2>1. posts'[d] \in Nat /\ Made(d)' \in Nat /\ MaxAttempts \in Nat
      BY DeliveryAssumption DEF TypeOK, Made
    <2>2. OneOf(Toks(d)') BY DEF Calm, OneOf
    <2>3. OneOf(Sent(d)') BY <1>0, <2>2, Differ DEF OneOf
    <2>4. Sending(d)' # {} => Sent(d)' = {}
      <3>1. \A r \in Sending(d)', s \in Sent(d)' : r # s BY DEF Sending, Sent
      <3>2. QED BY <1>0, <2>2, <3>1, Differ DEF OneOf
    <2>5. Sending(d)' # {} \/ Sent(d)' # {} => Toks(d)' # {} BY <1>0
    <2>6. Toks(d)' # {} => Made(d)' < MaxAttempts BY <1>2 DEF Fresh
    <2>7. posts'[d] <= Made(d)' \/ (posts'[d] = Made(d)' + 1 /\ Sent(d)' # {})
      BY <1>2, <2>3 DEF Fresh, Counted, OneOf
    <2>8. posts'[d] <= MaxAttempts /\ (Sending(d)' # {} => posts'[d] < MaxAttempts)
      BY <2>1, <2>4, <2>5, <2>6, <2>7
    <2>9. QED BY <2>8 DEF Early
  <1>3. QED BY <1>1, <1>2 DEF Calm, Gone

LEMMA EarlyStep ==
  ASSUME TypeOK, TypeOK', NEW d \in Deliveries, Undisturbed(d), Calm(d), Early(d), Calm(d)', Made(d)' <= MaxAttempts
  PROVE  Early(d)'
  <1>1. CASE posts'[d] = posts[d] /\ Sending(d)' \subseteq Sending(d) BY <1>1 DEF Early
  <1>2. ASSUME NEW s \in Slots, Starts(d, s) PROVE Early(d)'
    <2>1. Exists(d)' BY <1>2, StillRow, GoneUnsettled DEF Starts
    <2>2. QED BY <2>1, CalmEarly
  <1>3. ASSUME NEW s \in Slots, Posted(d, s) PROVE Early(d)'
    <2>1. Sending(d)' = {}
      <3>1. OneOf(Sending(d)) BY FewSend DEF Calm
      <3>2. QED BY <1>3, <3>1, PostedSlots DEF OneOf
    <2>2. posts[d] < MaxAttempts BY <1>3, PostedSlots DEF Early
    <2>3. posts'[d] <= MaxAttempts BY <1>3, <2>2, Numbers DEF Posted
    <2>4. QED BY <2>1, <2>3 DEF Early
  <1>4. ASSUME NEW s \in Slots, Settles(d, s) PROVE Early(d)' BY <1>1, <1>4, SettlesSlots
  <1>5. ASSUME NEW s \in Slots, Fails(d, s) PROVE Early(d)' BY <1>1, <1>5, FailsSlots
  <1>6. CASE Steady(d) BY <1>1, <1>6, SteadySlots DEF Steady, Still
  <1>7. CASE Aside(d) BY <1>1, <1>7, AsideSlots
  <1>8. CASE Withers(d) BY <1>1, <1>8 DEF Withers, Still
  <1>9. QED BY <1>2, <1>3, <1>4, <1>5, <1>6, <1>7, <1>8 DEF Undisturbed, Reopens, Removes, Opens

(* The attempts counted exceed MaxAttempts by the disturbances at most. *)
LEMMA MadeFits ==
  ASSUME NEW a \in Nat, NEW m \in Nat, NEW r \in Nat, NEW l \in Nat, NEW x \in Nat, NEW b \in BOOLEAN,
         a <= m + r - (IF b THEN 1 ELSE 0), r + l <= x
  PROVE  a <= m + (x - l)
  OBVIOUS

LEMMA MadeBound ==
  ASSUME TypeOK, AttemptsInv, ReplaysInv, NEW d \in Deliveries
  PROVE  Made(d) <= MaxAttempts + Used
  <1>1. /\ row[d].attempts \in Nat /\ MaxAttempts \in Nat /\ replays \in Nat /\ left \in Nat /\ MaxDisturbances \in Nat
        /\ row[d].attempts <= MaxAttempts + replays - (IF admin[d] = "read" THEN 1 ELSE 0)
        /\ replays + left <= MaxDisturbances
    BY DeliveryAssumption DEF TypeOK, AttemptsInv, ReplaysInv, Cap
  <1>2. QED BY <1>1, MadeFits DEF Made, Used

LEMMA MadeBoundNext ==
  ASSUME TypeOK', AttemptsInv', ReplaysInv', NEW d \in Deliveries
  PROVE  Made(d)' <= MaxAttempts + Used'
  <1>1. row'[d].attempts \in Nat /\ replays' \in Nat /\ left' \in Nat BY DeliveryAssumption DEF TypeOK
  <1>2. row'[d].attempts <= MaxAttempts + replays' - (IF admin'[d] = "read" THEN 1 ELSE 0) BY DEF AttemptsInv, Cap
  <1>3. replays' + left' <= MaxDisturbances BY DEF ReplaysInv
  <1>4. MaxAttempts \in Nat /\ MaxDisturbances \in Nat BY DeliveryAssumption
  <1>5. QED BY <1>1, <1>2, <1>3, <1>4, MadeFits DEF Made, Used

LEMMA InitPosts == Init => PostsInv
  <1> SUFFICES ASSUME Init PROVE PostsInv OBVIOUS
  <1>1. \A s \in Slots : ~Working(s) BY DEF Init, Working
  <1>2. Held BY <1>1 DEF Held
  <1>3. Used = 0 BY DeliveryAssumption DEF Init, Used
  <1>4. ASSUME NEW d \in Deliveries PROVE Calm(d) /\ Early(d)
    <2>1. Engaged(d) = {} /\ Served(d) = {} /\ Sending(d) = {} BY <1>1 DEF Engaged, Served, Sending, Role
    <2>2. Queued(d) = {} BY DEF Init, Queued
    <2>3. admin[d] = "none" /\ posts[d] = 0 /\ row[d].status = "none" BY DEF Init
    <2>4. d \in emitter.todo /\ d \notin emitter.created BY DEF Init
    <2>5. Toks(d) \subseteq {EmitTok} BY <2>1, <2>2, <2>3 DEF Toks, Gather
    <2>6. Waiting(d) BY <2>1, <2>3, <2>4, <2>5 DEF Waiting, Exists
    <2>7. QED BY <2>1, <2>3, <2>5, <2>6, DeliveryAssumption DEF Calm, Early, OneOf
  <1>5. QED BY <1>2, <1>3, <1>4 DEF PostsInv

LEMMA NoneUsed ==
  ASSUME NEW m \in Nat, NEW l \in 0..m, NEW k \in 0..m, k = l \/ k = l - 1, m - k = 0
  PROVE  l = m /\ k = l
  OBVIOUS

LEMMA NextPosts ==
  ASSUME ~SlowAttempts, TypeOK, AttemptsInv, ReplaysInv, PostsInv, [Next]_vars, TypeOK', AttemptsInv', ReplaysInv'
  PROVE  PostsInv'
  <1>1. Held /\ Held' BY HeldStep DEF PostsInv
  <1>2. /\ left \in 0..MaxDisturbances /\ left' \in 0..MaxDisturbances /\ MaxDisturbances \in Nat
        /\ left' = left \/ left' = left - 1
        /\ Used = MaxDisturbances - left /\ Used' = MaxDisturbances - left'
    <2>1. left \in 0..MaxDisturbances BY DEF TypeOK
    <2>2. left' \in 0..MaxDisturbances BY DEF TypeOK
    <2>3. left' = left \/ left' = left - 1 BY AdminSteps DEF CountStep
    <2>4. QED BY <2>1, <2>2, <2>3, DeliveryAssumption DEF Used
  <1>3. ASSUME NEW d \in Deliveries, Used \in {0, 1} PROVE Follow(d) /\ Outlasting(d)
    <2>1. d \in emitter.todo => d \notin emitter.created
      BY <1>3 DEF PostsInv, Calm, Shaken, Waiting, Gone, Fresh, Spent, Twin
    <2>2. QED BY <1>1, <2>1, StepFollow, OutlastingStep
  <1>4. ASSUME NEW d \in Deliveries, Used' = 0 PROVE Calm(d)' /\ Early(d)'
    <2>1. Used = 0 /\ left' = left
      <3>1. MaxDisturbances - left' = 0 BY <1>4 DEF Used
      <3>2. left = MaxDisturbances /\ left' = left BY <1>2, <3>1, NoneUsed
      <3>3. QED BY <1>2, <3>2 DEF Used
    <2>2. left' # left - 1 BY <1>2, <2>1
    <2>3. Undisturbed(d) /\ Outlasting(d) BY <1>3, <2>1, <2>2 DEF Follow
    <2>4. Calm(d) /\ Early(d) BY <2>1 DEF PostsInv
    <2>5. Made(d) <= MaxAttempts + 1 /\ Made(d)' <= MaxAttempts
      BY <1>4, <2>1, MadeBound, MadeBoundNext, Numbers
    <2>6. Calm(d)' BY <2>3, <2>4, <2>5, UndisturbedStep
    <2>7. QED BY <2>3, <2>4, <2>5, <2>6, EarlyStep
  <1>5. ASSUME NEW d \in Deliveries, Used' = 1 PROVE Shaken(d)'
    <2>1. CASE left' = left
      <3>1. Used = 1 /\ left' # left - 1 BY <1>2, <1>5, <2>1
      <3>2. Undisturbed(d) /\ Outlasting(d) BY <1>3, <3>1 DEF Follow
      <3>3. Made(d) <= MaxAttempts + 1 BY <3>1, MadeBound
      <3>4. Shaken(d) BY <3>1 DEF PostsInv
      <3>5. QED BY <3>2, <3>3, <3>4, UndisturbedStep
    <2>2. CASE left' = left - 1
      <3>1. Used = 0 /\ left' # left BY <1>2, <1>5, <2>2
      <3>2. Disturbed(d) BY <1>3, <3>1 DEF Follow
      <3>3. Made(d) <= MaxAttempts BY <3>1, MadeBound, Numbers
      <3>4. Calm(d) BY <3>1 DEF PostsInv
      <3>5. QED BY <3>2, <3>3, <3>4, DisturbedStep
    <2>3. QED BY <1>2, <2>1, <2>2
  <1>6. QED BY <1>1, <1>4, <1>5 DEF PostsInv

LEMMA ShakenBound ==
  ASSUME TypeOK, NEW d \in Deliveries, Shaken(d), Made(d) <= MaxAttempts + 1
  PROVE  posts[d] <= MaxAttempts + 1
  <1>1. posts[d] \in Nat /\ Made(d) \in Nat /\ MaxAttempts \in Nat BY Numbers
  <1>2. CASE Fresh(d)
    <2>1. CASE Toks(d) = {}
      <3>1. Sent(d) = {} BY <2>1, PostsTokens
      <3>2. QED BY <1>1, <1>2, <3>1 DEF Fresh, Counted, OneOf
    <2>2. CASE Toks(d) # {} BY <1>1, <1>2, <2>2 DEF Fresh, Counted
    <2>3. QED BY <2>1, <2>2
  <1>3. CASE Twin(d) BY <1>1, <1>3 DEF Twin
  <1>4. CASE Waiting(d) \/ Gone(d) \/ Spent(d) BY <1>1, <1>4 DEF Waiting, Gone, Spent
  <1>5. QED BY <1>2, <1>3, <1>4 DEF Shaken

(* A delivery is posted MaxAttempts times at most, and once more after one    *)
(* fault or manual retry, however it interleaves with the emitter, the slots  *)
(* and the delays, as long as no attempt outlasts the delay of a retry that   *)
(* was added while it was under way.                                          *)
THEOREM PostsBounded ==
  ASSUME ~SlowAttempts
  PROVE  Spec => [](Used <= 1 => BoundedPosts)
  <1>1. Init => PostsInv BY InitPosts
  <1>2. IInv /\ IInv' /\ PostsInv /\ [Next]_vars => PostsInv' BY NextPosts DEF IInv
  <1>3. IInv /\ PostsInv => (Used <= 1 => BoundedPosts)
    <2> SUFFICES ASSUME TypeOK, AttemptsInv, ReplaysInv, PostsInv, Used <= 1, NEW d \in Deliveries
                 PROVE  posts[d] <= MaxAttempts + Used
      BY DEF IInv, BoundedPosts, Used
    <2>1. Used \in Nat BY DeliveryAssumption DEF TypeOK, Used
    <2>2. CASE Used = 0 BY <2>2, Numbers DEF PostsInv, Early
    <2>3. CASE Used = 1
      <3>1. Shaken(d) BY <2>3 DEF PostsInv
      <3>2. Made(d) <= MaxAttempts + 1 BY <2>3, MadeBound
      <3>3. QED BY <2>3, <3>1, <3>2, ShakenBound
    <2>4. QED BY <2>1, <2>2, <2>3
  <1>4. QED BY <1>1, <1>2, <1>3, AttemptsBounded, PTL DEF Spec

(* So it is for a behaviour with one fault or manual retry. *)
THEOREM PostsBoundedOnce ==
  ASSUME ~SlowAttempts, MaxDisturbances <= 1
  PROVE  Spec => []BoundedPosts
  <1>1. IInv => Used <= 1 BY DeliveryAssumption DEF IInv, TypeOK, Used
  <1>2. Spec => [](Used <= 1 => BoundedPosts) BY PostsBounded
  <1>3. QED BY <1>1, <1>2, AttemptsBounded, PTL
-----------------------------------------------------------------------------
(* No delivery is forgotten.  A token is lost when the job it is to become has *)
(* an id that BullMQ knows already: add() does nothing then.  So the ids of    *)
(* retries to come have to be unused, unless the job found is the retry of a   *)
(* twin, which is still to run.                                                *)
Unused(d, n) == jobs[d][n] = "absent"

Addable(d, s) ==
  LET n == Attempts(s)
  IN  n < MaxAttempts => Unused(d, n) \/ (jobs[d][n] = "delayed" /\ n \in slot[s].outlasted)

Owing(d, s) ==
  /\ Role(d, s) \in {"post", "sent"} =>
       Attempts(s) \in {Made(d), Made(d) + 1} /\ (Attempts(s) = Made(d) => Addable(d, s))
  /\ Role(d, s) = "add" => Attempts(s) <= Made(d) /\ Addable(d, s)

(* The ids of the operator's retries to come. *)
NextAdmin(d) == MaxAttempts + replays - (IF admin[d] = "none" THEN 0 ELSE 1)

Numbered(d) ==
  /\ d \in emitter.todo => \A n \in Ids : Unused(d, n)
  /\ d \in emitter.created => Unused(d, First)
  /\ \A n \in Ids : n >= NextAdmin(d) => Unused(d, n)
  /\ Exists(d) => \A n \in Ids : Made(d) < n /\ n < MaxAttempts => Unused(d, n)
  /\ Exists(d) => \A s \in Slots : Owing(d, s)

(* A row that is not settled, and whose last job no fault has taken, has a token. *)
Remembered(d) == Exists(d) => Settled(d) \/ d \in dropped \/ Toks(d) # {}

RememberInv ==
  /\ OneOf(emitter.created)
  /\ Used <= 1 => \A d \in Deliveries : Numbered(d) /\ Remembered(d)

(* An id that comes into use is that of a first job, of a retry or of the     *)
(* operator.                                                                  *)
FirstAdded(d, n) == n = First /\ d \in emitter.created /\ emitter'.created = {}
RetryAdded(d, n) ==
  \E s \in Slots :
    /\ Role(d, s) = "add" /\ Role(d, s)' = "none" /\ n = Attempts(s)
    /\ jobs'[d][n] = "delayed" /\ \A r \in Slots \ {s} : Role(d, r) # "none" => n \in slot'[r].outlasted
AdminAdded(d, n) == n = AdminId(replays - 1) /\ admin[d] = "written" /\ admin'[d] = "none" /\ replays' = replays

LEMMA Additions ==
  ASSUME TypeOK, AttemptsInv, ReplaysInv, Held, [Next]_vars, NEW d \in Deliveries, NEW n \in Ids,
         Unused(d, n), ~Unused(d, n)'
  PROVE  FirstAdded(d, n) \/ RetryAdded(d, n) \/ AdminAdded(d, n)
  <1> DEFINE Goal == FirstAdded(d, n) \/ RetryAdded(d, n) \/ AdminAdded(d, n)
  <1>0. jobs' # jobs BY DEF Unused
  <1>1. ASSUME NEW s \in Slots, Handling(s) PROVE Goal
    <2>1. CASE AddRetry(s)
      <3>1. At(s, "add") /\ Add(On(s), RetryId(s), "delayed") BY <2>1 DEF AddRetry
      <3>2. On(s) \in Deliveries /\ RetryId(s) \in Ids BY <3>1, RetryIdTyped, WorkTyped DEF At
      <3>3. d = On(s) /\ n = RetryId(s) BY <3>1, <3>2, RetryJobs DEF Unused
      <3>4. jobs'[d][n] = "delayed" BY <3>1, <3>2, <3>3, RetryJobs DEF Unused
      <3>5. Role(d, s) = "add" /\ Role(d, s)' = "none" BY <2>1, <3>3, RetryRoles
      <3>6. ASSUME NEW r \in Slots \ {s}, Role(d, r) # "none" PROVE n \in slot'[r].outlasted
        <4>1. Working(r) /\ On(r) = On(s) BY <3>3, <3>6 DEF Role
        <4>2. QED BY <2>1, <3>3, <4>1, RetrySlots DEF Unused
      <3>7. QED BY <3>3, <3>4, <3>5, <3>6 DEF RetryAdded, RetryId
    <2>2. CASE Frees(s)
      <3>1. On(s) \in Deliveries /\ slot[s].id \in Ids BY <2>2, WorkTyped DEF Frees
      <3>2. Mine(s) BY <2>2, HeldAlone DEF Frees
      <3>3. d # On(s) \/ n # slot[s].id BY <3>2 DEF Mine, Unused
      <3>4. QED BY <2>2, <3>1, <3>3, JobSet DEF Frees, Unused
    <2>3. ASSUME NEW c \in Deliveries, NEW id \in Ids, Take(s, c, id) PROVE Goal
      <3>1. d # c \/ n # id BY <2>3 DEF Take, Unused
      <3>2. QED BY <2>3, <3>1, JobSet DEF Take, Unused
    <2>4. QED BY <1>0, <1>1, <2>1, <2>2, <2>3, HandlingGoes
  <1>2. ASSUME NEW c \in Deliveries, NEW id \in Ids, Promote(c, id) \/ Forget(c, id) PROVE Goal
    <2>1. \E state : jobs' = [jobs EXCEPT ![c][id] = state] /\ (jobs[c][id] # "absent")
      BY <1>2 DEF Promote, Forget
    <2>2. d # c \/ n # id BY <2>1 DEF Unused
    <2>3. QED BY <2>1, <2>2, JobSet DEF Unused
  <1>3. ASSUME NEW c \in Deliveries, AddFirst(c) PROVE Goal
    <2>1. Add(c, First, "waiting") /\ First \in Ids /\ c \in emitter.created BY <1>3, FirstIsId DEF AddFirst
    <2>2. d = c /\ n = First BY <2>1, RetryJobs DEF Unused
    <2>3. emitter'.created = {} BY <1>3 DEF AddFirst, TypeOK
    <2>4. QED BY <2>1, <2>2, <2>3 DEF FirstAdded
  <1>4. ASSUME NEW c \in Deliveries, RetryAdd(c) PROVE Goal
    <2>1. AdminId(replays - 1) \in Ids /\ admin[c] = "written" BY <1>4, AdminIdTyped DEF RetryAdd
    <2>2. Add(c, AdminId(replays - 1), "waiting") BY <1>0, <1>4 DEF RetryAdd
    <2>3. d = c /\ n = AdminId(replays - 1) BY <2>1, <2>2, RetryJobs DEF Unused
    <2>4. admin'[c] = "none" /\ replays' = replays BY <1>4 DEF RetryAdd, TypeOK
    <2>5. QED BY <2>1, <2>3, <2>4 DEF AdminAdded
  <1>5. CASE Emit \/ EmitError \/ EmitterCrash \/ UNCHANGED vars
    BY <1>0, <1>3, <1>5 DEF Emit, CreateRow, EmitError, EmitterCrash, vars
  <1>6. CASE \E c \in Deliveries : Requests(c)
    BY <1>0, <1>2, <1>4, <1>6 DEF Requests, RetryRead, Retry, RetryWrite, RemoveEndpoint
  <1>7. QED BY <1>1, <1>5, <1>6, StepCases

LEMMA SlotNumbers ==
  ASSUME TypeOK, NEW d \in Deliveries, NEW s \in Slots, Role(d, s) # "none"
  PROVE  /\ Working(s) /\ On(s) = d /\ slot[s].seen \in Nat
         /\ Attempts(s) \in Nat /\ Attempts(s) >= 1 /\ (Attempts(s) < MaxAttempts => Attempts(s) \in Ids)
  <1>1. Working(s) /\ On(s) = d BY DEF Role
  <1>2. slot[s].seen \in Nat BY <1>1, WorkTyped
  <1>3. QED BY <1>1, <1>2, DeliveryAssumption DEF Attempts, Ids

LEMMA AdminNumbers ==
  ASSUME TypeOK, ReplaysInv, NEW d \in Deliveries
  PROVE  /\ NextAdmin(d) \in Nat /\ NextAdmin(d) >= MaxAttempts
         /\ admin[d] = "written" => AdminId(replays - 1) = NextAdmin(d)
  <1>1. replays \in Nat /\ (admin[d] # "none" => replays >= 1) BY DeliveryAssumption DEF TypeOK, ReplaysInv
  <1>2. QED BY <1>1, DeliveryAssumption DEF NextAdmin, AdminId

(* The id of a retry comes into use by a retry only. *)
LEMMA RetryIdsStay ==
  ASSUME TypeOK, AttemptsInv, ReplaysInv, Held, [Next]_vars, NEW d \in Deliveries, NEW n \in Ids,
         1 <= n, n < MaxAttempts, Unused(d, n)
  PROVE  Unused(d, n)' \/ RetryAdded(d, n)
  <1>1. ~FirstAdded(d, n) BY DEF FirstAdded, First
  <1>2. ~AdminAdded(d, n) BY AdminNumbers, DeliveryAssumption DEF AdminAdded, Ids
  <1>3. QED BY <1>1, <1>2, Additions

LEMMA AddableStays ==
  ASSUME TypeOK, AttemptsInv, ReplaysInv, Held, [Next]_vars, NEW d \in Deliveries, Outlasting(d),
         NEW r \in Slots, Role(d, r) # "none", Role(d, r)' # "none", slot'[r].seen = slot[r].seen, Addable(d, r)
  PROVE  Addable(d, r)'
  <1>1. Attempts(r)' = Attempts(r) /\ Attempts(r) \in Nat BY SlotNumbers DEF Attempts
  <1>2. ASSUME NEW n \in Nat, n = Attempts(r), n < MaxAttempts PROVE Addable(d, r)'
    <2>1. n \in Ids /\ 1 <= n BY <1>2, SlotNumbers
    <2>2. CASE Unused(d, n)
      <3>1. CASE Unused(d, n)' BY <1>1, <1>2, <3>1 DEF Addable, Unused
      <3>2. ASSUME NEW s \in Slots, s # r, jobs'[d][n] = "delayed", Role(d, r) # "none" => n \in slot'[r].outlasted
            PROVE  Addable(d, r)'
        BY <1>1, <1>2, <3>2 DEF Addable
      <3>3. CASE RetryAdded(d, n) BY <3>2, <3>3 DEF RetryAdded
      <3>4. QED BY <1>2, <2>1, <2>2, <3>1, <3>3, RetryIdsStay
    <2>3. CASE jobs[d][n] = "delayed" /\ n \in slot[r].outlasted
      <3>1. jobs'[d][n] = "delayed" /\ n \in slot'[r].outlasted BY <2>1, <2>3, EngagedRole DEF Outlasting
      <3>2. QED BY <1>1, <1>2, <3>1 DEF Addable
    <2>4. QED BY <1>2, <2>2, <2>3 DEF Addable
  <1>3. CASE ~(Attempts(r) < MaxAttempts) BY <1>1, <1>3 DEF Addable
  <1>4. QED BY <1>1, <1>2, <1>3

LEMMA OwingStays ==
  ASSUME TypeOK, AttemptsInv, ReplaysInv, Held, [Next]_vars, NEW d \in Deliveries, Outlasting(d),
         NEW r \in Slots, Role(d, r)' = Role(d, r), Role(d, r) # "none" => slot'[r].seen = slot[r].seen,
         Made(d)' = Made(d), Owing(d, r)
  PROVE  Owing(d, r)'
  <1>1. CASE Role(d, r) = "none" BY <1>1 DEF Owing
  <1>2. CASE Role(d, r) # "none"
    <2>1. Attempts(r)' = Attempts(r) BY <1>2 DEF Attempts
    <2>2. Addable(d, r) => Addable(d, r)' BY <1>2, AddableStays
    <2>3. QED BY <2>1, <2>2 DEF Owing
  <1>3. QED BY <1>1, <1>2

(* While there was one disturbance at most, slots that have not reported their *)
(* posts of a delivery are at the same attempt.                                *)
LEMMA SameAttempt ==
  ASSUME TypeOK, NEW d \in Deliveries, Exists(d), Calm(d) \/ Shaken(d), NEW s \in Slots, NEW r \in Slots,
         Role(d, s) \in {"post", "sent"}, Role(d, r) \in {"post", "sent"}
  PROVE  Attempts(s) = Attempts(r)
  <1>1. s \in Sending(d) \cup Sent(d) /\ r \in Sending(d) \cup Sent(d) BY DEF Sending, Sent
  <1>2. SlotTok(s) \in Toks(d) /\ SlotTok(r) \in Toks(d) BY SlotAtWork
  <1>3. CASE Fresh(d) BY <1>1, <1>3 DEF Fresh, Attempts
  <1>4. CASE Spent(d)
    <2>1. s = r BY <1>2, <1>4, Differ DEF Spent, OneOf
    <2>2. QED BY <2>1
  <1>5. CASE Twin(d)
    <2>1. s = r BY <1>5, TwinAlone DEF Twin
    <2>2. QED BY <2>1
  <1>6. QED BY <1>3, <1>4, <1>5 DEF Calm, Shaken, Waiting, Gone

(* A slot reports: the row has its attempt now, and the others' too. *)
LEMMA ReportsOwing ==
  ASSUME TypeOK, AttemptsInv, ReplaysInv, Held, [Next]_vars, NEW d \in Deliveries, Outlasting(d),
         Calm(d) \/ Shaken(d), Numbered(d), NEW s \in Slots, Settles(d, s) \/ Fails(d, s)
  PROVE  Made(d) <= Made(d)' /\ \A r \in Slots : Owing(d, r)'
  <1>0. /\ Exists(d) /\ Made(d)' = Attempts(s) /\ Role(d, s) \in {"post", "sent"} /\ Alike(d, s)
        /\ Made(d) \in Nat
    BY Numbers DEF Settles, Fails, Reports
  <1>1. Attempts(s) \in {Made(d), Made(d) + 1} /\ (Attempts(s) = Made(d) => Addable(d, s))
    BY <1>0 DEF Numbered, Owing
  <1>2. Made(d) <= Made(d)' BY <1>0, <1>1
  <1>3. \A q \in Slots : Role(d, q) = "add" => Attempts(q) <= Made(d) BY <1>0 DEF Numbered, Owing
  <1>4. ASSUME NEW r \in Slots, Role(d, r) # "none", Role(d, r)' # "none", slot'[r].seen = slot[r].seen,
               Attempts(r) = Made(d)', Attempts(r) = Made(d) => Addable(d, r)
        PROVE Addable(d, r)'
    <2>1. CASE Attempts(r) = Made(d) BY <1>4, <2>1, AddableStays
    <2>2. CASE Attempts(r) = Made(d) + 1 /\ Attempts(r) < MaxAttempts
      <3> DEFINE n == Attempts(r)
      <3>1. n \in Ids /\ 1 <= n BY <1>4, <2>2, SlotNumbers
      <3>2. Unused(d, n) BY <1>0, <2>2, <3>1 DEF Numbered
      <3>3. Addable(d, r) BY <3>2 DEF Addable
      <3>4. QED BY <1>4, <3>3, AddableStays
    <2>3. CASE ~(Attempts(r) < MaxAttempts) BY <1>4, <2>3 DEF Addable, Attempts
    <2>4. QED BY <1>0, <1>1, <1>4, <2>1, <2>2, <2>3
  <1>5. ASSUME NEW r \in Slots, r # s PROVE Owing(d, r)'
    <2>1. Same(d, r) /\ Owing(d, r) BY <1>0, <1>5 DEF Alike, Numbered
    <2>2. CASE Role(d, r) \in {"post", "sent"}
      <3>1. Attempts(r) = Made(d)' BY <1>0, <2>2, SameAttempt
      <3>2. Addable(d, r)' BY <1>4, <2>1, <2>2, <3>1 DEF Same, Owing
      <3>3. QED BY <2>1, <2>2, <3>1, <3>2 DEF Same, Owing, Attempts
    <2>3. CASE Role(d, r) = "add"
      <3>1. Attempts(r) <= Made(d) /\ Addable(d, r) BY <2>1, <2>3 DEF Owing
      <3>2. Attempts(r) \in Nat /\ Attempts(r)' = Attempts(r) BY <2>1, <2>3, SlotNumbers DEF Same, Attempts
      <3>3. Made(d)' \in Nat BY <1>0, <1>1
      <3>4. Attempts(r)' <= Made(d)' BY <1>0, <1>2, <3>1, <3>2, <3>3
      <3>5. Addable(d, r)' BY <2>1, <2>3, <3>1, AddableStays DEF Same
      <3>6. QED BY <2>1, <2>3, <3>4, <3>5 DEF Same, Owing
    <2>4. CASE Role(d, r) \notin {"post", "sent", "add"} BY <2>1, <2>4 DEF Same, Owing
    <2>5. QED BY <2>2, <2>3, <2>4
  <1>6. Owing(d, s)'
    <2>1. CASE Settles(d, s) BY <2>1 DEF Settles, Owing
    <2>2. CASE Fails(d, s)
      <3>1. Role(d, s)' = "add" /\ slot'[s].seen = slot[s].seen BY <2>2 DEF Fails
      <3>2. Addable(d, s)' BY <1>0, <1>1, <1>4, <3>1
      <3>3. Attempts(s)' = Attempts(s) BY <3>1 DEF Attempts
      <3>4. Attempts(s)' <= Made(d)' BY <1>0, <1>1, <3>3
      <3>5. QED BY <3>1, <3>2, <3>4 DEF Owing
    <2>3. QED BY <2>1, <2>2
  <1>7. QED BY <1>2, <1>5, <1>6

(* The row of a delivery that is there was there, and counts no less; or the *)
(* emitter has just created it.                                              *)
LEMMA RowCounts ==
  ASSUME TypeOK, AttemptsInv, ReplaysInv, Held, [Next]_vars, NEW d \in Deliveries, Outlasting(d), Follow(d),
         Calm(d) \/ Shaken(d), left' = left - 1 => Calm(d), Numbered(d), Exists(d)'
  PROVE  \/ Exists(d) /\ Made(d) <= Made(d)' /\ \A r \in Slots : Owing(d, r)'
         \/ Waiting(d) /\ Made(d)' = 0 /\ \A r \in Slots : Role(d, r)' = "none"
  <1>0. Made(d) \in Nat BY Numbers
  <1>1. ASSUME Exists(d), Made(d)' = Made(d),
               \A r \in Slots : Role(d, r)' \in {"post", "sent", "add"} => Same(d, r)
        PROVE  \A r \in Slots : Owing(d, r)'
    <2> SUFFICES ASSUME NEW r \in Slots PROVE Owing(d, r)' OBVIOUS
    <2>1. Owing(d, r) BY <1>1 DEF Numbered
    <2>2. CASE Same(d, r) BY <1>1, <2>1, <2>2, OwingStays DEF Same
    <2>3. CASE Role(d, r)' \notin {"post", "sent", "add"} BY <2>3 DEF Owing
    <2>4. QED BY <1>1, <2>2, <2>3
  <1>2. CASE Steady(d)
    <2>1. Exists(d) /\ Made(d)' = Made(d) BY <1>2, StillRow DEF Steady
    <2>2. \A r \in Slots : Role(d, r)' \in {"post", "sent", "add"} => Same(d, r) BY <1>2 DEF Steady
    <2>3. QED BY <1>0, <1>1, <2>1, <2>2
  <1>3. CASE Reopens(d)
    <2>1. Exists(d) /\ Made(d)' = Made(d) /\ \A r \in Slots : Same(d, r) BY <1>3 DEF Reopens, Aside
    <2>2. QED BY <1>0, <1>1, <2>1
  <1>4. CASE Opens(d)
    <2>1. Waiting(d) BY <1>4 DEF Opens, Calm, Shaken, Waiting, Gone, Fresh, Spent, Twin
    <2>2. \A r \in Slots : Role(d, r)' = "none" BY <1>4, <2>1, WaitingRests DEF Opens, Aside, Same
    <2>3. QED BY <1>4, <2>1, <2>2 DEF Opens
  <1>5. CASE Removes(d) BY <1>5 DEF Removes
  <1>6. CASE Withers(d) BY <1>6, StillRow DEF Withers
  <1>7. ASSUME NEW s \in Slots, Starts(d, s) \/ Posted(d, s) \/ (Retreats(d, s) /\ Calm(d))
        PROVE  Exists(d) /\ Made(d)' = Made(d) /\ \A r \in Slots : Owing(d, r)'
    <2>1. Exists(d) /\ Made(d)' = Made(d)
      <3>1. row'[d] = row[d] BY <1>7 DEF Starts, Posted, Retreats, Still
      <3>2. QED BY <3>1 DEF Exists, Made
    <2>2. ASSUME NEW r \in Slots, r # s PROVE Owing(d, r)'
      <3>1. Same(d, r) BY <1>7, <2>2 DEF Starts, Posted, Retreats, Alike
      <3>2. QED BY <2>1, <3>1, OwingStays DEF Numbered, Same
    <2>3. Owing(d, s) BY <2>1 DEF Numbered
    <2>4. CASE Starts(d, s)
      <3>1. Attempts(s)' = Made(d) + 1 /\ Role(d, s)' = "post" BY <2>4 DEF Starts, Attempts
      <3>2. QED BY <1>0, <2>1, <2>2, <3>1 DEF Owing
    <2>5. CASE Posted(d, s)
      <3>1. Attempts(s)' = Attempts(s) BY <2>5 DEF Posted, Attempts
      <3>2. Addable(d, s) => Addable(d, s)' BY <2>5, AddableStays DEF Posted
      <3>3. Owing(d, s)' BY <2>1, <2>3, <2>5, <3>1, <3>2 DEF Posted, Owing
      <3>4. QED BY <2>1, <2>2, <3>3
    <2>6. CASE Retreats(d, s) /\ Calm(d)
      <3>1. Attempts(s)' = Attempts(s) BY <2>6 DEF Retreats, Attempts
      <3>2. Addable(d, s)' BY <2>3, <2>6, AddableStays DEF Retreats, Owing
      <3>3. Attempts(s) = Made(d) BY <2>1, <2>6 DEF Retreats, Calm, Waiting, Gone, Exact
      <3>4. Owing(d, s)' BY <2>1, <2>6, <3>1, <3>2, <3>3 DEF Retreats, Owing
      <3>5. QED BY <2>1, <2>2, <3>4
    <2>7. QED BY <1>7, <2>4, <2>5, <2>6
  <1>8. ASSUME NEW s \in Slots, Settles(d, s) \/ Fails(d, s)
        PROVE  Exists(d) /\ Made(d) <= Made(d)' /\ \A r \in Slots : Owing(d, r)'
    BY <1>8, ReportsOwing DEF Settles, Fails, Reports
  <1>9. CASE Loses(d)
    <2>1. Exists(d) /\ Made(d)' = Made(d) BY <1>9, StillRow DEF Loses
    <2>2. \A r \in Slots : Role(d, r)' \in {"post", "sent", "add"} => Same(d, r) BY <1>9 DEF Loses
    <2>3. QED BY <1>0, <1>1, <2>1, <2>2
  <1>10. CASE Leaves(d) BY <1>10 DEF Leaves, Exists, Calm, Shaken, Waiting, Gone, Fresh, Spent, Twin
  <1>11. ASSUME NEW s \in Slots, NEW u, GivesBack(d, s, u)
         PROVE  Exists(d) /\ Made(d) <= Made(d)' /\ \A r \in Slots : Owing(d, r)'
    <2>1. Exists(d) /\ Made(d)' = Made(d) BY <1>11, StillRow DEF GivesBack
    <2>2. \A r \in Slots : Role(d, r)' \in {"post", "sent", "add"} => Same(d, r) BY <1>11 DEF GivesBack, Alike
    <2>3. QED BY <1>0, <1>1, <2>1, <2>2
  <1>12. ASSUME NEW u, Gains(d, u)
         PROVE  Exists(d) /\ Made(d) <= Made(d)' /\ \A r \in Slots : Owing(d, r)'
    <2>1. Exists(d) /\ Made(d)' = Made(d) BY <1>12, StillRow DEF Gains
    <2>2. \A r \in Slots : Owing(d, r)' BY <1>12, <2>1, OwingStays DEF Gains, Numbered
    <2>3. QED BY <1>0, <2>1, <2>2
  <1>13. QED
    BY <1>0, <1>2, <1>3, <1>4, <1>5, <1>6, <1>7, <1>8, <1>9, <1>10, <1>11, <1>12 DEF Follow, Undisturbed, Disturbed

(* What the emitter has still to do only becomes less; a created row is new. *)
LEMMA EmitterSteps ==
  ASSUME TypeOK, [Next]_vars
  PROVE  /\ emitter'.todo \subseteq emitter.todo /\ (OneOf(emitter.created) => OneOf(emitter'.created))
         /\ \A d \in emitter'.created \ emitter.created : d \in emitter.todo /\ jobs' = jobs
  <1>1. CASE emitter' = emitter BY <1>1
  <1>2. ASSUME NEW c \in Deliveries, CreateRow(c)
        PROVE  emitter'.todo \subseteq emitter.todo /\ emitter'.created = {c} /\ c \in emitter.todo /\ jobs' = jobs
    BY <1>2 DEF CreateRow, TypeOK
  <1>3. ASSUME NEW c \in Deliveries, AddFirst(c) PROVE emitter'.todo = emitter.todo /\ emitter'.created = {}
    BY <1>3 DEF AddFirst, TypeOK
  <1>4. CASE EmitError \/ EmitterCrash
    <2>1. PICK T \in SUBSET emitter.todo : emitter' = [emitter EXCEPT !.todo = T, !.created = {}]
      BY <1>4 DEF EmitError, EmitterCrash
    <2>2. QED BY <2>1, EmitterWrites DEF OneOf
  <1>5. ASSUME NEW s \in Slots, Handling(s) PROVE emitter' = emitter
    BY <1>5 DEF Handling, Attempt, Take, Load, Reject, Accepted, Refused, Unreachable, Post, MarkDelivered, Abandon,
        MarkFailed, AddRetry, Return, LoadError, WriteError, Throw, AddError, WorkerCrash
  <1>6. ASSUME NEW d \in Deliveries, Requests(d) PROVE emitter' = emitter
    BY <1>6 DEF Requests, Promote, Forget, RetryRead, Retry, RetryWrite, RetryAdd, RemoveEndpoint
  <1>7. QED BY <1>1, <1>2, <1>3, <1>4, <1>5, <1>6, StepCases DEF Emit, vars, OneOf

LEMMA AdminLater ==
  ASSUME TypeOK, ReplaysInv, [Next]_vars, NEW d \in Deliveries
  PROVE  /\ NextAdmin(d)' \in Nat /\ NextAdmin(d) <= NextAdmin(d)'
         /\ admin[d] # "none" /\ admin'[d] = "none" => NextAdmin(d) < NextAdmin(d)'
  <1>1. /\ replays \in Nat /\ replays' \in Nat /\ replays' >= replays
        /\ admin[d] # "none" => replays >= 1
        /\ admin'[d] # "none" => replays' >= 1
    BY ReplaysKept, DeliveryAssumption DEF TypeOK, ReplaysInv
  <1>2. admin[d] = "none" /\ admin'[d] # "none" => replays' = replays + 1 BY AdminSteps DEF AdminStep
  <1>3. QED BY <1>1, <1>2, DeliveryAssumption DEF NextAdmin

LEMMA NumberedStep ==
  ASSUME TypeOK, TypeOK', AttemptsInv, ReplaysInv, Held, [Next]_vars, NEW d \in Deliveries, Outlasting(d), Follow(d),
         Calm(d) \/ Shaken(d), left' = left - 1 => Calm(d), Numbered(d)
  PROVE  Numbered(d)'
  <1>0. Made(d) \in Nat /\ MaxAttempts \in Nat /\ MaxAttempts >= 1 BY Numbers
  <1>1. ASSUME Waiting(d), NEW n \in Ids PROVE Unused(d, n)'
    <2>1. ~FirstAdded(d, n) BY <1>1 DEF FirstAdded, Waiting
    <2>2. ~RetryAdded(d, n) BY <1>1, WaitingRests DEF RetryAdded
    <2>3. ~AdminAdded(d, n)
      <3>1. admin[d] # "none" => AdminTok \in Toks(d) BY DEF Toks, Gather
      <3>2. QED BY <1>1, <3>1, Differ DEF AdminAdded, Waiting, AdminTok, EmitTok
    <2>4. Unused(d, n) BY <1>1 DEF Waiting, Numbered
    <2>5. QED BY <2>1, <2>2, <2>3, <2>4, Additions
  <1>2. ASSUME d \in emitter'.todo, NEW n \in Ids PROVE Unused(d, n)'
    <2>1. d \in emitter.todo BY <1>2, EmitterSteps
    <2>2. Waiting(d) BY <2>1 DEF Calm, Shaken, Waiting, Gone, Fresh, Spent, Twin
    <2>3. QED BY <1>1, <2>2
  <1>3. ASSUME d \in emitter'.created PROVE Unused(d, First)'
    <2>1. CASE d \in emitter.created
      <3>1. Unused(d, First) /\ First \in Ids BY <2>1, FirstIsId DEF Numbered
      <3>2. ~FirstAdded(d, First) BY <1>3 DEF FirstAdded
      <3>3. ~RetryAdded(d, First)
        <4>1. \A s \in Slots : Role(d, s) # "none" => Attempts(s) >= 1 BY SlotNumbers
        <4>2. QED BY <4>1 DEF RetryAdded, First
      <3>4. ~AdminAdded(d, First)
        <4>1. admin[d] = "written" => AdminId(replays - 1) >= 1 BY <1>0, AdminNumbers
        <4>2. QED BY <4>1 DEF AdminAdded, First
      <3>5. QED BY <3>1, <3>2, <3>3, <3>4, Additions
    <2>2. CASE d \notin emitter.created
      <3>1. d \in emitter.todo /\ jobs' = jobs BY <1>3, <2>2, EmitterSteps
      <3>2. QED BY <3>1, FirstIsId DEF Numbered, Unused
    <2>3. QED BY <2>1, <2>2
  <1>4. ASSUME NEW n \in Ids, n >= NextAdmin(d)' PROVE Unused(d, n)'
    <2>0. n \in Nat BY DeliveryAssumption DEF Ids
    <2>1. Unused(d, n) /\ n >= NextAdmin(d) /\ n >= MaxAttempts
      <3>1. n >= NextAdmin(d) /\ n >= MaxAttempts BY <1>0, <1>4, <2>0, AdminNumbers, AdminLater
      <3>2. QED BY <3>1 DEF Numbered
    <2>2. ~FirstAdded(d, n) BY <1>0, <2>1 DEF FirstAdded, First
    <2>3. ~RetryAdded(d, n)
      <3>1. \A s \in Slots : Role(d, s) = "add" => Attempts(s) \in Nat /\ Attempts(s) < MaxAttempts
        <4>1. \A s \in Slots : Role(d, s) = "add" => At(s, "add") BY DEF Role, At
        <4>2. QED BY <4>1, SlotNumbers DEF AttemptsInv
      <3>2. QED BY <1>0, <2>0, <2>1, <3>1 DEF RetryAdded
    <2>4. ~AdminAdded(d, n)
      <3>1. SUFFICES ASSUME AdminAdded(d, n) PROVE FALSE OBVIOUS
      <3>2. n = NextAdmin(d) /\ NextAdmin(d) < NextAdmin(d)' BY <3>1, AdminNumbers, AdminLater DEF AdminAdded
      <3>3. QED BY <1>4, <3>2, AdminNumbers, AdminLater
    <2>5. QED BY <2>1, <2>2, <2>3, <2>4, Additions
  <1>5. ASSUME Exists(d)'
        PROVE  /\ \A n \in Ids : Made(d)' < n /\ n < MaxAttempts => Unused(d, n)'
               /\ \A s \in Slots : Owing(d, s)'
    <2>1. CASE Waiting(d) /\ \A r \in Slots : Role(d, r)' = "none" BY <1>1, <2>1 DEF Owing
    <2>2. CASE Exists(d) /\ Made(d) <= Made(d)' /\ \A r \in Slots : Owing(d, r)'
      <3>0. Made(d)' \in Nat BY DeliveryAssumption DEF TypeOK, Made
      <3>1. ASSUME NEW n \in Ids, Made(d)' < n, n < MaxAttempts PROVE Unused(d, n)'
        <4>1. n \in Nat BY DeliveryAssumption DEF Ids
        <4>2. Made(d) < n /\ 1 <= n BY <1>0, <2>2, <3>0, <3>1, <4>1
        <4>3. Unused(d, n) BY <2>2, <3>1, <4>2 DEF Numbered
        <4>4. ~RetryAdded(d, n)
          <5>1. \A s \in Slots : Role(d, s) = "add" => Attempts(s) \in Nat /\ Attempts(s) <= Made(d)
            BY <2>2, SlotNumbers DEF Numbered, Owing
          <5>2. QED BY <1>0, <4>1, <4>2, <5>1 DEF RetryAdded
        <4>5. QED BY <3>1, <4>2, <4>3, <4>4, RetryIdsStay
      <3>2. QED BY <2>2, <3>1
    <2>3. QED BY <1>5, <2>1, <2>2, RowCounts
  <1>6. QED BY <1>2, <1>3, <1>4, <1>5 DEF Numbered
-----------------------------------------------------------------------------
(* A token passes on what it stands for, or the delivery is settled or its    *)
(* last job dropped.                                                          *)
Kept(d) == Settled(d)' \/ d \in dropped' \/ Toks(d)' # {}

LEMMA KeptBy ==
  ASSUME NEW d
  PROVE  /\ \A s \in Slots : Role(d, s)' # "none" => Kept(d)
         /\ \A id \in Ids : jobs'[d][id] \in {"waiting", "delayed"} => Kept(d)
         /\ admin'[d] # "none" => Kept(d)
         /\ d \in emitter'.created => Kept(d)
  <1>1. ASSUME NEW s \in Slots, Role(d, s)' # "none" PROVE Kept(d)
    <2>1. SlotTok(s) \in Toks(d)' BY <1>1, SlotTokensNext, EngagedRole
    <2>2. QED BY <2>1 DEF Kept
  <1>2. ASSUME NEW id \in Ids, jobs'[d][id] \in {"waiting", "delayed"} PROVE Kept(d)
    <2>1. JobTok(id) \in Toks(d)' BY <1>2 DEF Toks, Gather, Queued
    <2>2. QED BY <2>1 DEF Kept
  <1>3. ASSUME admin'[d] # "none" PROVE Kept(d)
    <2>1. AdminTok \in Toks(d)' BY <1>3 DEF Toks, Gather
    <2>2. QED BY <2>1 DEF Kept
  <1>4. ASSUME d \in emitter'.created PROVE Kept(d)
    <2>1. EmitTok \in Toks(d)' BY <1>4 DEF Toks, Gather
    <2>2. QED BY <2>1 DEF Kept
  <1>5. QED BY <1>1, <1>2, <1>3, <1>4

LEMMA DroppedStays ==
  ASSUME TypeOK, [Next]_vars
  PROVE  dropped \subseteq dropped'
  <1>1. ASSUME NEW s \in Slots, Handling(s) PROVE dropped \subseteq dropped'
    BY <1>1 DEF Handling, Attempt, Take, Load, Reject, Accepted, Refused, Unreachable, Post, MarkDelivered, Abandon,
        MarkFailed, AddRetry, Return, LoadError, WriteError, Throw, FailJob, AddError, WorkerCrash
  <1>2. ASSUME NEW d \in Deliveries, Requests(d) PROVE dropped \subseteq dropped'
    BY <1>2 DEF Requests, Promote, Forget, RetryRead, Retry, RetryWrite, RetryAdd, RemoveEndpoint
  <1>3. CASE Emit \/ EmitError \/ EmitterCrash \/ UNCHANGED vars
    BY <1>3 DEF Emit, CreateRow, AddFirst, EmitError, EmitterCrash, vars
  <1>4. QED BY <1>1, <1>2, <1>3, StepCases

(* Slot s at work on d is still, or has handed the delivery on. *)
LEMMA SlotHandsOn ==
  ASSUME TypeOK, AttemptsInv, Held, NEW s \in Slots, Handling(s), NEW d \in Deliveries, Numbered(d), Exists(d),
         Role(d, s) # "none"
  PROVE  Kept(d)
  <1>0. /\ Working(s) /\ On(s) = d /\ slot[s].id \in Ids /\ slot[s] \in Work /\ slot[s].stage # "end"
        /\ slot[s].stage \in Stages
    <2>1. Working(s) /\ On(s) = d /\ slot[s].stage # "end" BY DEF Role
    <2>2. QED BY <2>1, WorkTyped DEF Work, Stages
  <1>1. ASSUME NEW stage \in Stages \ {"end"}, NEW seen, Goes(s, stage, seen) PROVE Kept(d)
    <2>1. Role(d, s)' # "none" BY <1>0, <1>1, GoesRoles DEF RoleAt, Stages
    <2>2. QED BY <2>1, KeptBy
  <1>2. ASSUME NEW stage \in Stages \ {"end"}, Move(s, stage) PROVE Kept(d)
    BY <1>0, <1>1, <1>2, MoveGoes
  <1>3. ASSUME NEW status \in {"failed", "delivered", "abandoned"}, Write(s, status), status # "failed" PROVE Kept(d)
    <2>1. row'[d].status = status BY <1>0, <1>3, WriteEffect
    <2>2. QED BY <1>3, <2>1 DEF Kept, Settled
  <1>4. CASE FailJob(s) BY <1>0, <1>4 DEF FailJob, Kept
  <1>5. CASE Load(s)
    <2>1. CASE Settled(d) BY <1>5, <2>1 DEF Load, Settled, Kept
    <2>2. CASE ~Settled(d)
      <3>1. slot' = [slot EXCEPT ![s].stage = "post", ![s].seen = row[On(s)].attempts] BY <1>0, <1>5, <2>2 DEF Load
      <3>2. QED BY <1>0, <1>1, <3>1, LoadGoes DEF Stages
    <2>3. QED BY <2>1, <2>2
  <1>6. CASE Reject(s) \/ MarkDelivered(s) \/ Abandon(s) BY <1>3, <1>6 DEF Reject, MarkDelivered, Abandon
  <1>7. CASE Accepted(s) \/ Refused(s) \/ MarkFailed(s) BY <1>2, <1>7 DEF Accepted, Refused, MarkFailed, Stages
  <1>8. ASSUME slot' = [slot EXCEPT ![s].stage = "retry", ![s].caught = TRUE] PROVE Kept(d)
    BY <1>0, <1>1, <1>8, CatchGoes DEF Stages
  <1>9. CASE Unreachable(s) BY <1>8, <1>9 DEF Unreachable
  <1>10. CASE Throw(s) BY <1>4, <1>8, <1>10 DEF Throw
  <1>11. CASE LoadError(s) \/ WriteError(s) \/ AddError(s) BY <1>4, <1>10, <1>11 DEF LoadError, WriteError, AddError
  <1>12. CASE AddRetry(s)
    <2>1. At(s, "add") /\ Role(d, s) = "add" BY <1>0, <1>12 DEF AddRetry, At, Role
    <2> DEFINE n == Attempts(s)
    <2>2. n \in Ids /\ n < MaxAttempts /\ Add(d, n, "delayed") BY <1>0, <1>12, <2>1, RetryIdTyped DEF AddRetry, RetryId
    <2>3. Unused(d, n) \/ jobs[d][n] = "delayed" BY <2>1, <2>2 DEF Numbered, Owing, Addable
    <2>4. jobs'[d][n] = "delayed"
      BY <2>2, <2>3, RetryJobs DEF Unused
    <2>5. QED BY <2>2, <2>4, KeptBy
  <1>13. CASE Return(s) BY <1>0, <1>13 DEF Return, At
  <1>14. CASE WorkerCrash(s)
    <2>1. CASE jobs' = [jobs EXCEPT ![On(s)][slot[s].id] = "waiting"]
      <3>1. jobs' = [jobs EXCEPT ![d][slot[s].id] = "waiting"] BY <1>0, <2>1
      <3>2. jobs'[d][slot[s].id] = "waiting" BY <1>0, <3>1 DEF TypeOK
      <3>3. QED BY <1>0, <3>2, KeptBy
    <2>2. CASE dropped' = dropped \cup {On(s)} BY <1>0, <2>2 DEF Kept
    <2>3. QED BY <1>14, <2>1, <2>2 DEF WorkerCrash
  <1>15. ASSUME NEW c \in Deliveries, NEW id \in Ids, Take(s, c, id) PROVE FALSE
    BY <1>0, <1>15 DEF Take, Working
  <1>16. QED BY <1>5, <1>6, <1>7, <1>9, <1>11, <1>12, <1>13, <1>14, <1>15 DEF Handling, Attempt

(* The other slots stay at work; a slot writes the row of its own delivery. *)
LEMMA OthersWork ==
  ASSUME TypeOK, AttemptsInv, NEW s \in Slots, Handling(s), NEW d \in Deliveries
  PROVE  /\ \A r \in Slots \ {s} : Role(d, r)' = Role(d, r)
         /\ row'[d] # row[d] => Role(d, s) # "none"
  <1>1. ASSUME NEW r \in Slots \ {s} PROVE Role(d, r)' = Role(d, r)
    <2>1. CASE \E stage, seen : Goes(s, stage, seen) BY <2>1, GoesRoles DEF Alike, Same
    <2>2. CASE AddRetry(s)
      <3>1. CASE d = On(s) BY <2>2, <3>1, RetryRoles DEF Alike, Same
      <3>2. CASE d # On(s)
        <4>1. CASE r \in Served(d) BY <2>2, <3>2, <4>1, RetryRoles, RoleKept DEF Same
        <4>2. CASE r \notin Served(d) BY <2>2, <4>2, RetryRoles, RoleServed
        <4>3. QED BY <4>1, <4>2
      <3>3. QED BY <3>1, <3>2
    <2>3. CASE Frees(s)
      <3>1. slot'[r] = slot[r] BY <2>3 DEF Frees, TypeOK
      <3>2. QED BY <3>1, RoleKept DEF Same
    <2>4. ASSUME NEW c \in Deliveries, NEW id \in Ids, Take(s, c, id) PROVE Role(d, r)' = Role(d, r)
      <3>1. slot'[r] = slot[r] BY <2>4 DEF Take, TypeOK
      <3>2. QED BY <3>1, RoleKept DEF Same
    <2>5. QED BY <2>1, <2>2, <2>3, <2>4, HandlingGoes
  <1>2. ASSUME row'[d] # row[d] PROVE Role(d, s) # "none"
    <2>1. ASSUME NEW status, Write(s, status), NEW stage \in {"post", "mark", "retry"}, At(s, stage)
          PROVE  Role(d, s) # "none"
      <3>1. On(s) = d BY <1>2, <2>1 DEF Write, TypeOK
      <3>2. QED BY <2>1, <3>1 DEF Role, At
    <2>2. CASE Reject(s) \/ MarkDelivered(s) \/ Abandon(s) \/ MarkFailed(s)
      BY <2>1, <2>2 DEF Reject, MarkDelivered, Abandon, MarkFailed
    <2>3. QED
      BY <1>2, <2>2
      DEF Handling, Attempt, Take, Load, Accepted, Refused, Unreachable, Post, AddRetry, Return, LoadError, WriteError,
          Throw, AddError, WorkerCrash
  <1>3. QED BY <1>1, <1>2

LEMMA HandlingKeeps ==
  ASSUME TypeOK, AttemptsInv, Held, NEW s \in Slots, Handling(s), NEW d \in Deliveries, Numbered(d), Remembered(d),
         d \in emitter.todo => ~Exists(d), Exists(d)', dropped \subseteq dropped'
  PROVE  Kept(d)
  <1>1. CASE Exists(d) /\ Role(d, s) # "none" BY <1>1, SlotHandsOn
  <1>2. CASE Role(d, s) = "none"
    <2>1. row'[d] = row[d] BY <1>2, OthersWork
    <2>2. CASE Settled(d) \/ d \in dropped BY <2>1, <2>2 DEF Kept, Settled
    <2>3. ASSUME NEW r \in Slots, Role(d, r) # "none" PROVE Kept(d)
      <3>1. Role(d, r)' # "none" BY <1>2, <2>3, OthersWork
      <3>2. QED BY <3>1, KeptBy
    <2>4. ASSUME NEW id \in Ids, jobs[d][id] \in {"waiting", "delayed"} PROVE Kept(d)
      <3>1. CASE jobs'[d][id] = jobs[d][id] BY <2>4, <3>1, KeptBy
      <3>2. CASE AddRetry(s)
        <4>1. At(s, "add") /\ Add(On(s), RetryId(s), "delayed") BY <3>2 DEF AddRetry
        <4>2. On(s) \in Deliveries /\ RetryId(s) \in Ids BY <4>1, RetryIdTyped, WorkTyped DEF At
        <4>3. jobs'[d][id] = jobs[d][id] BY <2>4, <4>1, <4>2, AddKeeps
        <4>4. QED BY <3>1, <4>3
      <3>3. CASE Frees(s)
        <4>1. On(s) \in Deliveries /\ slot[s].id \in Ids BY <3>3, WorkTyped DEF Frees
        <4>2. Mine(s) BY <3>3, HeldAlone DEF Frees
        <4>3. On(s) # d \/ slot[s].id # id BY <2>4, <4>2 DEF Mine
        <4>4. jobs'[d][id] = jobs[d][id] BY <3>3, <4>1, <4>3, JobSet DEF Frees
        <4>5. QED BY <3>1, <4>4
      <3>4. ASSUME NEW c \in Deliveries, NEW n \in Ids, Take(s, c, n) PROVE Kept(d)
        <4>1. CASE c = d
          <5>1. slot'[s] = [stage |-> "load", d |-> d, id |-> n, seen |-> 0, caught |-> FALSE, outlasted |-> {}]
            BY <3>4, <4>1 DEF Take, TypeOK
          <5>2. Role(d, s)' # "none" BY <5>1 DEF Role, Working, On, Free
          <5>3. QED BY <5>2, KeptBy
        <4>2. CASE c # d
          <5>1. jobs'[d] = jobs[d] BY <3>4, <4>2, JobSet DEF Take
          <5>2. QED BY <3>1, <5>1
        <4>3. QED BY <4>1, <4>2
      <3>5. CASE jobs' = jobs BY <3>1, <3>5
      <3>6. QED BY <3>2, <3>3, <3>4, <3>5, HandlingGoes
    <2>5. CASE admin[d] # "none" BY <2>5, HandlingCounts, KeptBy
    <2>6. CASE d \in emitter.created
      <3>1. emitter' = emitter
        BY DEF Handling, Attempt, Take, Load, Reject, Accepted, Refused, Unreachable, Post, MarkDelivered, Abandon,
            MarkFailed, AddRetry, Return, LoadError, WriteError, Throw, AddError, WorkerCrash
      <3>2. QED BY <2>6, <3>1, KeptBy
    <2>7. Exists(d) BY <2>1 DEF Exists
    <2>8. CASE Toks(d) # {}
      <3>1. PICK t : t \in Toks(d) BY <2>8
      <3>2. \/ \E r \in Engaged(d) : TRUE
            \/ \E id \in Queued(d) : TRUE
            \/ admin[d] # "none" \/ d \in emitter.todo \cup emitter.created
        BY <3>1 DEF Toks, Gather
      <3>3. QED BY <2>3, <2>4, <2>5, <2>6, <2>7, <3>2 DEF Engaged, Queued
    <2>9. QED BY <2>2, <2>7, <2>8 DEF Remembered
  <1>3. Exists(d) \/ Role(d, s) = "none"
    <2>1. CASE row'[d] = row[d] BY <2>1 DEF Exists
    <2>2. CASE row'[d] # row[d]
      BY <2>2 DEF Handling, Attempt, Take, Load, Accepted, Refused, Unreachable, Post, AddRetry, Return, LoadError,
          WriteError, Throw, AddError, WorkerCrash, Reject, MarkDelivered, Abandon, MarkFailed, Write, TypeOK
    <2>3. QED BY <2>1, <2>2
  <1>4. QED BY <1>1, <1>2, <1>3

(* The other steps leave the slots. *)
LEMMA OtherHandsOn ==
  ASSUME TypeOK, ReplaysInv,
         Emit \/ EmitError \/ EmitterCrash \/ UNCHANGED vars \/ \E c \in Deliveries : Requests(c),
         NEW d \in Deliveries, Numbered(d), Remembered(d), OneOf(emitter.created),
         d \in emitter.todo => ~Exists(d), Exists(d)', dropped \subseteq dropped'
  PROVE  Kept(d)
  <1>0. slot' = slot
    BY DEF Emit, CreateRow, AddFirst, EmitError, EmitterCrash, vars, Requests, Promote, Forget, RetryRead, Retry, RetryWrite,
           RetryAdd, RemoveEndpoint
  <1>1. ASSUME NEW r \in Slots, Role(d, r) # "none" PROVE Kept(d)
    <2>1. Role(d, r)' # "none" BY <1>0, <1>1, SlotsKept DEF Same
    <2>2. QED BY <2>1, KeptBy
  <1>2. ASSUME NEW id \in Ids, jobs[d][id] \in {"waiting", "delayed"} PROVE Kept(d)
    <2>1. CASE jobs'[d][id] = jobs[d][id] BY <1>2, <2>1, KeptBy
    <2>2. ASSUME NEW c \in Deliveries, AddFirst(c) PROVE jobs'[d][id] = jobs[d][id]
      BY <1>2, <2>2, AddKeeps, FirstIsId DEF AddFirst
    <2>3. ASSUME NEW c \in Deliveries, RetryAdd(c) PROVE jobs'[d][id] = jobs[d][id]
      <3>1. AdminId(replays - 1) \in Ids BY <2>3, AdminIdTyped DEF RetryAdd
      <3>2. QED BY <1>2, <2>3, <3>1, AddKeeps DEF RetryAdd
    <2>4. ASSUME NEW c \in Deliveries, NEW n \in Ids, Forget(c, n) PROVE jobs'[d][id] = jobs[d][id]
      <3>1. d # c \/ id # n BY <1>2, <2>4 DEF Forget
      <3>2. QED BY <2>4, <3>1, JobSet DEF Forget
    <2>5. ASSUME NEW c \in Deliveries, NEW n \in Ids, Promote(c, n) PROVE Kept(d)
      <3>1. CASE d = c /\ id = n
        <4>1. jobs' = [jobs EXCEPT ![c][n] = "waiting"] BY <2>5 DEF Promote
        <4>2. jobs'[c][n] = "waiting" BY <4>1 DEF TypeOK
        <4>3. jobs'[d][id] = "waiting" BY <3>1, <4>2
        <4>4. QED BY <4>3, KeptBy
      <3>2. CASE d # c \/ id # n
        <4>1. jobs'[d][id] = jobs[d][id] BY <2>5, <3>2, JobSet DEF Promote
        <4>2. QED BY <2>1, <4>1
      <3>3. QED BY <3>1, <3>2
    <2>6. CASE jobs' = jobs BY <2>1, <2>6
    <2>7. QED
      BY <2>1, <2>2, <2>3, <2>4, <2>5, <2>6
      DEF Emit, CreateRow, EmitError, EmitterCrash, vars, Requests, RetryRead, Retry, RetryWrite, RemoveEndpoint
  <1>3. CASE RetryAdd(d)
    <2>1. AdminId(replays - 1) \in Ids /\ admin[d] = "written" BY <1>3, AdminIdTyped DEF RetryAdd
    <2>2. AdminId(replays - 1) = NextAdmin(d) /\ NextAdmin(d) \in Nat BY <2>1, AdminNumbers
    <2>3. Unused(d, AdminId(replays - 1)) BY <2>1, <2>2 DEF Numbered
    <2>4. CASE Add(d, AdminId(replays - 1), "waiting")
      <3>1. jobs'[d][AdminId(replays - 1)] = "waiting" BY <2>1, <2>3, <2>4, RetryJobs DEF Unused
      <3>2. QED BY <2>1, <3>1, KeptBy
    <2>5. CASE dropped' = dropped \cup {d} BY <2>5 DEF Kept
    <2>6. QED BY <1>3, <2>4, <2>5 DEF RetryAdd
  <1>4. CASE RetryWrite(d)
    <2>1. CASE Exists(d)
      <3>1. admin'[d] = "written" BY <1>4, <2>1 DEF RetryWrite, TypeOK
      <3>2. QED BY <3>1, KeptBy
    <2>2. CASE ~Exists(d) BY <1>4, <2>2 DEF RetryWrite, Exists
    <2>3. QED BY <2>1, <2>2
  <1>5. CASE admin[d] # "none" /\ ~RetryAdd(d) /\ ~RetryWrite(d)
    <2>1. admin'[d] = admin[d]
      BY <1>5 DEF Emit, CreateRow, AddFirst, EmitError, EmitterCrash, vars, Requests, Promote, Forget, RetryRead, Retry,
                  RetryWrite, RetryAdd, RemoveEndpoint, TypeOK
    <2>2. QED BY <1>5, <2>1, KeptBy
  <1>6. CASE d \in emitter.created
    <2>1. CASE emitter' = emitter BY <1>6, <2>1, KeptBy
    <2>2. ASSUME NEW c \in Deliveries, AddFirst(c) PROVE Kept(d)
      <3>1. c = d BY <1>6, <2>2 DEF AddFirst, OneOf
      <3>2. Add(d, First, "waiting") /\ Unused(d, First) BY <1>6, <2>2, <3>1 DEF AddFirst, Numbered
      <3>3. jobs'[d][First] = "waiting" BY <3>2, FirstIsId, RetryJobs DEF Unused
      <3>4. QED BY <3>3, FirstIsId, KeptBy
    <2>3. CASE EmitError \/ EmitterCrash BY <1>6, <2>3 DEF EmitError, EmitterCrash, Kept
    <2>4. ASSUME NEW c \in Deliveries, CreateRow(c) PROVE FALSE BY <1>6, <2>4 DEF CreateRow
    <2>5. QED
      BY <2>1, <2>2, <2>3, <2>4
      DEF Emit, vars, Requests, Promote, Forget, RetryRead, Retry, RetryWrite, RetryAdd, RemoveEndpoint
  <1>7. CASE row'[d] = row[d]
    <2>1. Exists(d) BY <1>7 DEF Exists
    <2>2. CASE Settled(d) \/ d \in dropped BY <1>7, <2>2 DEF Kept, Settled
    <2>3. CASE Toks(d) # {}
      <3>1. PICK t : t \in Toks(d) BY <2>3
      <3>2. \/ \E r \in Engaged(d) : TRUE
            \/ \E id \in Queued(d) : TRUE
            \/ admin[d] # "none" \/ d \in emitter.todo \cup emitter.created
        BY <3>1 DEF Toks, Gather
      <3>3. QED BY <1>1, <1>2, <1>3, <1>4, <1>5, <1>6, <2>1, <3>2 DEF Engaged, Queued
    <2>4. QED BY <2>1, <2>2, <2>3 DEF Remembered
  <1>8. ASSUME NEW c \in Deliveries, CreateRow(c), row'[d] # row[d] PROVE Kept(d)
    <2>1. c = d BY <1>8 DEF CreateRow, TypeOK
    <2>2. emitter'.created = {d} BY <1>8, <2>1 DEF CreateRow, TypeOK
    <2>3. QED BY <2>2, KeptBy
  <1>9. ASSUME NEW c \in Deliveries, RetryWrite(c), row'[d] # row[d] PROVE Kept(d)
    <2>1. c = d BY <1>9 DEF RetryWrite, TypeOK
    <2>2. QED BY <1>4, <1>9, <2>1
  <1>10. ASSUME NEW c \in Deliveries, RemoveEndpoint(c) PROVE row'[d] = row[d]
    <2>1. c # d BY <1>10 DEF RemoveEndpoint, Exists, TypeOK
    <2>2. QED BY <1>10, <2>1 DEF RemoveEndpoint, TypeOK
  <1>11. CASE row'[d] # row[d]
    BY <1>8, <1>9, <1>10, <1>11
    DEF Emit, AddFirst, EmitError, EmitterCrash, vars, Requests, Promote, Forget, RetryRead, Retry, RetryAdd
  <1>12. QED BY <1>7, <1>11

LEMMA RememberedStep ==
  ASSUME TypeOK, AttemptsInv, ReplaysInv, Held, [Next]_vars, NEW d \in Deliveries, Numbered(d), Remembered(d),
         OneOf(emitter.created), d \in emitter.todo => ~Exists(d)
  PROVE  Remembered(d)'
  <1>1. Exists(d)' => Kept(d) BY StepCases, DroppedStays, HandlingKeeps, OtherHandsOn
  <1>2. QED BY <1>1 DEF Remembered, Kept

LEMMA InitRemember == Init => RememberInv
  <1> SUFFICES ASSUME Init PROVE RememberInv OBVIOUS
  <1>1. OneOf(emitter.created) BY DEF Init, OneOf
  <1>2. ASSUME NEW d \in Deliveries PROVE Numbered(d) /\ Remembered(d)
    <2>1. \A n \in Ids : Unused(d, n) BY DEF Init, Unused
    <2>2. ~Exists(d) BY DEF Init, Exists
    <2>3. QED BY <2>1, <2>2, FirstIsId DEF Numbered, Remembered
  <1>3. QED BY <1>1, <1>2 DEF RememberInv

LEMMA OneUsed ==
  ASSUME NEW m \in Nat, NEW l \in 0..m, NEW k \in 0..m, k = l \/ k = l - 1, m - k <= 1
  PROVE  m - l \in {0, 1} /\ (k = l - 1 => m - l = 0)
  OBVIOUS

LEMMA NextRemember ==
  ASSUME ~SlowAttempts, TypeOK, AttemptsInv, ReplaysInv, PostsInv, RememberInv, [Next]_vars, TypeOK'
  PROVE  RememberInv'
  <1>1. OneOf(emitter.created)' BY EmitterSteps DEF RememberInv, OneOf
  <1>2. ASSUME Used' <= 1, NEW d \in Deliveries PROVE Numbered(d)' /\ Remembered(d)'
    <2>1. Held BY DEF PostsInv
    <2>2. /\ Used \in {0, 1} /\ (left' = left - 1 => Used = 0)
      <3>1. left \in 0..MaxDisturbances /\ left' \in 0..MaxDisturbances /\ MaxDisturbances \in Nat
        BY DeliveryAssumption DEF TypeOK
      <3>2. left' = left \/ left' = left - 1 BY AdminSteps DEF CountStep
      <3>3. MaxDisturbances - left' <= 1 BY <1>2 DEF Used
      <3>4. QED BY <3>1, <3>2, <3>3, OneUsed DEF Used
    <2>3. Calm(d) \/ Shaken(d) BY <2>2 DEF PostsInv
    <2>4. left' = left - 1 => Calm(d) BY <2>2 DEF PostsInv
    <2>5. /\ d \in emitter.todo => ~Exists(d) /\ d \notin emitter.created
      BY <2>3 DEF Calm, Shaken, Waiting, Gone, Fresh, Spent, Twin
    <2>6. Numbered(d) /\ Remembered(d) /\ OneOf(emitter.created)
      <3>1. Used <= 1 BY <2>2
      <3>2. QED BY <3>1 DEF RememberInv
    <2>7. Follow(d) /\ Outlasting(d) BY <2>1, <2>5, StepFollow, OutlastingStep
    <2>8. Numbered(d)' BY <2>1, <2>3, <2>4, <2>6, <2>7, NumberedStep
    <2>9. Remembered(d)' BY <2>1, <2>5, <2>6, RememberedStep
    <2>10. QED BY <2>8, <2>9
  <1>3. QED BY <1>1, <1>2 DEF RememberInv

(* No delivery is forgotten, after one fault or manual retry at most: a row    *)
(* that is neither delivered, abandoned nor deleted, and whose last job no     *)
(* fault has taken, has a slot at work on it, a job that waits, a manual retry *)
(* under way or an emit() about to add its first job.  The ids under which     *)
(* retries are added, and BullMQ's memory of them, never swallow the last one. *)
THEOREM NoneForgotten ==
  ASSUME ~SlowAttempts
  PROVE  Spec => [](Used <= 1 => \A d \in Deliveries : Exists(d) => Settled(d) \/ d \in dropped \/ Toks(d) # {})
  <1>1. Init => PostsInv /\ RememberInv BY InitPosts, InitRemember
  <1>2. IInv /\ IInv' /\ PostsInv /\ RememberInv /\ [Next]_vars => PostsInv' /\ RememberInv'
    BY NextPosts, NextRemember DEF IInv
  <1>3. RememberInv => (Used <= 1 => \A d \in Deliveries : Exists(d) => Settled(d) \/ d \in dropped \/ Toks(d) # {})
    BY DEF RememberInv, Remembered
  <1>4. QED BY <1>1, <1>2, <1>3, AttemptsBounded, PTL DEF Spec
=============================================================================
