-------------------------- MODULE WebhookDelivery --------------------------
(***************************************************************************)
(* Outbound webhooks: the rows emit() writes, one per subscribed endpoint, *)
(* the BullMQ `delivery` jobs that carry them, the worker that posts them  *)
(* and schedules the retries, and the operator's manual retry.             *)
(*                                                                         *)
(* A job's id decides whether queue.add does anything, so ids are kept: 0  *)
(* is `{id}`, n is `{id}-r{n}`, and the ids from MaxAttempts on are the    *)
(* operator's `{id}-admin-{ms}`.  Payloads, signatures and headers are     *)
(* left out; the target check just before a post may refuse it.            *)
(***************************************************************************)
EXTENDS Naturals, FiniteSets, FiniteSetsExt

CONSTANTS
  Deliveries,      \* the deliveries of one event: its subscribed endpoints
  Slots,           \* WEBHOOK_DELIVERY_CONCURRENCY
  MaxAttempts,     \* RETRY_DELAYS_MS.length + 1
  Faults,          \* what may fail: "redis", "db", "crash", "lost"
  SlowAttempts,    \* may a 10-second attempt outlast a retry delay of a minute?
  MaxDisturbances  \* bound: faults and manual retries in a behaviour

ASSUME DeliveryAssumption ==
  /\ MaxAttempts \in Nat \ {0}
  /\ MaxDisturbances \in Nat
  /\ SlowAttempts \in BOOLEAN
  /\ Faults \subseteq {"redis", "db", "crash", "lost"}

VARIABLES
  row,       \* webhook_deliveries: status ("none" if there is no row), attempts
  jobs,      \* the BullMQ jobs of each delivery, by id
  slot,      \* what each slot of the delivery worker is doing
  emitter,   \* the emit() in progress
  admin,     \* deliveries an operator's retry has read ("read") or written ("written")
  acked,     \* deliveries whose endpoint has answered 2xx
  posts,     \* posts made of each delivery
  dropped,   \* deliveries whose last job a fault has taken
  replays,   \* manual retries made
  left       \* disturbances that may still happen

vars == <<row, jobs, slot, emitter, admin, acked, posts, dropped, replays, left>>

First == 0
AdminId(k) == MaxAttempts + k
Ids == 0..(MaxAttempts + MaxDisturbances - 1)

Statuses == {"none", "pending", "failed", "delivered", "abandoned"}
Free == [stage |-> "free"]
Work == [stage : {"load", "post", "mark", "retry", "add", "end"}, d : Deliveries, id : Ids,
         seen : Nat, caught : BOOLEAN, outlasted : SUBSET Ids]
Working(s) == slot[s] # Free
On(s) == slot[s].d
At(s, stage) == Working(s) /\ slot[s].stage = stage

(* Jobs that will still run, or are running. *)
Alive == {"waiting", "delayed", "active"}

TypeOK ==
  /\ row \in [Deliveries -> [status : Statuses, attempts : 0..(MaxAttempts + MaxDisturbances)]]
  /\ jobs \in [Deliveries -> [Ids -> Alive \cup {"absent", "kept"}]]
  /\ slot \in [Slots -> Work \cup {Free}]
  /\ emitter \in [format : {"camaleonic", "standard"},
                  todo : SUBSET Deliveries, created : SUBSET Deliveries]
  /\ admin \in [Deliveries -> {"none", "read", "written"}]
  /\ acked \subseteq Deliveries
  /\ posts \in [Deliveries -> Nat]
  /\ dropped \subseteq Deliveries
  /\ replays \in 0..MaxDisturbances
  /\ left \in 0..MaxDisturbances

(* The event has been emitted to the endpoints that subscribe to it. *)
Init ==
  /\ row = [d \in Deliveries |-> [status |-> "none", attempts |-> 0]]
  /\ jobs = [d \in Deliveries |-> [id \in Ids |-> "absent"]]
  /\ slot = [s \in Slots |-> Free]
  /\ emitter \in [format : {"camaleonic", "standard"}, todo : {Deliveries}, created : {{}}]
  /\ admin = [d \in Deliveries |-> "none"]
  /\ acked = {}
  /\ posts = [d \in Deliveries |-> 0]
  /\ dropped = {}
  /\ replays = 0
  /\ left = MaxDisturbances

Disturb == left > 0 /\ left' = left - 1
Fault(kind) == kind \in Faults /\ Disturb

Exists(d) == row[d].status # "none"

(* queue.add: nothing happens if BullMQ still knows the id. *)
Add(d, id, state) ==
  jobs' = [jobs EXCEPT ![d][id] = IF @ = "absent" THEN state ELSE @]
-----------------------------------------------------------------------------
(* emit() and the standard emitter's enqueue(), endpoint by endpoint. *)

CreateRow(d) ==
  /\ d \in emitter.todo
  /\ emitter.created = {}
  /\ emitter' = [emitter EXCEPT !.todo = @ \ {d}, !.created = {d}]
  /\ row' = [row EXCEPT ![d].status = "pending"]
  /\ UNCHANGED <<jobs, slot, admin, acked, posts, dropped, replays, left>>

AddFirst(d) ==
  /\ d \in emitter.created
  /\ emitter' = [emitter EXCEPT !.created = {}]
  /\ Add(d, First, "waiting")
  /\ UNCHANGED <<row, slot, admin, acked, posts, dropped, replays, left>>

(* create() or add() throws: emit() gives up the remaining endpoints too, *)
(* the standard emitter goes on with the next one.  Nobody is told.       *)
EmitError ==
  /\ \/ Fault("db") /\ emitter.created = {} /\ emitter.todo # {}
     \/ Fault("redis") /\ emitter.created # {}
  /\ \E d \in IF emitter.created = {} THEN emitter.todo ELSE emitter.created :
       emitter' = [emitter EXCEPT
                     !.todo = IF emitter.format = "standard" THEN @ \ {d} ELSE {},
                     !.created = {}]
  /\ dropped' = dropped \cup emitter.created
  /\ UNCHANGED <<row, jobs, slot, admin, acked, posts, replays>>

EmitterCrash ==
  /\ Fault("crash")
  /\ emitter.todo \cup emitter.created # {}
  /\ emitter' = [emitter EXCEPT !.todo = {}, !.created = {}]
  /\ dropped' = dropped \cup emitter.created
  /\ UNCHANGED <<row, jobs, slot, admin, acked, posts, replays>>
-----------------------------------------------------------------------------
(* handleDelivery, one action for each stretch between awaits. *)

Move(s, stage) == slot' = [slot EXCEPT ![s].stage = stage]

Take(s, d, id) ==
  /\ slot[s] = Free
  /\ jobs[d][id] = "waiting"
  /\ jobs' = [jobs EXCEPT ![d][id] = "active"]
  /\ slot' = [slot EXCEPT ![s] = [stage |-> "load", d |-> d, id |-> id, seen |-> 0,
                                  caught |-> FALSE, outlasted |-> {}]]
  /\ UNCHANGED <<row, emitter, admin, acked, posts, dropped, replays, left>>

Settled(d) == row[d].status \in {"none", "delivered", "abandoned"}

Load(s) ==
  /\ At(s, "load")
  /\ IF Settled(On(s))
       THEN Move(s, "end")
       ELSE slot' = [slot EXCEPT ![s].stage = "post", ![s].seen = row[On(s)].attempts]
  /\ UNCHANGED <<row, jobs, emitter, admin, acked, posts, dropped, replays, left>>

(* update() of the row; it throws if the endpoint was deleted meanwhile. *)
Attempts(s) == slot[s].seen + 1
Write(s, status) ==
  /\ Exists(On(s))
  /\ row' = [row EXCEPT ![On(s)] = [status |-> status, attempts |-> Attempts(s)]]

(* The target resolves to an address that must not be posted to: no retry. *)
Reject(s) ==
  /\ At(s, "post")
  /\ Write(s, "abandoned")
  /\ Move(s, "end")
  /\ UNCHANGED <<jobs, emitter, admin, acked, posts, dropped, replays, left>>

Post(s) ==
  /\ At(s, "post")
  /\ posts' = [posts EXCEPT ![On(s)] = @ + 1]
  /\ UNCHANGED <<row, jobs, emitter, admin, dropped, replays, left>>

Accepted(s) ==
  /\ Post(s)
  /\ acked' = acked \cup {On(s)}
  /\ Move(s, "mark")

(* A mutant: any answer counts, as axios' validateStatus lets it. *)
AnyAnswer(s) ==
  /\ Post(s)
  /\ Move(s, "mark")
  /\ UNCHANGED acked

Refused(s) ==
  /\ Post(s)
  /\ Move(s, "retry")
  /\ UNCHANGED acked

(* A network error or the timeout, after which the endpoint may have acted. *)
Unreachable(s) ==
  /\ Post(s)
  /\ slot' = [slot EXCEPT ![s].stage = "retry", ![s].caught = TRUE]
  /\ UNCHANGED acked

MarkDelivered(s) ==
  /\ At(s, "mark")
  /\ Write(s, "delivered")
  /\ Move(s, "end")
  /\ UNCHANGED <<jobs, emitter, admin, acked, posts, dropped, replays, left>>

(* A mutant: one attempt too many. *)
GivesUpLate(n) == n > MaxAttempts
GivesUp(n) == n >= MaxAttempts

Abandon(s) ==
  /\ At(s, "retry")
  /\ GivesUp(Attempts(s))
  /\ Write(s, "abandoned")
  /\ Move(s, "end")
  /\ UNCHANGED <<jobs, emitter, admin, acked, posts, dropped, replays, left>>

MarkFailed(s) ==
  /\ At(s, "retry")
  /\ ~GivesUp(Attempts(s))
  /\ Write(s, "failed")
  /\ Move(s, "add")
  /\ UNCHANGED <<jobs, emitter, admin, acked, posts, dropped, replays, left>>

(* A mutant: the id made from the attempts the handler read. *)
ReadId(s) == slot[s].seen
RetryId(s) == Attempts(s)

(* The delay that starts now is longer than the attempts already under way. *)
AddRetry(s) ==
  LET d == On(s)
      id == RetryId(s)
      others == {t \in Slots \ {s} : Working(t) /\ On(t) = d}
      begun == IF jobs[d][id] = "absent" THEN {id} ELSE {}
  IN  /\ At(s, "add")
      /\ Add(d, id, "delayed")
      /\ slot' = [t \in Slots |->
                    CASE t = s         -> [slot[t] EXCEPT !.stage = "end"]
                      [] t \in others -> [slot[t] EXCEPT !.outlasted = @ \cup begun]
                      [] OTHER         -> slot[t]]
      /\ UNCHANGED <<row, emitter, admin, acked, posts, dropped, replays, left>>

(* What throws outside the try or in its catch fails the job: no retry. *)
FailJob(s) ==
  /\ Move(s, "end")
  /\ dropped' = dropped \cup {On(s)}

(* findUnique throws, or the update of a delivery whose target is rejected. *)
LoadError(s) ==
  /\ \/ At(s, "load") /\ Fault("db")
     \/ At(s, "post") /\ Fault("db")
     \/ At(s, "post") /\ ~Exists(On(s)) /\ UNCHANGED left
  /\ FailJob(s)
  /\ UNCHANGED <<row, jobs, emitter, admin, acked, posts, replays>>

(* What throws inside the try is caught, and scheduleRetry runs once more. *)
Throw(s) ==
  /\ IF slot[s].caught
       THEN FailJob(s)
       ELSE /\ slot' = [slot EXCEPT ![s].stage = "retry", ![s].caught = TRUE]
            /\ UNCHANGED dropped
  /\ UNCHANGED <<row, jobs, emitter, admin, acked, posts, replays>>

WriteError(s) ==
  /\ At(s, "mark") \/ At(s, "retry")
  /\ \/ ~Exists(On(s)) /\ UNCHANGED left
     \/ Fault("db")
  /\ Throw(s)

AddError(s) ==
  /\ At(s, "add")
  /\ Fault("redis")
  /\ Throw(s)

(* The job is over, well or not (attempts: 1), and BullMQ keeps it a while. *)
Return(s) ==
  /\ At(s, "end")
  /\ slot' = [slot EXCEPT ![s] = Free]
  /\ jobs' = [jobs EXCEPT ![On(s)][slot[s].id] = "kept"]
  /\ UNCHANGED <<row, emitter, admin, acked, posts, dropped, replays, left>>

(* The process dies.  BullMQ finds the job stalled and gives it back, once; *)
(* a job that stalls again is failed.                                       *)
WorkerCrash(s) ==
  /\ Working(s)
  /\ slot' = [slot EXCEPT ![s] = Free]
  /\ \/ /\ Fault("crash")
        /\ jobs' = [jobs EXCEPT ![On(s)][slot[s].id] = "waiting"]
        /\ UNCHANGED dropped
     \/ /\ Fault("lost")
        /\ jobs' = [jobs EXCEPT ![On(s)][slot[s].id] = "kept"]
        /\ dropped' = dropped \cup {On(s)}
  /\ UNCHANGED <<row, emitter, admin, acked, posts, replays>>
-----------------------------------------------------------------------------
(* Time, the operator and the customer. *)

(* A retry's delay is over. *)
Promote(d, id) ==
  /\ jobs[d][id] = "delayed"
  /\ SlowAttempts \/ \A s \in Slots : Working(s) => ~(On(s) = d /\ id \in slot[s].outlasted)
  /\ jobs' = [jobs EXCEPT ![d][id] = "waiting"]
  /\ UNCHANGED <<row, slot, emitter, admin, acked, posts, dropped, replays, left>>

(* removeOnComplete and removeOnFail forget the ids of old jobs. *)
Forget(d, id) ==
  /\ jobs[d][id] = "kept"
  /\ jobs' = [jobs EXCEPT ![d][id] = "absent"]
  /\ UNCHANGED <<row, slot, emitter, admin, acked, posts, dropped, replays, left>>

(* retryDelivery reads the row ... *)
RetryRead(d) ==
  /\ Disturb
  /\ admin[d] = "none"
  /\ Exists(d)
  /\ row[d].status # "delivered"
  /\ admin' = [admin EXCEPT ![d] = "read"]
  /\ replays' = replays + 1
  /\ UNCHANGED <<row, jobs, slot, emitter, acked, posts, dropped>>

(* ... writes it, whatever it has become ... *)
RetryWrite(d) ==
  /\ admin[d] = "read"
  /\ IF Exists(d)
       THEN /\ row' = [row EXCEPT ![d].status = "pending"]
            /\ admin' = [admin EXCEPT ![d] = "written"]
       ELSE /\ admin' = [admin EXCEPT ![d] = "none"]
            /\ UNCHANGED row
  /\ UNCHANGED <<jobs, slot, emitter, acked, posts, dropped, replays, left>>

(* ... and enqueues it under an id of its own. *)
RetryAdd(d) ==
  /\ admin[d] = "written"
  /\ admin' = [admin EXCEPT ![d] = "none"]
  /\ \/ /\ Add(d, AdminId(replays - 1), "waiting")
        /\ UNCHANGED <<dropped, left>>
     \/ /\ Fault("redis")
        /\ dropped' = dropped \cup {d}
        /\ UNCHANGED jobs
  /\ UNCHANGED <<row, slot, emitter, acked, posts, replays>>

(* remove(): the endpoint goes, and its deliveries with it. *)
RemoveEndpoint(d) ==
  /\ Exists(d)
  /\ d \notin emitter.created
  /\ row' = [row EXCEPT ![d] = [status |-> "none", attempts |-> 0]]
  /\ UNCHANGED <<jobs, slot, emitter, admin, acked, posts, dropped, replays, left>>
-----------------------------------------------------------------------------
Emit == \E d \in Deliveries : CreateRow(d) \/ AddFirst(d)

Attempt(s) ==
  \/ Load(s) \/ Reject(s)
  \/ Accepted(s) \/ Refused(s) \/ Unreachable(s)
  \/ MarkDelivered(s) \/ Abandon(s) \/ MarkFailed(s) \/ AddRetry(s) \/ Return(s)
  \/ (Working(s) /\ ~Exists(On(s)) /\ WriteError(s))

Retry(d) == RetryWrite(d) \/ RetryAdd(d)

Next ==
  \/ Emit \/ EmitError \/ EmitterCrash
  \/ \E s \in Slots :
       \/ \E d \in Deliveries, id \in Ids : Take(s, d, id)
       \/ Attempt(s) \/ LoadError(s) \/ WriteError(s) \/ AddError(s) \/ WorkerCrash(s)
  \/ \E d \in Deliveries :
       \/ \E id \in Ids : Promote(d, id) \/ Forget(d, id)
       \/ RetryRead(d) \/ Retry(d) \/ RemoveEndpoint(d)

Spec == Init /\ [][Next]_vars

(* The processes that run go on, and BullMQ serves its jobs in turn. *)
Fairness ==
  /\ WF_vars(Emit)
  /\ \A s \in Slots : WF_vars(Attempt(s))
  /\ \A d \in Deliveries :
       /\ WF_vars(Retry(d))
       /\ \A id \in Ids : /\ WF_vars(Promote(d, id))
                          /\ SF_vars(\E s \in Slots : Take(s, d, id))

FairSpec == Spec /\ Fairness
-----------------------------------------------------------------------------
(* A delivery reported as delivered was answered 2xx: no crash, failed write *)
(* or manual retry marks one that the endpoint never accepted.               *)
DeliveredWasAccepted ==
  \A d \in Deliveries : row[d].status = "delivered" => d \in acked

(* Each delivery is posted MaxAttempts times at most, and once more for each  *)
(* fault or manual retry: several chains of jobs of one delivery never        *)
(* multiply its retries.                                                      *)
BoundedPosts ==
  \A d \in Deliveries : posts[d] <= MaxAttempts + (MaxDisturbances - left)

(* No delivery is lost in silence: unless a fault has taken its last job, a *)
(* created row ends up delivered, abandoned or deleted with its endpoint.   *)
(* The ids under which retries are added must not collide.                  *)
NoSilentLoss ==
  \A d \in Deliveries : Exists(d) ~> (Settled(d) \/ d \in dropped)

(* A delivered row is final: the operator's retry refuses delivered rows and *)
(* the worker skips them.                                                    *)
DeliveredIsFinal ==
  [][\A d \in Deliveries :
       row[d].status = "delivered" => row'[d].status \in {"delivered", "none"}]_vars
=============================================================================
