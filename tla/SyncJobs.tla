------------------------------ MODULE SyncJobs ------------------------------
(***************************************************************************)
(* The sync pipeline of the connector: the scheduler's tick, the BullMQ    *)
(* `sync` queue, the workers that run one job each, the Redis throttle     *)
(* lock of every (account, product), the circuit breaker, and the          *)
(* requests that race with them (connect, disconnect, webhooks, manual     *)
(* refresh, the operator's console).                                       *)
(*                                                                         *)
(* Time is abstracted to what the guards read: a row's nextRunAt is null,  *)
(* in the future or due, and a lock's TTL may run out at any moment its    *)
(* holder can have outlived.  Every handler is cut at the awaits where     *)
(* another process can change what it read.                                *)
(***************************************************************************)
EXTENDS Integers, FiniteSets, FiniteSetsExt

CONSTANTS
  Accounts,          \* the connected accounts
  Products,          \* the products synced for each of them
  Workers,           \* job slots: worker processes times their concurrency
  Kinds,             \* what enqueues a job: "scheduled", "webhook", "manual"
  MetaAccounts,      \* accounts the app-level usage pre-flight may defer
  MaxFailures,       \* MAX_CONSECUTIVE_FAILURES
  MaxRowsPerTick,    \* SCHEDULER_MAX_ROWS_PER_TICK
  BackpressureMax,   \* SCHEDULER_BACKPRESSURE_MAX
  SlowSyncs,         \* may a sync outlive the throttle lock's 10-minute TTL?
  ForcedRelease,     \* may an operator delete a throttle lock?
  MaxWaiting,        \* bound: waiting jobs of a kind, for a row
  MaxDisturbances    \* bound: requests, errors and crashes in a behaviour

ASSUME KindsAssumption ==
  /\ "scheduled" \in Kinds
  /\ Kinds \subseteq {"scheduled", "webhook", "manual"}
ASSUME FlagsAssumption ==
  /\ SlowSyncs \in BOOLEAN
  /\ ForcedRelease \in BOOLEAN
  /\ MetaAccounts \subseteq Accounts
ASSUME BoundsAssumption ==
  /\ MaxFailures \in Nat \ {0}
  /\ MaxRowsPerTick \in Nat \ {0}
  /\ BackpressureMax \in Nat \ {0}
  /\ MaxWaiting \in Nat \ {0}
  /\ MaxDisturbances \in Nat

VARIABLES
  account,   \* accounts rows: status, syncTier, and whether a token row exists
  rows,      \* sync_jobs rows: status, nextRunAt, failureCount
  named,     \* rows whose updatedAt is already the id of a BullMQ job
  fresh,     \* rows not rewritten since the running tick read them
  sched,     \* the running tick: rows to enqueue, duplicates, the row to mark
  waiting,   \* waiting BullMQ jobs, by row and kind
  lock,      \* throttle locks
  wk,        \* what each worker is doing
  resched,   \* rows an operator's request has still to reschedule
  left       \* disturbances that may still happen

vars == <<account, rows, named, fresh, sched, waiting, lock, wk, resched, left>>

Rows == Accounts \X Products
Acct(r) == r[1]
RowsOf(a) == {r \in Rows : Acct(r) = a}

(* failureCount is only ever compared with MaxFailures: it saturates above it. *)
FailureCap == MaxFailures + 1
Bump(n) == IF n < FailureCap THEN n + 1 ELSE n

(* The stages of SyncWorker.handle, each ending at an await. *)
Stages == {"load", "token", "skip", "tokenless", "acquire", "throttled",
           "fetch", "resolve", "commit",
           "rated", "revoke", "revoked", "bump", "bumped", "trip"}

(* The stages between a won acquire() and the write or the release that ends it. *)
Critical == {"fetch", "resolve", "commit"}

Idle == [stage |-> "idle"]
Job == [stage : Stages, row : Rows, kind : Kinds, flag : BOOLEAN]
Busy(w) == wk[w] # Idle
RowOf(w) == wk[w].row
At(w, stage) == Busy(w) /\ wk[w].stage = stage
InCritical(w) == Busy(w) /\ wk[w].stage \in Critical
Syncing(r) == {w \in Workers : InCritical(w) /\ RowOf(w) = r}

NoTick == [todo |-> {}, dup |-> {}, added |-> {}]

(* The key holds "1" whoever set it.  The model keeps why it is there, which *)
(* no guard reads: a worker is syncing, a sync succeeded, its worker died.   *)
Held == {"running", "cooldown", "orphan"}

TypeOK ==
  /\ account \in [Accounts -> [status : {"ready", "needs_reauth", "disconnected"},
                               paused : BOOLEAN, token : BOOLEAN]]
  /\ rows \in [Rows -> [status : {"idle", "queued", "failed"},
                        next : {"none", "future", "due"}, failures : 0..FailureCap]]
  /\ named \subseteq Rows
  /\ fresh \subseteq Rows
  /\ sched \in [todo : SUBSET Rows, dup : SUBSET Rows, added : SUBSET Rows]
  /\ waiting \in [Rows \X Kinds -> 0..MaxWaiting]
  /\ lock \in [Rows -> Held \cup {"free"}]
  /\ wk \in [Workers -> Job \cup {Idle}]
  /\ resched \subseteq Rows
  /\ left \in 0..MaxDisturbances

(* seedAccount left every account connected and every job due at once. *)
Init ==
  /\ account = [a \in Accounts |-> [status |-> "ready", paused |-> FALSE, token |-> TRUE]]
  /\ rows = [r \in Rows |-> [status |-> "idle", next |-> "due", failures |-> 0]]
  /\ named = {}
  /\ fresh = {}
  /\ sched = NoTick
  /\ waiting = [j \in Rows \X Kinds |-> 0]
  /\ lock = [r \in Rows |-> "free"]
  /\ wk = [w \in Workers |-> Idle]
  /\ resched = {}
  /\ left = MaxDisturbances

Disturb == left > 0 /\ left' = left - 1

(* A write to sync_jobs also bumps updatedAt, which BullMQ job ids contain. *)
RewriteAll(S, new) ==
  /\ rows' = [r \in Rows |-> IF r \in S THEN new[r] ELSE rows[r]]
  /\ named' = named \ S
  /\ fresh' = fresh \ S
Rewrite(r, new) ==
  /\ rows' = [rows EXCEPT ![r] = new]
  /\ named' = named \ {r}
  /\ fresh' = fresh \ {r}

rowVars == <<rows, named, fresh>>
-----------------------------------------------------------------------------
(* The scheduler: SchedulerService.runTick, one tick at a time (cron lock).  *)

Ticking == sched # NoTick

(* A mutant: the account filter left out of findMany, as if the worker's own *)
(* checks were enough.                                                       *)
AnyAccount(a) == TRUE
Eligible(a) ==
  /\ ~account[a].paused
  /\ account[a].status \notin {"needs_reauth", "disconnected"}

Due == {r \in Rows : /\ rows[r].status = "idle"
                     /\ rows[r].next = "due"
                     /\ Eligible(Acct(r))}

Depth == MapThenSumSet(LAMBDA j : waiting[j], Rows \X Kinds)

Smaller(m, n) == IF m < n THEN m ELSE n

(* BullMQ's getWaitingCount leaves out the jobs that carry a priority, as all *)
(* of these do: the gauge shows any number up to the real depth.              *)
TickFind(picked, blocked) ==
  LET kept == {r \in picked : ~(blocked /\ Acct(r) \in MetaAccounts)}
  IN  /\ ~Ticking
      /\ picked \subseteq Due
      /\ \E gauge \in 0..Depth :
           /\ gauge < BackpressureMax
           /\ Cardinality(picked) =
                Smaller(Smaller(MaxRowsPerTick, BackpressureMax - gauge), Cardinality(Due))
      /\ kept # {}
      /\ sched' = [todo |-> kept, dup |-> named \cap kept, added |-> {}]
      /\ fresh' = kept
      /\ UNCHANGED <<account, rows, named, waiting, lock, wk, resched, left>>

(* queue.add: a no-op when a job with this id, the row and its updatedAt as *)
(* the tick read them, is already in BullMQ.                                *)
EnqueueAdd(r) ==
  /\ r \in sched.todo
  /\ sched.added = {}
  /\ sched' = [sched EXCEPT !.todo = @ \ {r}, !.added = {r}]
  /\ IF r \in sched.dup
       THEN UNCHANGED <<waiting, named>>
       ELSE /\ waiting[<<r, "scheduled">>] < MaxWaiting
            /\ waiting' = [waiting EXCEPT ![<<r, "scheduled">>] = @ + 1]
            /\ named' = named \cup ({r} \cap fresh)
  /\ UNCHANGED <<account, rows, fresh, lock, wk, resched, left>>

(* A mutant: a status nobody looks for. *)
MarkedRunning(row) == [row EXCEPT !.status = "running"]
Marked(row) == [row EXCEPT !.status = "queued"]

EnqueueMark(r) ==
  /\ r \in sched.added
  /\ sched' = IF sched.todo = {} THEN NoTick ELSE [sched EXCEPT !.added = {}]
  /\ Rewrite(r, Marked(rows[r]))
  /\ UNCHANGED <<account, waiting, lock, wk, resched, left>>

(* add() or update() of one row throws: the loop logs it and goes on. *)
EnqueueError(r) ==
  /\ Disturb
  /\ \/ r \in sched.todo /\ sched.added = {}
     \/ r \in sched.added
  /\ sched' = IF sched.todo \ {r} = {} THEN NoTick
              ELSE [sched EXCEPT !.todo = @ \ {r}, !.added = {}]
  /\ UNCHANGED <<account, rows, named, fresh, waiting, lock, wk, resched>>

SchedulerCrash ==
  /\ Disturb
  /\ Ticking
  /\ sched' = NoTick
  /\ UNCHANGED <<account, rows, named, fresh, waiting, lock, wk, resched>>

(* A mutant: the sweep of another status. *)
OrphanIfFailed(r) == rows[r].status = "failed"
Orphan(r) == rows[r].status = "queued"

(* Every 20th tick starts with it: rows 'queued' for over 30 minutes. *)
SweepOrphans(S) ==
  /\ ~Ticking
  /\ S # {}
  /\ \A r \in S : Orphan(r)
  /\ RewriteAll(S, [r \in S |-> [rows[r] EXCEPT !.status = "idle"]])
  /\ UNCHANGED <<account, sched, waiting, lock, wk, resched, left>>
-----------------------------------------------------------------------------
(* The worker: SyncWorker.handle, one action for each stretch between awaits. *)

Become(w, job) == wk' = [wk EXCEPT ![w] = job]
GoTo(w, stage) == Become(w, [wk[w] EXCEPT !.stage = stage])

Take(w, r, k) ==
  /\ wk[w] = Idle
  /\ waiting[<<r, k>>] > 0
  /\ waiting' = [waiting EXCEPT ![<<r, k>>] = @ - 1]
  /\ Become(w, [stage |-> "load", row |-> r, kind |-> k, flag |-> FALSE])
  /\ UNCHANGED <<account, rows, named, fresh, sched, lock, resched, left>>

(* findUnique with `include: { tokens }` is two queries: the account first ... *)
LoadAccount(w) ==
  LET acc == account[Acct(RowOf(w))]
  IN  /\ At(w, "load")
      /\ IF acc.paused \/ acc.status \in {"needs_reauth", "disconnected"}
           THEN GoTo(w, "skip")
           ELSE GoTo(w, "token")
      /\ UNCHANGED <<account, rows, named, fresh, sched, waiting, lock, resched, left>>

(* ... then its token. *)
LoadToken(w) ==
  /\ At(w, "token")
  /\ GoTo(w, IF account[Acct(RowOf(w))].token THEN "acquire" ELSE "tokenless")
  /\ UNCHANGED <<account, rows, named, fresh, sched, waiting, lock, resched, left>>

(* markJobSkipped: nextRunAt stays as it is. *)
MarkSkipped(w) ==
  /\ At(w, "skip")
  /\ Rewrite(RowOf(w), [rows[RowOf(w)] EXCEPT !.status = "idle"])
  /\ Become(w, Idle)
  /\ UNCHANGED <<account, sched, waiting, lock, resched, left>>

MarkFailed(w) ==
  /\ At(w, "tokenless")
  /\ Rewrite(RowOf(w), [rows[RowOf(w)] EXCEPT !.status = "failed", !.failures = Bump(@)])
  /\ Become(w, Idle)
  /\ UNCHANGED <<account, sched, waiting, lock, resched, left>>

(* A mutant: SET without NX. *)
AlwaysWins(r) == TRUE
WinsLock(r) == lock[r] = "free"

(* SET throttle:{account}:{product} NX EX 600 *)
Acquire(w) ==
  LET r == RowOf(w)
  IN  /\ At(w, "acquire")
      /\ IF WinsLock(r)
           THEN lock' = [lock EXCEPT ![r] = "running"] /\ GoTo(w, "fetch")
           ELSE GoTo(w, "throttled") /\ UNCHANGED lock
      /\ UNCHANGED <<account, rows, named, fresh, sched, waiting, resched, left>>

(* A mutant: the throttled worker releases the lock on its way out. *)
MarkThrottledFinally(w) ==
  /\ At(w, "throttled")
  /\ Rewrite(RowOf(w), [rows[RowOf(w)] EXCEPT !.status = "idle", !.next = "future"])
  /\ lock' = [lock EXCEPT ![RowOf(w)] = "free"]
  /\ Become(w, Idle)
  /\ UNCHANGED <<account, sched, waiting, resched, left>>

(* Now + 60 s, and no re-enqueue. *)
MarkThrottled(w) ==
  /\ At(w, "throttled")
  /\ Rewrite(RowOf(w), [rows[RowOf(w)] EXCEPT !.status = "idle", !.next = "future"])
  /\ Become(w, Idle)
  /\ UNCHANGED <<account, sched, waiting, lock, resched, left>>

(* The fetch, the canonical write, the event and the webhooks all succeeded. *)
Fetched(w) ==
  /\ At(w, "fetch")
  /\ GoTo(w, "resolve")
  /\ UNCHANGED <<account, rows, named, fresh, sched, waiting, lock, resched, left>>

(* scheduleNextRun: resolveNextRunAt reads the tier (null when paused) ... *)
ResolveNext(w) ==
  /\ At(w, "resolve")
  /\ Become(w, [wk[w] EXCEPT !.stage = "commit", !.flag = account[Acct(RowOf(w))].paused])
  /\ UNCHANGED <<account, rows, named, fresh, sched, waiting, lock, resched, left>>

(* ... then the row is written.  The lock stays: it is the cooldown. *)
CommitSuccess(w) ==
  LET r == RowOf(w)
  IN  /\ At(w, "commit")
      /\ Rewrite(r, [status |-> "idle", failures |-> 0,
                     next |-> IF wk[w].flag THEN "none" ELSE "future"])
      /\ lock' = [lock EXCEPT ![r] = IF @ = "free" THEN "free" ELSE "cooldown"]
      /\ Become(w, Idle)
      /\ UNCHANGED <<account, sched, waiting, resched, left>>

(* Anything thrown inside the try: the catch first deletes the lock's key, *)
(* whoever set it, then tells the errors apart.                            *)
(* A mutant: the catch that keeps the lock. *)
NotReleased(r) == lock
Released(r) == [lock EXCEPT ![r] = "free"]

Handlers(w) == IF At(w, "fetch") THEN {"rated", "revoke", "bump"} ELSE {"bump"}

Throw(w, handler) ==
  /\ InCritical(w)
  /\ handler \in Handlers(w)
  /\ lock' = Released(RowOf(w))
  /\ GoTo(w, handler)
  /\ UNCHANGED <<account, rows, named, fresh, sched, waiting, resched, left>>

(* The same with Redis failing the DEL: `.catch(() => undefined)`. *)
ThrowUnreleased(w, handler) ==
  /\ Disturb
  /\ InCritical(w)
  /\ handler \in Handlers(w)
  /\ lock' = [lock EXCEPT ![RowOf(w)] = IF @ = "free" THEN "free" ELSE "orphan"]
  /\ GoTo(w, handler)
  /\ UNCHANGED <<account, rows, named, fresh, sched, waiting, resched>>

(* RateLimitedError *)
MarkRateLimited(w) ==
  /\ At(w, "rated")
  /\ Rewrite(RowOf(w), [rows[RowOf(w)] EXCEPT !.status = "idle", !.next = "future"])
  /\ Become(w, Idle)
  /\ UNCHANGED <<account, sched, waiting, lock, resched, left>>

(* TokenRevokedError: the account's status is overwritten unread ... *)
RevokeAccount(w) ==
  /\ At(w, "revoke")
  /\ account' = [account EXCEPT ![Acct(RowOf(w))].status = "needs_reauth"]
  /\ GoTo(w, "revoked")
  /\ UNCHANGED <<rows, named, fresh, sched, waiting, lock, resched, left>>

(* ... and after the events the row goes back to idle. *)
MarkRevoked(w) ==
  /\ At(w, "revoked")
  /\ Rewrite(RowOf(w), [rows[RowOf(w)] EXCEPT !.status = "idle"])
  /\ Become(w, Idle)
  /\ UNCHANGED <<account, sched, waiting, lock, resched, left>>

(* A mutant: the breaker that trips on one count only. *)
TripsExactly(n) == n + 1 = MaxFailures
Trips(n) == n + 1 >= MaxFailures

(* bumpFailure reads the count ... *)
BumpRead(w) ==
  /\ At(w, "bump")
  /\ Become(w, [wk[w] EXCEPT !.stage = "bumped",
                             !.flag = Trips(rows[RowOf(w)].failures)])
  /\ UNCHANGED <<account, rows, named, fresh, sched, waiting, lock, resched, left>>

(* ... increments the stored one and backs off ... *)
BumpWrite(w) ==
  /\ At(w, "bumped")
  /\ Rewrite(RowOf(w), [status |-> "idle", next |-> "future",
                        failures |-> Bump(rows[RowOf(w)].failures)])
  /\ IF wk[w].flag THEN GoTo(w, "trip") ELSE Become(w, Idle)
  /\ UNCHANGED <<account, sched, waiting, lock, resched, left>>

(* ... and trips the breaker on the count it read. *)
TripBreaker(w) ==
  /\ At(w, "trip")
  /\ account' = [account EXCEPT ![Acct(RowOf(w))].paused = TRUE]
  /\ Become(w, Idle)
  /\ UNCHANGED <<rows, named, fresh, sched, waiting, lock, resched, left>>

(* The process dies, or a write outside the try throws (attempts: 1).  BullMQ *)
(* moves a dead worker's job back to waiting when it finds it stalled.        *)
Abort(w, requeue) ==
  LET r == RowOf(w)
      j == <<r, wk[w].kind>>
  IN  /\ Disturb
      /\ Busy(w)
      /\ Become(w, Idle)
      /\ lock' = [lock EXCEPT ![r] = IF InCritical(w) /\ @ # "free" THEN "orphan" ELSE @]
      /\ IF requeue
           THEN waiting[j] < MaxWaiting /\ waiting' = [waiting EXCEPT ![j] = @ + 1]
           ELSE UNCHANGED waiting
      /\ UNCHANGED <<account, rows, named, fresh, sched, resched>>
-----------------------------------------------------------------------------
(* Requests, webhooks and crons that touch the same state.                   *)

(* The transaction of seedAccount on a known account. *)
Reseed(a) ==
  LET wasPaused == account[a].paused
  IN  /\ Disturb
      /\ account' = [account EXCEPT ![a] =
                       [status |-> "ready", paused |-> FALSE, token |-> TRUE]]
      /\ RewriteAll(RowsOf(a),
           [r \in RowsOf(a) |-> [status |-> "idle", next |-> "due",
                                 failures |-> IF wasPaused THEN 0 ELSE rows[r].failures]])
      /\ UNCHANGED <<sched, waiting, lock, wk, resched>>

(* The transaction of disconnectAccount. *)
Disconnect(a) ==
  /\ Disturb
  /\ account' = [account EXCEPT ![a].status = "disconnected", ![a].token = FALSE]
  /\ RewriteAll(RowsOf(a),
       [r \in RowsOf(a) |-> [rows[r] EXCEPT !.status = "idle", !.next = "none"]])
  /\ UNCHANGED <<sched, waiting, lock, wk, resched>>

(* The token crons, whose own races are not this module's: a dead grant is *)
(* flagged, a healthy probe heals the account.                             *)
TokenCron(a) ==
  /\ Disturb
  /\ account[a].token
  /\ account' = [account EXCEPT ![a].status =
                   IF @ = "ready" THEN "needs_reauth" ELSE "ready"]
  /\ UNCHANGED <<rows, named, fresh, sched, waiting, lock, wk, resched>>

Push(r, k) ==
  /\ Disturb
  /\ waiting[<<r, k>>] < MaxWaiting
  /\ waiting' = [waiting EXCEPT ![<<r, k>>] = @ + 1]
  /\ UNCHANGED <<account, rows, named, fresh, sched, lock, wk, resched>>

(* An inbound webhook enqueues a job unless the account is disconnected. *)
WebhookPush(r) ==
  /\ "webhook" \in Kinds
  /\ account[Acct(r)].status # "disconnected"
  /\ Push(r, "webhook")

(* runRefresh, within what its 60 s lock per row lets through. *)
ManualRefresh(r) ==
  /\ "manual" \in Kinds
  /\ ~account[Acct(r)].paused
  /\ account[Acct(r)].status # "needs_reauth"
  /\ Push(r, "manual")

PauseAccount(a) ==
  /\ Disturb
  /\ account' = [account EXCEPT ![a].paused = TRUE]
  /\ UNCHANGED <<rows, named, fresh, sched, waiting, lock, wk, resched>>

(* updateSyncTier and unpauseAccount: the tier, then job by job nextRunAt. *)
SetSyncTier(a, paused) ==
  /\ Disturb
  /\ account' = [account EXCEPT ![a].paused = paused]
  /\ resched' = resched \cup RowsOf(a)
  /\ UNCHANGED <<rows, named, fresh, sched, waiting, lock, wk>>

RescheduleJob(r) ==
  /\ r \in resched
  /\ resched' = resched \ {r}
  /\ Rewrite(r, [rows[r] EXCEPT !.next = IF account[Acct(r)].paused THEN "none" ELSE "future"])
  /\ UNCHANGED <<account, sched, waiting, lock, wk, left>>

(* updateCadence recomputes nextRunAt of a product's jobs, whatever they do. *)
ChangeCadence(p) ==
  /\ Disturb
  /\ resched' = resched \cup {r \in Rows : r[2] = p}
  /\ UNCHANGED <<account, rows, named, fresh, sched, waiting, lock, wk>>

ReenqueueSyncJob(r) ==
  /\ Disturb
  /\ Rewrite(r, [rows[r] EXCEPT !.status = "idle", !.next = "due"])
  /\ UNCHANGED <<account, sched, waiting, lock, wk, resched>>

ReleaseThrottleLock(r) ==
  /\ ForcedRelease
  /\ Disturb
  /\ lock[r] # "free"
  /\ lock' = [lock EXCEPT ![r] = "free"]
  /\ UNCHANGED <<account, rows, named, fresh, sched, waiting, wk, resched>>
-----------------------------------------------------------------------------
(* Time. *)

BecomeDue(r) ==
  /\ rows[r].next = "future"
  /\ rows' = [rows EXCEPT ![r].next = "due"]
  /\ UNCHANGED <<account, named, fresh, sched, waiting, lock, wk, resched, left>>

(* A mutant: the TTL set when the sync succeeds instead of with the SET NX. *)
ExpiresAfterSuccess(r) == lock[r] = "cooldown"
HasTtl(r) == lock[r] # "free"

LockExpires(r) ==
  /\ HasTtl(r)
  /\ SlowSyncs \/ Syncing(r) = {}
  /\ lock' = [lock EXCEPT ![r] = "free"]
  /\ UNCHANGED <<account, rows, named, fresh, sched, waiting, wk, resched, left>>
-----------------------------------------------------------------------------
Scheduler ==
  \/ \E picked \in SUBSET Due, blocked \in BOOLEAN : TickFind(picked, blocked)
  \/ \E r \in Rows : EnqueueAdd(r) \/ EnqueueMark(r) \/ EnqueueError(r)
  \/ SchedulerCrash
  \/ \E S \in SUBSET Rows : SweepOrphans(S)

(* One worker's run through a job, once it has one. *)
WorkerStep(w) ==
  \/ LoadAccount(w) \/ LoadToken(w) \/ MarkSkipped(w) \/ MarkFailed(w)
  \/ Acquire(w) \/ MarkThrottled(w)
  \/ Fetched(w) \/ ResolveNext(w) \/ CommitSuccess(w)
  \/ \E handler \in {"rated", "revoke", "bump"} : Throw(w, handler)
  \/ MarkRateLimited(w) \/ RevokeAccount(w) \/ MarkRevoked(w)
  \/ BumpRead(w) \/ BumpWrite(w) \/ TripBreaker(w)

Worker(w) ==
  \/ \E r \in Rows, k \in Kinds : Take(w, r, k)
  \/ WorkerStep(w)
  \/ \E handler \in {"rated", "revoke", "bump"} : ThrowUnreleased(w, handler)
  \/ \E requeue \in BOOLEAN : Abort(w, requeue)

Requests ==
  \/ \E a \in Accounts :
       \/ Reseed(a) \/ Disconnect(a) \/ TokenCron(a) \/ PauseAccount(a)
       \/ \E paused \in BOOLEAN : SetSyncTier(a, paused)
  \/ \E r \in Rows :
       \/ WebhookPush(r) \/ ManualRefresh(r) \/ RescheduleJob(r)
       \/ ReenqueueSyncJob(r) \/ ReleaseThrottleLock(r)
  \/ \E p \in Products : ChangeCadence(p)

Clock == \E r \in Rows : BecomeDue(r) \/ LockExpires(r)

Next == Scheduler \/ (\E w \in Workers : Worker(w)) \/ Requests \/ Clock

Spec == Init /\ [][Next]_vars

(* The tick timer, the workers and the clock go on; nothing else must happen. *)
(* A row waits its turn: findMany orders by nextRunAt and BullMQ is first in, *)
(* first out within a priority, so a row that keeps coming up is served.      *)
Fairness ==
  /\ \A r \in Rows :
       /\ SF_vars(\E picked \in SUBSET Due : r \in picked /\ TickFind(picked, FALSE))
       /\ SF_vars(\E S \in SUBSET Rows : r \in S /\ SweepOrphans(S))
       /\ SF_vars(\E w \in Workers, k \in Kinds : Take(w, r, k))
       /\ WF_vars(EnqueueAdd(r))
       /\ WF_vars(EnqueueMark(r))
       /\ WF_vars(RescheduleJob(r))
       /\ WF_vars(BecomeDue(r))
       /\ WF_vars(LockExpires(r))
  /\ \A w \in Workers : WF_vars(WorkerStep(w))

FairSpec == Spec /\ Fairness
-----------------------------------------------------------------------------
(* Safety. *)

(* A row is synced by one worker at a time (throttle.acquire before the try). *)
(* It needs every sync to end within the lock's TTL and nobody to delete the  *)
(* key by hand, since release() does not check who set it.                    *)
SyncMutex == \A r \in Rows : Cardinality(Syncing(r)) <= 1

(* A lock is held only to protect a running sync, as the cooldown after a     *)
(* successful one, or because its holder died or could not reach Redis: no    *)
(* failed sync leaves its row throttled (the comment on the catch block).     *)
LockJustified == \A r \in Rows : lock[r] = "running" => Syncing(r) # {}

(* The lock as its users see it: one sync at a time and a cooldown after it.  *)
Exclusive == INSTANCE ExclusiveSync
  WITH busy <- [r \in Rows |-> Syncing(r)],
       cooling <- {r \in Rows : lock[r] \in {"cooldown", "orphan"}}

(* The pipeline implements ExclusiveSync, with the same two provisos: a retry *)
(* or a duplicate job starts no sync beside a running one or in the cooldown. *)
ImplementsExclusive == Exclusive!Spec

-----------------------------------------------------------------------------
(* Liveness. *)

(* No row stays 'queued': if its job is lost, or ran before the scheduler     *)
(* marked the row, the orphan sweep recovers it.                              *)
QueuedResolves ==
  \A r \in Rows : (rows[r].status = "queued") ~> (rows[r].status # "queued")

Live(r) ==
  /\ account[Acct(r)] = [status |-> "ready", paused |-> FALSE, token |-> TRUE]
  /\ rows[r].status # "failed"
  /\ rows[r].next # "none"

(* A connected row that is not parked is fetched again and again, whatever    *)
(* crashes, duplicates and lost jobs happened before.                         *)
LiveRowKeepsSyncing ==
  \A r \in Rows : []<>(~Live(r) \/ Syncing(r) # {})

Stopped(a) == account[a].paused \/ account[a].status # "ready"

Quiet(a) ==
  /\ \A r \in RowsOf(a) : rows[r].status # "queued" /\ \A k \in Kinds : waiting[<<r, k>>] = 0
  /\ \A w \in Workers : Busy(w) => Acct(RowOf(w)) # a

(* A paused, dead or disconnected account comes to rest: the jobs it had are  *)
(* skipped and none is enqueued again, although a skip leaves nextRunAt due   *)
(* (the scheduler's filter is there to avoid just that loop).                 *)
StoppedQuiesces == \A a \in Accounts : <>[]Stopped(a) => <>[]Quiet(a)

Failing(r) == \E w \in Workers : At(w, "bumped") /\ RowOf(w) = r

(* The breaker works, even if a crash or an unpause takes the count past its  *)
(* threshold: a row that fails over and over is paused again and again, or    *)
(* has succeeded or been reset in between.                                    *)
BreakerTrips ==
  \A r \in Rows :
    []<>Failing(r) => []<>(account[Acct(r)].paused \/ rows[r].failures = 0)
=============================================================================
