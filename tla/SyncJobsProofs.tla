--------------------------- MODULE SyncJobsProofs ---------------------------
(* Theorems about SyncJobs, for all accounts, products, workers and bounds:  *)
(* its type invariant, and what its lock guarantees.                         *)
EXTENDS SyncJobs, FiniteSetTheorems, TLAPS

AccountRecord == [status : {"ready", "needs_reauth", "disconnected"},
                  paused : BOOLEAN, token : BOOLEAN]
RowRecord == [status : {"idle", "queued", "failed"},
              next : {"none", "future", "due"}, failures : 0..FailureCap]

(* What TypeOK says of the variables the scheduler and the requests write. *)
LEMMA RowTyped ==
  ASSUME TypeOK, NEW r \in Rows
  PROVE  /\ rows[r] \in RowRecord
         /\ Acct(r) \in Accounts
         /\ account[Acct(r)] \in AccountRecord
  BY DEF TypeOK, RowRecord, AccountRecord, Rows, Acct

(* A saturated increment stays in range. *)
LEMMA BumpTyped ==
  ASSUME NEW n \in 0..FailureCap
  PROVE  Bump(n) \in 0..FailureCap
  BY BoundsAssumption DEF Bump, FailureCap

(* A rewritten row keeps the types of rows, named and fresh. *)
LEMMA RewriteTyped ==
  ASSUME TypeOK, NEW r \in Rows, NEW new \in RowRecord, Rewrite(r, new)
  PROVE  /\ rows' \in [Rows -> RowRecord]
         /\ named' \subseteq Rows
         /\ fresh' \subseteq Rows
  BY DEF TypeOK, Rewrite, RowRecord

(* So does a batch of them. *)
LEMMA RewriteAllTyped ==
  ASSUME TypeOK, NEW S \in SUBSET Rows, NEW new \in [S -> RowRecord], RewriteAll(S, new)
  PROVE  /\ rows' \in [Rows -> RowRecord]
         /\ named' \subseteq Rows
         /\ fresh' \subseteq Rows
  BY DEF TypeOK, RewriteAll, RowRecord

(* A busy worker holds a well-formed job on some row. *)
LEMMA BusyTyped ==
  ASSUME TypeOK, NEW w \in Workers, Busy(w)
  PROVE  wk[w] \in Job /\ RowOf(w) \in Rows
  BY DEF TypeOK, Busy, Job, RowOf

(* A worker that moves to another stage still holds a well-formed job. *)
LEMMA GoToTyped ==
  ASSUME TypeOK, NEW w \in Workers, Busy(w), NEW stage \in Stages, GoTo(w, stage)
  PROVE  wk' \in [Workers -> Job \cup {Idle}]
  <1>1. wk[w] \in Job
    BY BusyTyped
  <1>2. [wk[w] EXCEPT !.stage = stage] \in Job
    BY <1>1 DEF Job
  <1>3. QED
    BY <1>2 DEF TypeOK, GoTo, Become

(* A worker that takes or drops a job keeps the type of wk. *)
LEMMA BecomeTyped ==
  ASSUME TypeOK, NEW w \in Workers, NEW job \in Job \cup {Idle}, Become(w, job)
  PROVE  wk' \in [Workers -> Job \cup {Idle}]
  BY DEF TypeOK, Become

(* The bound on disturbances counts down to zero. *)
LEMMA DisturbTyped ==
  ASSUME TypeOK, Disturb
  PROVE  left' \in 0..MaxDisturbances
  BY BoundsAssumption DEF TypeOK, Disturb

(* A step that leaves the tick, the queue, the locks and the workers alone. *)
LEMMA RewriteStepTyped ==
  ASSUME TypeOK, UNCHANGED <<sched, waiting, lock>>,
         account' \in [Accounts -> AccountRecord], rows' \in [Rows -> RowRecord],
         named' \subseteq Rows, fresh' \subseteq Rows, wk' \in [Workers -> Job \cup {Idle}],
         resched' \subseteq Rows, left' \in 0..MaxDisturbances
  PROVE  TypeOK'
  BY DEF TypeOK, RowRecord, AccountRecord

LEMMA Parts ==
  ASSUME TypeOK
  PROVE  /\ account \in [Accounts -> AccountRecord] /\ rows \in [Rows -> RowRecord]
         /\ named \subseteq Rows /\ fresh \subseteq Rows /\ wk \in [Workers -> Job \cup {Idle}]
         /\ resched \subseteq Rows /\ left \in 0..MaxDisturbances
  BY DEF TypeOK, RowRecord, AccountRecord

(* Writes to an account's row. *)
LEMMA AccountTyped ==
  ASSUME TypeOK, NEW a \in Accounts, NEW x \in AccountRecord, account' = [account EXCEPT ![a] = x]
  PROVE  account' \in [Accounts -> AccountRecord]
  BY Parts

LEMMA PausedTyped ==
  ASSUME TypeOK, NEW a \in Accounts, NEW paused \in BOOLEAN, account' = [account EXCEPT ![a].paused = paused]
  PROVE  account' \in [Accounts -> AccountRecord]
  <1>1. account[a] \in AccountRecord
    BY Parts
  <1>2. [account[a] EXCEPT !.paused = paused] \in AccountRecord
    BY <1>1 DEF AccountRecord
  <1>3. QED
    BY <1>2, AccountTyped

(* One queue counter changed within its bound keeps the type of waiting. *)
LEMMA WaitingTyped ==
  ASSUME TypeOK, NEW r \in Rows, NEW k \in Kinds, NEW n \in 0..MaxWaiting,
         waiting' = [waiting EXCEPT ![<<r, k>>] = n]
  PROVE  waiting' \in [Rows \X Kinds -> 0..MaxWaiting]
  <1>1. <<r, k>> \in Rows \X Kinds
    OBVIOUS
  <1> DEFINE D == Rows \X Kinds
             j == <<r, k>>
  <1>2. waiting \in [D -> 0..MaxWaiting] /\ j \in D
    BY <1>1 DEF TypeOK
  <1>3. waiting' = [waiting EXCEPT ![j] = n]
    OBVIOUS
  <1> HIDE DEF D, j
  <1>4. waiting' \in [D -> 0..MaxWaiting]
    BY <1>2, <1>3
  <1>5. QED
    BY <1>4 DEF D

(* The counter of a row and a kind is within its bound. *)
LEMMA WaitingCount ==
  ASSUME TypeOK, NEW r \in Rows, NEW k \in Kinds
  PROVE  waiting[<<r, k>>] \in 0..MaxWaiting
  <1>1. <<r, k>> \in Rows \X Kinds
    OBVIOUS
  <1>2. QED
    BY <1>1 DEF TypeOK
-----------------------------------------------------------------------------
(* Seeded accounts, due jobs and an empty queue are well-typed. *)
LEMMA InitTyped == Init => TypeOK
  BY KindsAssumption, BoundsAssumption
     DEF Init, TypeOK, NoTick, Idle, FailureCap, Rows

(* The tick and the orphan sweep keep the types. *)
LEMMA SchedulerTyped == TypeOK /\ Scheduler => TypeOK'
  <1> SUFFICES ASSUME TypeOK, Scheduler PROVE TypeOK'
    OBVIOUS
  <1>1. ASSUME NEW picked \in SUBSET Due, NEW blocked \in BOOLEAN, TickFind(picked, blocked)
        PROVE  TypeOK'
    BY <1>1 DEF TickFind, TypeOK, Due
  <1>2. ASSUME NEW r \in Rows, EnqueueAdd(r) PROVE TypeOK'
    <2>1. CASE r \in sched.dup
      BY <1>2, <2>1 DEF EnqueueAdd, TypeOK
    <2>2. CASE r \notin sched.dup
      <3> DEFINE n == waiting[<<r, "scheduled">>]
      <3>1. n \in 0..MaxWaiting /\ n + 1 \in 0..MaxWaiting
        BY <1>2, <2>2, WaitingCount, KindsAssumption, BoundsAssumption DEF EnqueueAdd
      <3>2. waiting' \in [Rows \X Kinds -> 0..MaxWaiting]
        BY <1>2, <2>2, <3>1, WaitingTyped, KindsAssumption DEF EnqueueAdd
      <3>3. QED
        BY <1>2, <2>2, <3>2 DEF EnqueueAdd, TypeOK
    <2>3. QED
      BY <2>1, <2>2
  <1>3. ASSUME NEW r \in Rows, EnqueueMark(r) PROVE TypeOK'
    <2>1. Marked(rows[r]) \in RowRecord
      BY RowTyped DEF Marked, RowRecord
    <2>2. rows' \in [Rows -> RowRecord] /\ named' \subseteq Rows /\ fresh' \subseteq Rows
      BY <1>3, <2>1, RewriteTyped DEF EnqueueMark
    <2>3. QED
      BY <1>3, <2>2 DEF EnqueueMark, TypeOK, RowRecord, NoTick
  <1>4. ASSUME NEW r \in Rows, EnqueueError(r) PROVE TypeOK'
    BY <1>4, DisturbTyped DEF EnqueueError, TypeOK, NoTick
  <1>5. CASE SchedulerCrash
    BY <1>5, DisturbTyped DEF SchedulerCrash, TypeOK, NoTick
  <1>6. ASSUME NEW S \in SUBSET Rows, SweepOrphans(S) PROVE TypeOK'
    <2>1. [r \in S |-> [rows[r] EXCEPT !.status = "idle"]] \in [S -> RowRecord]
      BY RowTyped DEF RowRecord
    <2>2. rows' \in [Rows -> RowRecord] /\ named' \subseteq Rows /\ fresh' \subseteq Rows
      BY <1>6, <2>1, RewriteAllTyped DEF SweepOrphans
    <2>3. QED
      BY <1>6, <2>2 DEF SweepOrphans, TypeOK, RowRecord
  <1>7. QED
    BY <1>1, <1>2, <1>3, <1>4, <1>5, <1>6 DEF Scheduler

(* So does every stretch of a worker's run through a job. *)
LEMMA WorkerTyped == ASSUME NEW w \in Workers PROVE TypeOK /\ Worker(w) => TypeOK'
  <1> SUFFICES ASSUME TypeOK, Worker(w) PROVE TypeOK'
    OBVIOUS
  <1> DEFINE r == RowOf(w)
  <1>a. Idle \in Job \cup {Idle}
    OBVIOUS
  <1>b. ASSUME Busy(w)
        PROVE  /\ r \in Rows
               /\ rows[r] \in RowRecord
               /\ Acct(r) \in Accounts
               /\ wk[w] \in Job
               /\ wk[w].kind \in Kinds
    BY <1>b, BusyTyped, RowTyped DEF Job
  <1>c. ASSUME Busy(w),
               NEW new \in RowRecord, Rewrite(r, new), Become(w, Idle),
               account' = account, sched' = sched, waiting' = waiting,
               lock' = lock, resched' = resched, left' = left
        PROVE  TypeOK'
    <2>1. rows' \in [Rows -> RowRecord] /\ named' \subseteq Rows /\ fresh' \subseteq Rows
      BY <1>b, <1>c, RewriteTyped
    <2>2. wk' \in [Workers -> Job \cup {Idle}]
      BY <1>a, <1>c, BecomeTyped
    <2>3. QED
      BY <1>c, <2>1, <2>2 DEF TypeOK, RowRecord
  <1>d. ASSUME Busy(w), NEW stage \in Stages, GoTo(w, stage),
               account' = account, rows' = rows, named' = named, fresh' = fresh,
               sched' = sched, waiting' = waiting, resched' = resched,
               lock' \in [Rows -> Held \cup {"free"}], left' \in 0..MaxDisturbances
        PROVE  TypeOK'
    <2>1. wk' \in [Workers -> Job \cup {Idle}]
      BY <1>d, GoToTyped
    <2>2. QED
      BY <1>d, <2>1 DEF TypeOK
  <1>e. lock \in [Rows -> Held \cup {"free"}] /\ left \in 0..MaxDisturbances
    BY DEF TypeOK
  <1>1. ASSUME NEW q \in Rows, NEW k \in Kinds, Take(w, q, k) PROVE TypeOK'
    <2>1. [stage |-> "load", row |-> q, kind |-> k, flag |-> FALSE] \in Job
      BY DEF Job, Stages
    <2>2. wk' \in [Workers -> Job \cup {Idle}]
      BY <1>1, <2>1, BecomeTyped DEF Take
    <2>3. waiting[<<q, k>>] \in 0..MaxWaiting /\ waiting[<<q, k>>] - 1 \in 0..MaxWaiting
      BY <1>1, WaitingCount, BoundsAssumption DEF Take
    <2>4. waiting' \in [Rows \X Kinds -> 0..MaxWaiting]
      BY <1>1, <2>3, WaitingTyped DEF Take
    <2>5. QED
      BY <1>1, <2>2, <2>4 DEF Take, TypeOK
  <1>2. CASE LoadAccount(w)
    <2>1. CASE GoTo(w, "skip")
      BY <1>2, <2>1, <1>d, <1>e DEF LoadAccount, At, Stages
    <2>2. CASE GoTo(w, "token")
      BY <1>2, <2>2, <1>d, <1>e DEF LoadAccount, At, Stages
    <2>3. QED
      BY <1>2, <2>1, <2>2 DEF LoadAccount
  <1>3. CASE LoadToken(w)
    <2>1. PICK stage \in {"acquire", "tokenless"} : GoTo(w, stage)
      BY <1>3 DEF LoadToken
    <2>2. stage \in Stages
      BY DEF Stages
    <2>3. QED
      BY <1>3, <2>1, <2>2, <1>d, <1>e DEF LoadToken, At
  <1>4. CASE MarkSkipped(w)
    <2>1. [rows[r] EXCEPT !.status = "idle"] \in RowRecord
      BY <1>4, <1>b DEF MarkSkipped, At, RowRecord
    <2>2. QED
      BY <1>4, <2>1, <1>c DEF MarkSkipped, At
  <1>5. CASE MarkFailed(w)
    <2>1. Bump(rows[r].failures) \in 0..FailureCap
      BY <1>5, <1>b, BumpTyped DEF MarkFailed, At, RowRecord
    <2>2. [rows[r] EXCEPT !.status = "failed", !.failures = Bump(@)] \in RowRecord
      BY <1>5, <2>1, <1>b DEF MarkFailed, At, RowRecord
    <2>3. QED
      BY <1>5, <2>2, <1>c DEF MarkFailed, At
  <1>6. CASE Acquire(w)
    <2>1. lock' \in [Rows -> Held \cup {"free"}]
      BY <1>6, <1>b, <1>e DEF Acquire, Held
    <2>2. PICK stage \in {"fetch", "throttled"} : GoTo(w, stage)
      BY <1>6 DEF Acquire
    <2>3. stage \in Stages
      BY DEF Stages
    <2>4. QED
      BY <1>6, <2>1, <2>2, <2>3, <1>d, <1>e DEF Acquire, At
  <1>7. CASE MarkThrottled(w)
    <2>1. [rows[r] EXCEPT !.status = "idle", !.next = "future"] \in RowRecord
      BY <1>7, <1>b DEF MarkThrottled, At, RowRecord
    <2>2. QED
      BY <1>7, <2>1, <1>c DEF MarkThrottled, At
  <1>8. CASE Fetched(w)
    BY <1>8, <1>d, <1>e DEF Fetched, At, Stages
  <1>9. CASE ResolveNext(w)
    <2>1. Busy(w) /\ wk[w] \in Job
      BY <1>9, <1>b DEF ResolveNext, At
    <2>2. account[Acct(r)].paused \in BOOLEAN
      BY <2>1, <1>b DEF TypeOK
    <2>3. [wk[w] EXCEPT !.stage = "commit", !.flag = account[Acct(r)].paused] \in Job
      BY <2>1, <2>2 DEF Job, Stages
    <2>4. wk' \in [Workers -> Job \cup {Idle}]
      BY <1>9, <2>3, BecomeTyped DEF ResolveNext
    <2>5. QED
      BY <1>9, <2>4 DEF ResolveNext, TypeOK
  <1>10. CASE CommitSuccess(w)
    <2>1. Busy(w)
      BY <1>10 DEF CommitSuccess, At
    <2>2. [status |-> "idle", failures |-> 0,
           next |-> IF wk[w].flag THEN "none" ELSE "future"] \in RowRecord
      BY BoundsAssumption DEF RowRecord, FailureCap
    <2>3. rows' \in [Rows -> RowRecord] /\ named' \subseteq Rows /\ fresh' \subseteq Rows
      BY <1>10, <2>1, <2>2, <1>b, RewriteTyped DEF CommitSuccess
    <2>4. wk' \in [Workers -> Job \cup {Idle}]
      BY <1>10, <1>a, BecomeTyped DEF CommitSuccess
    <2>5. lock' \in [Rows -> Held \cup {"free"}]
      BY <1>10, <1>e DEF CommitSuccess, Held
    <2>6. QED
      BY <1>10, <2>3, <2>4, <2>5 DEF CommitSuccess, TypeOK, RowRecord
  <1>11. ASSUME NEW handler \in {"rated", "revoke", "bump"}, Throw(w, handler) PROVE TypeOK'
    <2>1. lock' \in [Rows -> Held \cup {"free"}]
      BY <1>11, <1>e DEF Throw, Released, Held
    <2>2. handler \in Stages /\ Busy(w)
      BY <1>11 DEF Throw, InCritical, Stages
    <2>3. QED
      BY <1>11, <2>1, <2>2, <1>d, <1>e DEF Throw
  <1>12. ASSUME NEW handler \in {"rated", "revoke", "bump"}, ThrowUnreleased(w, handler)
         PROVE  TypeOK'
    <2>1. lock' \in [Rows -> Held \cup {"free"}]
      BY <1>12, <1>e DEF ThrowUnreleased, Held
    <2>2. handler \in Stages /\ Busy(w)
      BY <1>12 DEF ThrowUnreleased, InCritical, Stages
    <2>3. QED
      BY <1>12, <2>1, <2>2, <1>d, DisturbTyped DEF ThrowUnreleased
  <1>13. CASE MarkRateLimited(w)
    <2>1. [rows[r] EXCEPT !.status = "idle", !.next = "future"] \in RowRecord
      BY <1>13, <1>b DEF MarkRateLimited, At, RowRecord
    <2>2. QED
      BY <1>13, <2>1, <1>c DEF MarkRateLimited, At
  <1>14. CASE RevokeAccount(w)
    <2>1. wk' \in [Workers -> Job \cup {Idle}]
      BY <1>14, GoToTyped DEF RevokeAccount, At, Stages
    <2>2. QED
      BY <1>14, <2>1, <1>b DEF RevokeAccount, At, TypeOK
  <1>15. CASE MarkRevoked(w)
    <2>1. [rows[r] EXCEPT !.status = "idle"] \in RowRecord
      BY <1>15, <1>b DEF MarkRevoked, At, RowRecord
    <2>2. QED
      BY <1>15, <2>1, <1>c DEF MarkRevoked, At
  <1>16. CASE BumpRead(w)
    <2>1. Busy(w) /\ wk[w] \in Job /\ rows[r].failures \in Int
      BY <1>16, <1>b, BoundsAssumption DEF BumpRead, At, RowRecord, FailureCap
    <2>2. Trips(rows[r].failures) \in BOOLEAN
      BY <2>1, BoundsAssumption DEF Trips
    <2>3. [wk[w] EXCEPT !.stage = "bumped", !.flag = Trips(rows[r].failures)] \in Job
      BY <2>1, <2>2 DEF Job, Stages
    <2>4. wk' \in [Workers -> Job \cup {Idle}]
      BY <1>16, <2>3, BecomeTyped DEF BumpRead
    <2>5. QED
      BY <1>16, <2>4 DEF BumpRead, TypeOK
  <1>17. CASE BumpWrite(w)
    <2>1. Busy(w)
      BY <1>17 DEF BumpWrite, At
    <2>2. Bump(rows[r].failures) \in 0..FailureCap
      BY <2>1, <1>b, BumpTyped DEF RowRecord
    <2>3. [status |-> "idle", next |-> "future",
           failures |-> Bump(rows[r].failures)] \in RowRecord
      BY <2>2 DEF RowRecord
    <2>4. rows' \in [Rows -> RowRecord] /\ named' \subseteq Rows /\ fresh' \subseteq Rows
      BY <1>17, <2>1, <2>3, <1>b, RewriteTyped DEF BumpWrite
    <2>5. wk' \in [Workers -> Job \cup {Idle}]
      BY <1>17, <2>1, <1>a, GoToTyped, BecomeTyped DEF BumpWrite, Stages
    <2>6. QED
      BY <1>17, <2>4, <2>5, Parts, RewriteStepTyped DEF BumpWrite
  <1>18. CASE TripBreaker(w)
    <2>1. wk' \in [Workers -> Job \cup {Idle}]
      BY <1>18, <1>a, BecomeTyped DEF TripBreaker
    <2>2. account' \in [Accounts -> AccountRecord]
      BY <1>18, <1>b, PausedTyped DEF TripBreaker, At
    <2>3. QED
      BY <1>18, <2>1, <2>2, Parts, RewriteStepTyped DEF TripBreaker
  <1>19. ASSUME NEW requeue \in BOOLEAN, Abort(w, requeue) PROVE TypeOK'
    <2>1. Busy(w) /\ r \in Rows /\ wk[w].kind \in Kinds
      BY <1>19, <1>b DEF Abort
    <2>2. waiting' \in [Rows \X Kinds -> 0..MaxWaiting]
      <3> DEFINE k == wk[w].kind
                 n == waiting[<<r, k>>]
      <3>1. CASE requeue
        <4>1. n < MaxWaiting /\ waiting' = [waiting EXCEPT ![<<r, k>>] = n + 1]
          BY <1>19, <3>1 DEF Abort
        <4>2. n + 1 \in 0..MaxWaiting
          BY <4>1, <2>1, WaitingCount, BoundsAssumption
        <4>3. QED
          BY <4>1, <4>2, <2>1, WaitingTyped
      <3>2. CASE ~requeue
        BY <1>19, <3>2 DEF Abort, TypeOK
      <3>3. QED
        BY <3>1, <3>2
    <2>3. lock' \in [Rows -> Held \cup {"free"}]
      BY <1>19, <1>e DEF Abort, Held
    <2>4. wk' \in [Workers -> Job \cup {Idle}]
      BY <1>19, <1>a, BecomeTyped DEF Abort
    <2>5. left' \in 0..MaxDisturbances
      BY <1>19, DisturbTyped DEF Abort
    <2>6. QED
      BY <1>19, <2>2, <2>3, <2>4, <2>5 DEF Abort, TypeOK
  <1>20. QED
    BY <1>1, <1>2, <1>3, <1>4, <1>5, <1>6, <1>7, <1>8, <1>9, <1>10, <1>11, <1>12, <1>13,
       <1>14, <1>15, <1>16, <1>17, <1>18, <1>19 DEF Worker, WorkerStep

(* So do the requests, the webhooks and the crons. *)
LEMMA RequestsTyped == TypeOK /\ Requests => TypeOK'
  <1> SUFFICES ASSUME TypeOK, Requests PROVE TypeOK'
    OBVIOUS
  <1>a. ASSUME NEW r \in Rows, NEW new \in RowRecord, Rewrite(r, new),
               account' = account, sched' = sched, waiting' = waiting,
               lock' = lock, wk' = wk,
               resched' \subseteq Rows, left' \in 0..MaxDisturbances
        PROVE  TypeOK'
    <2>1. rows' \in [Rows -> RowRecord] /\ named' \subseteq Rows /\ fresh' \subseteq Rows
      BY <1>a, RewriteTyped
    <2>2. QED
      BY <1>a, <2>1 DEF TypeOK, RowRecord
  <1>b. \A a \in Accounts : RowsOf(a) \subseteq Rows /\ account[a] \in AccountRecord
    BY DEF RowsOf, TypeOK, AccountRecord
  <1>c. left \in 0..MaxDisturbances /\ resched \subseteq Rows
    BY DEF TypeOK
  <1>1. ASSUME NEW a \in Accounts, Reseed(a) PROVE TypeOK'
    <2> DEFINE wasPaused == account[a].paused
    <2>1. [r \in RowsOf(a) |-> [status |-> "idle", next |-> "due",
                               failures |-> IF wasPaused THEN 0 ELSE rows[r].failures]]
             \in [RowsOf(a) -> RowRecord]
      BY <1>b, BoundsAssumption DEF TypeOK, RowRecord, FailureCap
    <2>2. rows' \in [Rows -> RowRecord] /\ named' \subseteq Rows /\ fresh' \subseteq Rows
      BY <1>1, <2>1, <1>b, RewriteAllTyped DEF Reseed
    <2>3. account' \in [Accounts -> AccountRecord]
      BY <1>1, Parts DEF Reseed, AccountRecord
    <2>4. QED
      BY <1>1, <2>2, <2>3, Parts, DisturbTyped, RewriteStepTyped DEF Reseed
  <1>2. ASSUME NEW a \in Accounts, Disconnect(a) PROVE TypeOK'
    <2>1. [r \in RowsOf(a) |-> [rows[r] EXCEPT !.status = "idle", !.next = "none"]]
             \in [RowsOf(a) -> RowRecord]
      <3>1. ASSUME NEW r \in RowsOf(a)
            PROVE  [rows[r] EXCEPT !.status = "idle", !.next = "none"] \in RowRecord
        <4> DEFINE x == [rows[r] EXCEPT !.status = "idle"]
        <4>1. x \in RowRecord
          BY <1>b, RowTyped DEF RowRecord
        <4> HIDE DEF x
        <4>2. [x EXCEPT !.next = "none"] \in RowRecord
          BY <4>1 DEF RowRecord
        <4>3. QED
          BY <4>2 DEF x
      <3>2. QED
        BY <3>1
    <2>2. rows' \in [Rows -> RowRecord] /\ named' \subseteq Rows /\ fresh' \subseteq Rows
      BY <1>2, <2>1, <1>b, RewriteAllTyped DEF Disconnect
    <2>3. account' \in [Accounts -> AccountRecord]
      <3> DEFINE x == [account[a] EXCEPT !.status = "disconnected"]
      <3> DEFINE y == [x EXCEPT !.token = FALSE]
      <3>1. x \in AccountRecord
        BY <1>b DEF AccountRecord
      <3>2. account' = [account EXCEPT ![a] = y]
        BY <1>2 DEF Disconnect
      <3> HIDE DEF x
      <3>3. y \in AccountRecord
        BY <3>1 DEF AccountRecord
      <3> HIDE DEF y
      <3>4. QED
        BY <3>2, <3>3, AccountTyped
    <2>4. UNCHANGED <<sched, waiting, lock, wk, resched>> /\ Disturb
      BY <1>2 DEF Disconnect
    <2>5. wk' \in [Workers -> Job \cup {Idle}] /\ resched' \subseteq Rows
      BY <2>4, Parts
    <2>6. QED
      BY <2>2, <2>3, <2>4, <2>5, DisturbTyped, RewriteStepTyped
  <1>3. ASSUME NEW a \in Accounts, TokenCron(a) PROVE TypeOK'
    <2> DEFINE status == IF account[a].status = "ready" THEN "needs_reauth" ELSE "ready"
    <2>1. account[a] \in AccountRecord
      BY <1>3, Parts
    <2>2. [account[a] EXCEPT !.status = status] \in AccountRecord
      BY <2>1 DEF AccountRecord
    <2>3. account' = [account EXCEPT ![a] = [account[a] EXCEPT !.status = status]]
      BY <1>3, <2>1, Parts DEF TokenCron
    <2> HIDE DEF status
    <2>4. account' \in [Accounts -> AccountRecord]
      BY <2>2, <2>3, AccountTyped
    <2>5. UNCHANGED <<rows, named, fresh, sched, waiting, lock, wk, resched>> /\ Disturb
      BY <1>3 DEF TokenCron
    <2>6. QED
      BY <2>4, <2>5, Parts, DisturbTyped, RewriteStepTyped
  <1>4. ASSUME NEW a \in Accounts, PauseAccount(a) PROVE TypeOK'
    BY <1>4, DisturbTyped DEF PauseAccount, TypeOK
  <1>5. ASSUME NEW a \in Accounts, NEW paused \in BOOLEAN, SetSyncTier(a, paused) PROVE TypeOK'
    <2>1. resched' \subseteq Rows
      BY <1>5, <1>b, <1>c DEF SetSyncTier
    <2>2. account' \in [Accounts -> AccountRecord]
      BY <1>5, PausedTyped DEF SetSyncTier
    <2>3. QED
      BY <1>5, <2>1, <2>2, Parts, DisturbTyped, RewriteStepTyped DEF SetSyncTier
  <1>6. ASSUME NEW r \in Rows, NEW k \in Kinds, Push(r, k) PROVE TypeOK'
    <2>1. waiting[<<r, k>>] \in 0..MaxWaiting /\ waiting[<<r, k>>] + 1 \in 0..MaxWaiting
      BY <1>6, WaitingCount, BoundsAssumption DEF Push
    <2>2. waiting' \in [Rows \X Kinds -> 0..MaxWaiting]
      BY <1>6, <2>1, WaitingTyped DEF Push
    <2>3. QED
      BY <1>6, <2>2, DisturbTyped DEF Push, TypeOK
  <1>7. ASSUME NEW r \in Rows, WebhookPush(r) \/ ManualRefresh(r) PROVE TypeOK'
    BY <1>6, <1>7 DEF WebhookPush, ManualRefresh
  <1>8. ASSUME NEW r \in Rows, RescheduleJob(r) PROVE TypeOK'
    <2>1. [rows[r] EXCEPT !.next = IF account[Acct(r)].paused THEN "none" ELSE "future"]
             \in RowRecord
      BY RowTyped DEF RowRecord
    <2>2. QED
      BY <1>8, <2>1, <1>a, <1>c DEF RescheduleJob
  <1>9. ASSUME NEW r \in Rows, ReenqueueSyncJob(r) PROVE TypeOK'
    <2>1. [rows[r] EXCEPT !.status = "idle", !.next = "due"] \in RowRecord
      BY RowTyped DEF RowRecord
    <2>2. QED
      BY <1>9, <2>1, <1>a, <1>c, DisturbTyped DEF ReenqueueSyncJob
  <1>10. ASSUME NEW r \in Rows, ReleaseThrottleLock(r) PROVE TypeOK'
    BY <1>10, DisturbTyped DEF ReleaseThrottleLock, TypeOK
  <1>11. ASSUME NEW p \in Products, ChangeCadence(p) PROVE TypeOK'
    BY <1>11, DisturbTyped DEF ChangeCadence, TypeOK
  <1>12. QED
    BY <1>1, <1>2, <1>3, <1>4, <1>5, <1>7, <1>8, <1>9, <1>10, <1>11 DEF Requests

(* So does the passing of time. *)
LEMMA ClockTyped == TypeOK /\ Clock => TypeOK'
  <1>1. ASSUME TypeOK, NEW r \in Rows, BecomeDue(r) PROVE TypeOK'
    BY <1>1 DEF BecomeDue, TypeOK
  <1>2. ASSUME TypeOK, NEW r \in Rows, LockExpires(r) PROVE TypeOK'
    BY <1>2 DEF LockExpires, TypeOK
  <1>3. QED
    BY <1>1, <1>2 DEF Clock

(* Type correctness of the pipeline, for any number of accounts, products,  *)
(* workers and for any bounds: in particular no write puts a row, a lock or *)
(* an account in a status that no reader of it knows, and failureCount and  *)
(* the queue's counters stay within their bounds.                           *)
THEOREM TypeCorrect == Spec => []TypeOK
  <1>1. TypeOK /\ [Next]_vars => TypeOK'
    <2> SUFFICES ASSUME TypeOK, [Next]_vars PROVE TypeOK'
      OBVIOUS
    <2>1. CASE Next
      BY <2>1, SchedulerTyped, WorkerTyped, RequestsTyped, ClockTyped DEF Next
    <2>2. CASE UNCHANGED vars
      BY <2>2 DEF vars, TypeOK
    <2>3. QED
      BY <2>1, <2>2
  <1>2. QED
    BY InitTyped, <1>1, PTL DEF Spec
-----------------------------------------------------------------------------
(* What the throttle lock guarantees.  Every step of the pipeline is one of  *)
(* four as far as the locks and the syncing workers are concerned            *)
(* (LockSteps); the invariants and the refinement follow from those four.    *)

busy == [r \in Rows |-> Syncing(r)]

(* Nothing changes hands. *)
Calm == lock' = lock /\ busy' = busy

(* A worker wins the lock of its row. *)
Enter(r, w) ==
  /\ lock[r] = "free"
  /\ lock' = [lock EXCEPT ![r] = "running"]
  /\ busy' = [busy EXCEPT ![r] = @ \cup {w}]

(* A sync ends, one way or another. *)
Leave(r, w) ==
  /\ w \in Syncing(r)
  /\ \E v \in {"free", "cooldown", "orphan"} :
       /\ lock' = [lock EXCEPT ![r] = v]
       /\ lock[r] = "free" => v = "free"
  /\ busy' = [busy EXCEPT ![r] = @ \ {w}]

(* The key of a lock goes away by itself, or an operator deletes it. *)
Drop(r) ==
  /\ lock[r] # "free"
  /\ lock' = [lock EXCEPT ![r] = "free"]
  /\ busy' = busy
  /\ SlowSyncs \/ ForcedRelease \/ Syncing(r) = {}

LockStep ==
  \/ Calm
  \/ \E r \in Rows : Drop(r) \/ \E w \in Workers : Enter(r, w) \/ Leave(r, w)

(* A job at a stage where its worker relies on the lock of row r. *)
Syncs(job, r) == job # Idle /\ job.stage \in Critical /\ job.row = r

(* Syncing, seen from one worker. *)
LEMMA SyncingIff ==
  ASSUME NEW w \in Workers, NEW r \in Rows
  PROVE  w \in Syncing(r) <=> Syncs(wk[w], r)
  BY DEF Syncing, InCritical, Busy, RowOf, Syncs

(* A worker that takes up another job changes its own place in busy only. *)
LEMMA BusyAfter ==
  ASSUME TypeOK, NEW w \in Workers, NEW job, Become(w, job), NEW r \in Rows
  PROVE  busy'[r] = (busy[r] \ {w}) \cup {v \in {w} : Syncs(job, r)}
  <1>1. busy'[r] = {v \in Workers : Syncs(wk'[v], r)}
    BY DEF busy, Syncing, InCritical, Busy, RowOf, Syncs
  <1>2. busy[r] = {v \in Workers : Syncs(wk[v], r)}
    BY DEF busy, Syncing, InCritical, Busy, RowOf, Syncs
  <1>3. \A v \in Workers : wk'[v] = IF v = w THEN job ELSE wk[v]
    BY DEF Become, TypeOK
  <1>4. QED
    BY <1>1, <1>2, <1>3

(* A worker that relies on the same lock after a step as before it. *)
LEMMA CalmStep ==
  ASSUME TypeOK, NEW w \in Workers, NEW job, Become(w, job), lock' = lock,
         \A r \in Rows : Syncs(job, r) <=> Syncs(wk[w], r)
  PROVE  Calm
  <1>1. \A r \in Rows : busy'[r] = busy[r]
    BY BusyAfter, SyncingIff DEF busy
  <1>2. QED
    BY <1>1 DEF busy, Calm

(* A worker that stops relying on the lock of its row. *)
LEMMA LeaveStep ==
  ASSUME TypeOK, NEW w \in Workers, NEW job, Become(w, job), InCritical(w),
         \A r \in Rows : ~Syncs(job, r),
         NEW v \in {"free", "cooldown", "orphan"}, lock[RowOf(w)] = "free" => v = "free",
         lock' = [lock EXCEPT ![RowOf(w)] = v]
  PROVE  Leave(RowOf(w), w)
  <1> DEFINE q == RowOf(w)
  <1>1. q \in Rows
    BY BusyTyped DEF InCritical
  <1>2. w \in Syncing(q)
    BY DEF Syncing
  <1>3. ASSUME NEW r \in Rows PROVE busy'[r] = IF r = q THEN busy[q] \ {w} ELSE busy[r]
    <2>1. busy'[r] = busy[r] \ {w}
      BY BusyAfter
    <2>2. r # q => w \notin busy[r]
      BY DEF busy, Syncing
    <2>3. QED
      BY <2>1, <2>2
  <1>4. busy' = [busy EXCEPT ![q] = @ \ {w}]
    BY <1>3 DEF busy
  <1>5. QED
    BY <1>2, <1>4 DEF Leave

(* Handlers, queues and rows are no stage that relies on the lock. *)
LEMMA NotSyncing ==
  ASSUME NEW w \in Workers, NEW r \in Rows
  PROVE  /\ ~Syncs(Idle, r)
         /\ \A s \in Stages \ Critical : At(w, s) => ~Syncs(wk[w], r)
  BY DEF Syncs, At

(* A job moved to another stage stays on its row. *)
LEMMA MovedSyncs ==
  ASSUME TypeOK, NEW w \in Workers, Busy(w), NEW s \in Stages, NEW r \in Rows
  PROVE  Syncs([wk[w] EXCEPT !.stage = s], r) <=> s \in Critical /\ RowOf(w) = r
  <1>1. wk[w] \in Job
    BY BusyTyped
  <1> DEFINE job == [wk[w] EXCEPT !.stage = s]
  <1>2. job.stage = s /\ job.row = RowOf(w)
    BY <1>1 DEF Job, RowOf
  <1>3. job # Idle
    BY <1>2 DEF Idle, Stages
  <1>4. QED
    BY <1>2, <1>3 DEF Syncs

(* GoTo between two stages outside the lock's protection, or both inside it. *)
LEMMA CalmGoTo ==
  ASSUME TypeOK, NEW w \in Workers, Busy(w), NEW s \in Stages, GoTo(w, s), lock' = lock,
         InCritical(w) <=> s \in Critical
  PROVE  Calm
  <1> DEFINE job == [wk[w] EXCEPT !.stage = s]
  <1>1. \A r \in Rows : Syncs(job, r) <=> Syncs(wk[w], r)
    BY MovedSyncs DEF InCritical, Busy, Syncs, RowOf
  <1>2. Become(w, job)
    BY DEF GoTo
  <1> HIDE DEF job
  <1>3. QED
    BY <1>1, <1>2, CalmStep

(* Going idle from a stage outside the lock's protection. *)
LEMMA CalmIdle ==
  ASSUME TypeOK, NEW w \in Workers, ~InCritical(w), Become(w, Idle), lock' = lock
  PROVE  Calm
  <1>1. \A r \in Rows : Syncs(Idle, r) <=> Syncs(wk[w], r)
    BY DEF Syncs, InCritical, Busy
  <1>2. QED
    BY <1>1, CalmStep

(* What a step that touches neither the locks nor the workers does. *)
LEMMA CalmFrame == wk' = wk /\ lock' = lock => Calm
  BY DEF Calm, busy, Syncing, InCritical, Busy, RowOf
-----------------------------------------------------------------------------
(* A worker's stretch is one of the four. *)
LEMMA WorkerLockStep ==
  ASSUME NEW w \in Workers PROVE TypeOK /\ Worker(w) => LockStep
  <1> SUFFICES ASSUME TypeOK, Worker(w) PROVE LockStep
    OBVIOUS
  <1> USE DEF LockStep
  <1>a. Busy(w) => RowOf(w) \in Rows
    BY BusyTyped
  <1>b. ASSUME Leave(RowOf(w), w), Busy(w) PROVE LockStep
    BY <1>a, <1>b
  <1>1. ASSUME NEW q \in Rows, NEW k \in Kinds, Take(w, q, k) PROVE Calm
    <2> DEFINE job == [stage |-> "load", row |-> q, kind |-> k, flag |-> FALSE]
    <2>1. \A r \in Rows : Syncs(job, r) <=> Syncs(wk[w], r)
      BY <1>1 DEF Take, Syncs, Critical
    <2>2. Become(w, job) /\ lock' = lock
      BY <1>1 DEF Take
    <2> HIDE DEF job
    <2>3. QED
      BY <2>1, <2>2, CalmStep
  <1>2. CASE LoadAccount(w)
    BY <1>2, CalmGoTo DEF LoadAccount, At, Stages, InCritical, Critical
  <1>3. CASE LoadToken(w)
    <2>1. PICK stage \in {"acquire", "tokenless"} : GoTo(w, stage)
      BY <1>3 DEF LoadToken
    <2>2. stage \in Stages /\ stage \notin Critical
      BY DEF Stages, Critical
    <2>3. QED
      BY <1>3, <2>1, <2>2, CalmGoTo DEF LoadToken, At, InCritical, Critical
  <1>4. CASE MarkSkipped(w) \/ MarkFailed(w) \/ MarkThrottled(w) \/ MarkRateLimited(w)
             \/ MarkRevoked(w) \/ TripBreaker(w)
    <2>1. ~InCritical(w) /\ Become(w, Idle) /\ lock' = lock
      BY <1>4 DEF MarkSkipped, MarkFailed, MarkThrottled, MarkRateLimited, MarkRevoked,
                  TripBreaker, At, InCritical, Critical
    <2>2. QED
      BY <2>1, CalmIdle
  <1>5. CASE Acquire(w)
    <2> DEFINE q == RowOf(w)
    <2>1. Busy(w) /\ q \in Rows /\ ~InCritical(w)
      BY <1>5, <1>a DEF Acquire, At, InCritical, Critical
    <2>2. CASE WinsLock(q)
      <3> DEFINE job == [wk[w] EXCEPT !.stage = "fetch"]
      <3>1. lock[q] = "free" /\ lock' = [lock EXCEPT ![q] = "running"] /\ Become(w, job)
        BY <1>5, <2>2 DEF Acquire, WinsLock, GoTo
      <3>2. \A r \in Rows : Syncs(job, r) <=> q = r
        BY <2>1, MovedSyncs DEF Stages, Critical
      <3> HIDE DEF job
      <3>3. \A r \in Rows : busy'[r] = (busy[r] \ {w}) \cup {v \in {w} : Syncs(job, r)}
        BY <3>1, BusyAfter
      <3>4. \A r \in Rows : w \notin busy[r]
        BY <2>1 DEF busy, Syncing
      <3>5. \A r \in Rows : busy'[r] = IF r = q THEN busy[r] \cup {w} ELSE busy[r]
        BY <3>2, <3>3, <3>4
      <3>6. busy' = [busy EXCEPT ![q] = @ \cup {w}]
        BY <3>5 DEF busy
      <3>7. QED
        BY <2>1, <3>1, <3>6 DEF Enter
    <2>3. CASE ~WinsLock(q)
      BY <1>5, <2>1, <2>3, CalmGoTo DEF Acquire, Stages, Critical
    <2>4. QED
      BY <2>2, <2>3
  <1>6. CASE Fetched(w)
    BY <1>6, CalmGoTo DEF Fetched, At, Stages, InCritical, Critical
  <1>7. CASE ResolveNext(w)
    <2> DEFINE job == [wk[w] EXCEPT !.stage = "commit", !.flag = account[Acct(RowOf(w))].paused]
    <2>1. wk[w] \in Job /\ Busy(w) /\ wk[w].stage = "resolve" /\ Become(w, job) /\ lock' = lock
      BY <1>7, BusyTyped DEF ResolveNext, At
    <2>2. job.stage = "commit" /\ job.row = wk[w].row
      BY <2>1 DEF Job
    <2>3. \A r \in Rows : Syncs(job, r) <=> Syncs(wk[w], r)
      BY <2>1, <2>2 DEF Syncs, Critical, Busy, Idle
    <2> HIDE DEF job
    <2>4. QED
      BY <2>1, <2>3, CalmStep
  <1>8. CASE CommitSuccess(w)
    <2> DEFINE q == RowOf(w)
               v == IF lock[q] = "free" THEN "free" ELSE "cooldown"
    <2>1. /\ Busy(w) /\ InCritical(w) /\ Become(w, Idle)
          /\ lock' = [lock EXCEPT ![q] = v]
      BY <1>8, <1>a DEF CommitSuccess, At, InCritical, Critical
    <2>2. v \in {"free", "cooldown", "orphan"} /\ (lock[q] = "free" => v = "free")
      OBVIOUS
    <2> HIDE DEF v
    <2>3. QED
      BY <2>1, <2>2, NotSyncing, LeaveStep, <1>b
  <1>9. ASSUME NEW handler \in {"rated", "revoke", "bump"},
               Throw(w, handler) \/ ThrowUnreleased(w, handler)
        PROVE  LockStep
    <2> DEFINE q == RowOf(w)
               job == [wk[w] EXCEPT !.stage = handler]
    <2>1. PICK v \in {"free", "cooldown", "orphan"} :
            lock' = [lock EXCEPT ![q] = v] /\ (lock[q] = "free" => v = "free")
      BY <1>9 DEF Throw, ThrowUnreleased, Released
    <2>2. Busy(w) /\ InCritical(w) /\ Become(w, job)
      BY <1>9 DEF Throw, ThrowUnreleased, GoTo, InCritical
    <2>3. handler \in Stages /\ handler \notin Critical
      BY DEF Stages, Critical
    <2>4. \A r \in Rows : ~Syncs(job, r)
      BY <2>2, <2>3, MovedSyncs
    <2> HIDE DEF job
    <2>5. QED
      BY <2>1, <2>2, <2>4, LeaveStep, <1>b
  <1>10. CASE RevokeAccount(w)
    BY <1>10, CalmGoTo DEF RevokeAccount, At, Stages, InCritical, Critical
  <1>11. CASE BumpRead(w)
    <2> DEFINE job == [wk[w] EXCEPT !.stage = "bumped", !.flag = Trips(rows[RowOf(w)].failures)]
    <2>1. wk[w] \in Job /\ wk[w].stage = "bump" /\ Become(w, job) /\ lock' = lock
      BY <1>11, BusyTyped DEF BumpRead, At
    <2>2. job.stage = "bumped"
      BY <2>1 DEF Job
    <2>3. \A r \in Rows : Syncs(job, r) <=> Syncs(wk[w], r)
      BY <2>1, <2>2 DEF Syncs, Critical
    <2> HIDE DEF job
    <2>4. QED
      BY <2>1, <2>3, CalmStep
  <1>12. CASE BumpWrite(w)
    <2>1. Busy(w) /\ ~InCritical(w) /\ lock' = lock
      BY <1>12 DEF BumpWrite, At, InCritical, Critical
    <2>2. GoTo(w, "trip") \/ Become(w, Idle)
      BY <1>12 DEF BumpWrite
    <2>3. QED
      BY <2>1, <2>2, CalmGoTo, CalmIdle DEF Stages, Critical
  <1>13. ASSUME NEW requeue \in BOOLEAN, Abort(w, requeue) PROVE LockStep
    <2> DEFINE q == RowOf(w)
    <2>1. Busy(w) /\ Become(w, Idle) /\ q \in Rows
      BY <1>13, <1>a DEF Abort
    <2>2. CASE InCritical(w)
      <3>1. PICK v \in {"free", "cooldown", "orphan"} :
              lock' = [lock EXCEPT ![q] = v] /\ (lock[q] = "free" => v = "free")
        BY <1>13, <2>1, <2>2 DEF Abort
      <3>2. QED
        BY <2>1, <2>2, <3>1, NotSyncing, LeaveStep, <1>b
    <2>3. CASE ~InCritical(w)
      <3>1. lock' = lock
        BY <1>13, <2>1, <2>3 DEF Abort, TypeOK
      <3>2. QED
        BY <2>1, <2>3, <3>1, CalmIdle
    <2>4. QED
      BY <2>2, <2>3
  <1>14. QED
    BY <1>1, <1>2, <1>3, <1>4, <1>5, <1>6, <1>7, <1>8, <1>9, <1>10, <1>11, <1>12, <1>13
       DEF Worker, WorkerStep

(* A request touches a lock only by deleting it, the clock only by expiry. *)
LEMMA OtherLockStep == TypeOK /\ (Scheduler \/ Requests \/ Clock) => LockStep
  <1> SUFFICES ASSUME TypeOK, Scheduler \/ Requests \/ Clock PROVE LockStep
    OBVIOUS
  <1>1. ASSUME wk' = wk, NEW r \in Rows, lock[r] # "free",
               lock' = [lock EXCEPT ![r] = "free"],
               SlowSyncs \/ ForcedRelease \/ Syncing(r) = {}
        PROVE  LockStep
    <2>1. busy' = busy
      BY <1>1 DEF busy, Syncing, InCritical, Busy, RowOf
    <2>2. QED
      BY <1>1, <2>1 DEF Drop, LockStep
  <1>2. CASE Scheduler
    <2>1. wk' = wk /\ lock' = lock
      BY <1>2 DEF Scheduler, TickFind, EnqueueAdd, EnqueueMark, EnqueueError,
                  SchedulerCrash, SweepOrphans
    <2>2. QED
      BY <2>1, CalmFrame DEF LockStep
  <1>3. CASE Requests
    <2>1. CASE \E r \in Rows : ReleaseThrottleLock(r)
      BY <2>1, <1>1 DEF ReleaseThrottleLock
    <2>2. CASE ~\E r \in Rows : ReleaseThrottleLock(r)
      <3>1. wk' = wk /\ lock' = lock
        BY <1>3, <2>2 DEF Requests, Reseed, Disconnect, TokenCron, Push, WebhookPush,
             ManualRefresh, PauseAccount, SetSyncTier, RescheduleJob, ChangeCadence,
             ReenqueueSyncJob
      <3>2. QED
        BY <3>1, CalmFrame DEF LockStep
    <2>3. QED
      BY <2>1, <2>2
  <1>4. CASE Clock
    <2>1. ASSUME NEW r \in Rows, BecomeDue(r) PROVE LockStep
      BY <2>1, CalmFrame DEF BecomeDue, LockStep
    <2>2. ASSUME NEW r \in Rows, LockExpires(r) PROVE LockStep
      BY <2>2, <1>1 DEF LockExpires, HasTtl
    <2>3. QED
      BY <1>4, <2>1, <2>2 DEF Clock
  <1>5. QED
    BY <1>2, <1>3, <1>4

(* Every step of the pipeline is one of the four. *)
LEMMA LockSteps == TypeOK /\ [Next]_vars => LockStep
  <1>1. UNCHANGED vars => LockStep
    BY CalmFrame DEF vars, LockStep
  <1>2. QED
    BY <1>1, WorkerLockStep, OtherLockStep DEF Next
-----------------------------------------------------------------------------
(* LockJustified is inductive: a lock becomes "running" only when a worker  *)
(* enters, and no worker of the row leaves without giving it up.            *)
LEMMA JustifiedStep == TypeOK /\ LockJustified /\ LockStep => LockJustified'
  <1> SUFFICES ASSUME TypeOK, LockJustified, LockStep, NEW q \in Rows, lock'[q] = "running"
               PROVE  busy'[q] # {}
    BY DEF LockJustified, busy
  <1>1. lock[q] = "running" => busy[q] # {}
    BY DEF LockJustified, busy
  <1>2. lock \in [Rows -> Held \cup {"free"}] /\ busy \in [Rows -> SUBSET Workers]
    BY DEF TypeOK, busy, Syncing
  <1>3. CASE Calm
    BY <1>1, <1>3 DEF Calm
  <1>4. ASSUME NEW r \in Rows, Drop(r) PROVE busy'[q] # {}
    <2>1. q # r /\ lock'[q] = lock[q] /\ busy'[q] = busy[q]
      BY <1>2, <1>4 DEF Drop
    <2>2. QED
      BY <1>1, <2>1
  <1>5. ASSUME NEW r \in Rows, NEW w \in Workers, Enter(r, w) PROVE busy'[q] # {}
    <2>1. CASE q = r
      BY <1>2, <1>5, <2>1 DEF Enter
    <2>2. CASE q # r
      BY <1>1, <1>2, <1>5, <2>2 DEF Enter
    <2>3. QED
      BY <2>1, <2>2
  <1>6. ASSUME NEW r \in Rows, NEW w \in Workers, Leave(r, w) PROVE busy'[q] # {}
    <2>1. q # r
      BY <1>2, <1>6 DEF Leave
    <2>2. QED
      BY <1>1, <1>2, <1>6, <2>1 DEF Leave
  <1>7. QED
    BY <1>3, <1>4, <1>5, <1>6 DEF LockStep

(* A lock in state "running" always has a worker behind it: a sync that fails, *)
(* succeeds or dies never leaves its row looking as if it were being synced.   *)
(* It holds even if syncs outlive the TTL and operators delete locks.          *)
THEOREM LocksJustified == Spec => []LockJustified
  <1>1. Init => LockJustified
    BY DEF Init, LockJustified
  <1>2. TypeOK /\ LockJustified /\ [Next]_vars => LockJustified'
    BY LockSteps, JustifiedStep
  <1>3. QED
    BY TypeCorrect, <1>1, <1>2, PTL DEF Spec

(* What makes SyncMutex inductive: a syncing worker still has its lock, and *)
(* it is the only one that relies on it.                                    *)
MutexInv ==
  \A r \in Rows : /\ Syncing(r) # {} => lock[r] = "running"
                  /\ \A v, w \in Syncing(r) : v = w

(* MutexInv is inductive when no lock is dropped under a running sync. *)
LEMMA MutexStep ==
  ASSUME ~SlowSyncs, ~ForcedRelease, TypeOK, MutexInv, LockStep
  PROVE  MutexInv'
  <1>1. SUFFICES ASSUME NEW q \in Rows
                 PROVE  /\ busy'[q] # {} => lock'[q] = "running"
                        /\ \A v, w \in busy'[q] : v = w
    BY DEF MutexInv, busy
  <1>2. /\ busy[q] # {} => lock[q] = "running"
        /\ \A v, w \in busy[q] : v = w
    BY DEF MutexInv, busy
  <1>3. lock \in [Rows -> Held \cup {"free"}] /\ busy \in [Rows -> SUBSET Workers]
    BY DEF TypeOK, busy, Syncing
  <1> DEFINE Goal == /\ busy'[q] # {} => lock'[q] = "running"
                     /\ \A v, w \in busy'[q] : v = w
  <1>4. CASE Calm
    BY <1>2, <1>4 DEF Calm
  <1>5. ASSUME NEW r \in Rows, Drop(r) PROVE Goal
    <2>1. busy'[q] = busy[q] /\ (q # r => lock'[q] = lock[q]) /\ (q = r => busy[q] = {})
      BY <1>3, <1>5 DEF Drop, busy
    <2>2. QED
      BY <1>2, <2>1
  <1>6. ASSUME NEW r \in Rows, NEW u \in Workers, Enter(r, u) PROVE Goal
    <2>1. CASE q = r
      <3>1. busy[q] = {}
        BY <1>2, <1>6, <2>1 DEF Enter
      <3>2. busy'[q] = {u} /\ lock'[q] = "running"
        BY <1>3, <1>6, <2>1, <3>1 DEF Enter
      <3>3. QED
        BY <3>2
    <2>2. CASE q # r
      BY <1>2, <1>3, <1>6, <2>2 DEF Enter
    <2>3. QED
      BY <2>1, <2>2
  <1>7. ASSUME NEW r \in Rows, NEW u \in Workers, Leave(r, u) PROVE Goal
    <2>1. CASE q = r
      <3>1. u \in busy[q]
        BY <1>7, <2>1 DEF Leave, busy
      <3>2. busy'[q] = {}
        BY <1>2, <1>3, <1>7, <2>1, <3>1 DEF Leave
      <3>3. QED
        BY <3>2
    <2>2. CASE q # r
      BY <1>2, <1>3, <1>7, <2>2 DEF Leave
    <2>3. QED
      BY <2>1, <2>2
  <1>8. QED
    BY <1>4, <1>5, <1>6, <1>7 DEF LockStep

(* A busy row has its lock, and one worker: for all constants, if every sync *)
(* ends within the TTL and nobody deletes a lock by hand.                    *)
THEOREM MutexInvariant ==
  ASSUME ~SlowSyncs, ~ForcedRelease
  PROVE  Spec => []MutexInv
  <1>1. Init => MutexInv
    BY DEF Init, MutexInv, Syncing, InCritical, Busy
  <1>2. TypeOK /\ MutexInv /\ [Next]_vars => MutexInv'
    BY LockSteps, MutexStep
  <1>3. QED
    BY TypeCorrect, <1>1, <1>2, PTL DEF Spec

(* Any two members equal means at most one member. *)
LEMMA AtMostOne ==
  ASSUME NEW S, \A v, w \in S : v = w
  PROVE  Cardinality(S) <= 1
  <1>1. CASE S = {}
    BY <1>1, FS_EmptySet
  <1>2. CASE S # {}
    <2>1. PICK u \in S : TRUE
      BY <1>2
    <2>2. S = {u}
      OBVIOUS
    <2>3. Cardinality({u}) = 1
      BY FS_Singleton
    <2>4. QED
      BY <2>2, <2>3
  <1>3. QED
    BY <1>1, <1>2

(* No two workers sync one row at a time, under the same two provisos. *)
THEOREM MutualExclusion ==
  ASSUME ~SlowSyncs, ~ForcedRelease
  PROVE  Spec => []SyncMutex
  <1>1. MutexInv => SyncMutex
    BY AtMostOne DEF MutexInv, SyncMutex
  <1>2. QED
    BY MutexInvariant, <1>1, PTL
-----------------------------------------------------------------------------
Cooling == {r \in Rows : lock[r] \in {"cooldown", "orphan"}}

(* The pipeline starts with no sync and no cooldown, as ExclusiveSync does. *)
LEMMA ExclusiveInit == Init => Exclusive!Init
  BY DEF Init, Exclusive!Init, Syncing, InCritical, Busy

(* Each of the four is a step of ExclusiveSync or changes nothing it sees. *)
LEMMA ExclusiveStep ==
  ASSUME ~SlowSyncs, ~ForcedRelease, TypeOK, LockJustified, MutexInv, LockStep
  PROVE  [Exclusive!Next]_(Exclusive!vars)
  <1> DEFINE Start(r, w) == /\ busy[r] = {}
                            /\ r \notin Cooling
                            /\ busy' = [busy EXCEPT ![r] = {w}]
                            /\ Cooling' = Cooling
             End(r, w) == /\ w \in busy[r]
                          /\ busy' = [busy EXCEPT ![r] = @ \ {w}]
                          /\ Cooling' \in {Cooling, Cooling \cup {r}}
             Cool(r) == r \in Cooling /\ Cooling' = Cooling \ {r} /\ busy' = busy
  <1>1. SUFFICES \/ busy' = busy /\ Cooling' = Cooling
                 \/ \E r \in Rows : Cool(r) \/ \E w \in Workers : Start(r, w) \/ End(r, w)
    BY DEF Exclusive!Next, Exclusive!Start, Exclusive!End, Exclusive!Cool, Exclusive!vars,
           busy, Cooling
  <1>2. lock \in [Rows -> Held \cup {"free"}] /\ busy \in [Rows -> SUBSET Workers]
    BY DEF TypeOK, busy, Syncing
  <1>3. ASSUME NEW r \in Rows
        PROVE  /\ lock[r] = "running" <=> busy[r] # {}
               /\ busy[r] \in SUBSET Workers
    BY <1>2 DEF LockJustified, MutexInv, busy
  <1>4. CASE Calm
    BY <1>4 DEF Calm, Cooling
  <1>5. ASSUME NEW r \in Rows, Drop(r) PROVE Cool(r)
    <2>1. busy[r] = {}
      BY <1>5 DEF Drop, busy
    <2>2. r \in Cooling
      BY <1>2, <1>3, <1>5, <2>1 DEF Drop, Cooling, Held
    <2>3. Cooling' = Cooling \ {r}
      BY <1>2, <1>5 DEF Drop, Cooling
    <2>4. QED
      BY <1>5, <2>2, <2>3 DEF Drop
  <1>6. ASSUME NEW r \in Rows, NEW w \in Workers, Enter(r, w) PROVE Start(r, w)
    <2>1. busy[r] = {} /\ r \notin Cooling
      BY <1>3, <1>6 DEF Enter, Cooling
    <2>2. Cooling' = Cooling
      BY <1>2, <1>6 DEF Enter, Cooling
    <2>3. busy' = [busy EXCEPT ![r] = {w}]
      BY <1>6, <2>1 DEF Enter
    <2>4. QED
      BY <2>1, <2>2, <2>3
  <1>7. ASSUME NEW r \in Rows, NEW w \in Workers, Leave(r, w) PROVE End(r, w)
    <2>1. w \in busy[r]
      BY <1>7 DEF Leave, busy
    <2>2. r \notin Cooling
      BY <1>3, <2>1 DEF Cooling
    <2>3. PICK v \in {"free", "cooldown", "orphan"} : lock' = [lock EXCEPT ![r] = v]
      BY <1>7 DEF Leave
    <2>4. \A q \in Rows : lock'[q] = IF q = r THEN v ELSE lock[q]
      BY <1>2, <2>3
    <2>5. Cooling' \in {Cooling, Cooling \cup {r}}
      BY <2>2, <2>4 DEF Cooling
    <2>6. QED
      BY <1>7, <2>1, <2>5 DEF Leave
  <1>8. QED
    BY <1>4, <1>5, <1>6, <1>7 DEF LockStep

(* The scheduler, the queue and the workers implement ExclusiveSync: whatever *)
(* is retried, duplicated or lost, a sync starts only on a row that no worker *)
(* syncs and that is not in the cooldown a finished sync left behind.         *)
THEOREM Refinement ==
  ASSUME ~SlowSyncs, ~ForcedRelease
  PROVE  Spec => ImplementsExclusive
  <1>1. TypeOK /\ LockJustified /\ MutexInv /\ [Next]_vars => [Exclusive!Next]_(Exclusive!vars)
    BY LockSteps, ExclusiveStep
  <1>2. QED
    BY ExclusiveInit, TypeCorrect, LocksJustified, MutexInvariant, <1>1, PTL
       DEF Spec, ImplementsExclusive, Exclusive!Spec
=============================================================================
