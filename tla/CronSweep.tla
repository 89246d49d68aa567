----------------------------- MODULE CronSweep -----------------------------
(***************************************************************************)
(* The nightly retention sweep and the Redis lock its runs take: every api *)
(* replica fires the cron, runWithLock() lets in the one whose SET NX      *)
(* succeeds, and the run deletes the expired rows of one table after       *)
(* another, a batch of ids at a time, while the webhook worker and an      *)
(* operator go on changing deliveries.                                     *)
(*                                                                         *)
(* The lock's value is the replica's token, one for all of its runs.       *)
(***************************************************************************)
EXTENDS Integers, FiniteSetsExt

CONSTANTS
  Instances,    \* api replicas
  First,        \* the one that runs first: they are alike
  MaxRuns,      \* bound: firings of the cron
  Rows,
  Tables,       \* number of tables a run sweeps, in order
  TableOf,      \* the table of each row
  Outbound,     \* the table of deliveries
  Counted,      \* tables (collections) a dry run counts in one query
  BATCH_SIZE,
  DryRun,       \* WEBHOOKS_RETENTION_DRY_RUN
  Stored, Past, \* bound: the status of each row at first, and those expired by then
  MaxChanges,   \* bound: rows settled, retried or expired meanwhile
  MaxFaults     \* bound: failing calls and crashes

Deliveries == {r \in Rows : TableOf[r] = Outbound}

(* "open" is pending or failed; a row of another table is just there. *)
Statuses(r) == IF r \in Deliveries THEN {"open", "delivered", "abandoned", "gone"} ELSE {"there", "gone"}

ASSUME SweepAssumption ==
  /\ First \in Instances /\ IsFiniteSet(Rows)
  /\ Tables \in Nat \ {0} /\ TableOf \in [Rows -> 1..Tables]
  /\ Outbound \in 1..Tables /\ Counted \subseteq 1..Tables
  /\ BATCH_SIZE \in Nat \ {0}
  /\ DryRun \in BOOLEAN /\ MaxRuns \in Nat /\ MaxChanges \in Nat /\ MaxFaults \in Nat
  /\ Past \subseteq Rows
  /\ Stored \in [Rows -> UNION {Statuses(r) : r \in Rows}] /\ \A r \in Rows : Stored[r] \in Statuses(r)

VARIABLES
  lock,      \* the run that set the Redis key, or Free
  run,       \* what each run does
  row,       \* the status of each row
  asked,     \* deliveries an operator's retry has read
  old,       \* rows past their retention
  left       \* changes and faults still allowed

vars == <<lock, run, row, asked, old, left>>

Runs == 1..MaxRuns   \* in the order in which they take the lock
Free == 0

Settled == {"delivered", "abandoned", "there"}

Fresh == [at |-> "fresh"]
(* by: the replica; cut: rows expired at the table's cutoff; batch: ids read; *)
(* late: its lock lapsed while it ran; owed: history, the rows that were there *)
(* to sweep when the table's turn came or that were read since, and that       *)
(* nobody retried afterwards.                                                  *)
RunStates == [at : {"finding", "found"}, by : Instances, table : 1..Tables, cut : SUBSET Rows,
              batch : SUBSET Rows, late : BOOLEAN, owed : SUBSET Rows]
             \cup [at : {"releasing", "done", "dead"}, by : Instances, late : BOOLEAN]

Sweeping(a) == run[a].at \in {"finding", "found"}
Running(a) == run[a].at \in {"finding", "found", "releasing"}

TypeOK ==
  /\ lock \in Runs \cup {Free} /\ (lock # Free => run[lock] # Fresh)
  /\ run \in [Runs -> RunStates \cup {Fresh}]
  /\ row \in [Rows -> UNION {Statuses(r) : r \in Rows}] /\ \A r \in Rows : row[r] \in Statuses(r)
  /\ old \subseteq Rows /\ asked \subseteq Deliveries
  /\ left \in [changes : 0..MaxChanges, faults : 0..MaxFaults]
  /\ \A a \in Runs : run[a].at = "found" =>
       run[a].batch # {} /\ Cardinality(run[a].batch) <= BATCH_SIZE /\ run[a].batch \subseteq run[a].cut
-----------------------------------------------------------------------------
Init ==
  /\ lock = Free
  /\ run = [a \in Runs |-> Fresh]
  /\ row = Stored
  /\ old = Past /\ asked = {}
  /\ left = [changes |-> MaxChanges, faults |-> MaxFaults]

Expired(t) == {r \in old : TableOf[r] = t /\ row[r] # "gone"}

(* A table's cutoff is taken when its turn comes. *)
Begins(inst, t, isLate) ==
  [at |-> "finding", by |-> inst, table |-> t, cut |-> Expired(t), batch |-> {}, late |-> isLate,
   owed |-> {r \in Expired(t) : row[r] \in Settled}]

(* SET key token PX ttl NX. *)
Fire(a) ==
  /\ run[a] = Fresh /\ \A b \in 1..(a - 1) : run[b] # Fresh
  /\ lock = Free
  /\ \E inst \in IF a = 1 THEN {First} ELSE Instances : run' = [run EXCEPT ![a] = Begins(inst, 1, FALSE)]
  /\ lock' = a
  /\ UNCHANGED <<row, old, left, asked>>

(* Mutant: deliveries whatever their status. *)
AllMatching(a) == {r \in run[a].cut : row[r] # "gone"}

(* The rows a table's sweep selects: deliveries only when settled. *)
Matching(a) == {r \in run[a].cut : row[r] \in Settled}

Left(s, stage) == [at |-> stage, by |-> s.by, late |-> s.late]

(* A run goes on to its next table, or to the release of the lock. *)
Advanced(s) ==
  IF s.table = Tables THEN Left(s, "releasing")
  ELSE Begins(s.by, s.table + 1, s.late)

Batches(M) == kSubset(IF Cardinality(M) < BATCH_SIZE THEN Cardinality(M) ELSE BATCH_SIZE, M)

(* findMany takes as many as a batch holds.  In a dry run a SQL table is read *)
(* all the same; a collection is counted.                                     *)
Find(a) ==
  /\ run[a].at = "finding"
  /\ IF Matching(a) = {} \/ (DryRun /\ run[a].table \in Counted)
     THEN run' = [run EXCEPT ![a] = Advanced(@)]
     ELSE \E B \in Batches(Matching(a)) :
            run' = [run EXCEPT ![a].at = "found", ![a].batch = B, ![a].owed = @ \cup B]
  /\ UNCHANGED <<lock, row, old, left, asked>>

(* Mutant: the delete repeats the filter, and narrows it. *)
DroppedIfDelivered(B) == [r \in Rows |-> IF r \in B /\ row[r] # "abandoned" THEN "gone" ELSE row[r]]

(* The delete goes by id, whatever the row is by now. *)
Dropped(B) == [r \in Rows |-> IF r \in B THEN "gone" ELSE row[r]]

(* Mutant: a full batch ends the sweep too. *)
AnyBatch(B) == Cardinality(B) <= BATCH_SIZE

(* A short batch is the table's last. *)
LastBatch(B) == Cardinality(B) < BATCH_SIZE

Delete(a) ==
  /\ run[a].at = "found"
  /\ row' = IF DryRun THEN row ELSE Dropped(run[a].batch)
  /\ run' = [run EXCEPT ![a] = IF LastBatch(run[a].batch) THEN Advanced(@)
                               ELSE [@ EXCEPT !.at = "finding", !.batch = {}]]
  /\ UNCHANGED <<lock, old, left, asked>>

Fault == left.faults > 0 /\ left' = [left EXCEPT !.faults = @ - 1]
Change == left.changes > 0 /\ left' = [left EXCEPT !.changes = @ - 1]

(* A failing query ends the run; the lock is released all the same. *)
QueryFails(a) ==
  /\ Sweeping(a)
  /\ Fault
  /\ run' = [run EXCEPT ![a] = Left(@, "releasing")]
  /\ UNCHANGED <<lock, row, old, asked>>

(* Mutant: DEL without the comparison. *)
AnyLock(a) == lock # Free

(* Compare-and-delete: the key holds the token of the run's replica. *)
OwnToken(a) == lock # Free /\ run[lock].by = run[a].by

Release(a) ==
  /\ run[a].at = "releasing"
  /\ lock' = IF OwnToken(a) THEN Free ELSE lock
  /\ run' = [run EXCEPT ![a].at = "done"]
  /\ UNCHANGED <<row, old, left, asked>>

(* A failing release is swallowed: the key lapses on its own. *)
ReleaseFails(a) ==
  /\ run[a].at = "releasing"
  /\ Fault
  /\ run' = [run EXCEPT ![a].at = "done"]
  /\ UNCHANGED <<lock, row, old, asked>>

(* LOCK_TTL_MS after it fired. *)
Lapse(a) ==
  /\ \/ Running(a) /\ ~run[a].late /\ run' = [run EXCEPT ![a].late = TRUE]
     \/ ~Running(a) /\ lock = a /\ UNCHANGED run
  /\ lock' = IF lock = a THEN Free ELSE lock
  /\ UNCHANGED <<row, old, left, asked>>

(* A replica stops: its runs end where they are. *)
Crash(inst) ==
  /\ \E a \in Runs : Running(a) /\ run[a].by = inst
  /\ Fault
  /\ run' = [a \in Runs |-> IF Running(a) /\ run[a].by = inst
                            THEN Left(run[a], "dead") ELSE run[a]]
  /\ UNCHANGED <<lock, row, old, asked>>

(* The worker settles a delivery. *)
Settle(d) ==
  /\ row[d] = "open"
  /\ Change
  /\ \E s \in {"delivered", "abandoned"} : row' = [row EXCEPT ![d] = s]
  /\ UNCHANGED <<lock, run, old, asked>>

(* The operator's retry finds the delivery not delivered, and makes it pending: *)
(* by then the worker may have settled it.                                      *)
RetryReads(d) ==
  /\ row[d] \in {"open", "abandoned"}
  /\ asked' = asked \cup {d}
  /\ Change
  /\ UNCHANGED <<lock, run, row, old>>

Retry(d) ==
  /\ d \in asked /\ asked' = asked \ {d}
  /\ row' = IF row[d] = "gone" THEN row ELSE [row EXCEPT ![d] = "open"]
  /\ run' = [a \in Runs |-> IF Sweeping(a) THEN [run[a] EXCEPT !.owed = @ \ {d}] ELSE run[a]]
  /\ UNCHANGED <<lock, old, left>>

(* A row's retention runs out. *)
Age(r) ==
  /\ r \notin old
  /\ Change
  /\ old' = old \cup {r}
  /\ UNCHANGED <<lock, run, row, asked>>

Sweep(a) == Find(a) \/ Delete(a) \/ Release(a)

Next ==
  \/ \E a \in Runs : Fire(a) \/ Sweep(a) \/ QueryFails(a) \/ ReleaseFails(a) \/ Lapse(a)
  \/ \E inst \in Instances : Crash(inst)
  \/ \E d \in Deliveries : Settle(d) \/ RetryReads(d) \/ Retry(d)
  \/ \E r \in Rows : Age(r)

Fairness == \A a \in Runs : WF_vars(Sweep(a))

Spec == Init /\ [][Next]_vars /\ Fairness
-----------------------------------------------------------------------------
(* Two runs are both within their locks' time only where an earlier run of one *)
(* of their replicas outlived its own lock: its release then takes the token   *)
(* of its replica's later run for its own.                                     *)
InTime(a) == Running(a) /\ ~run[a].late
Relic(inst) == \E c \in Runs : run[c].at = "done" /\ run[c].late /\ run[c].by = inst

InTimeAlone ==
  \A a, b \in Runs : a # b /\ InTime(a) /\ InTime(b) => Relic(run[a].by) \/ Relic(run[b].by)

(* When a run is through with a table, no row it owed is left: whatever the   *)
(* batches' sizes, a failing query apart, and whoever else sweeps or settles. *)
Passes(a) ==
  /\ Sweeping(a) /\ left' = left
  /\ run'[a].at = "releasing" \/ (run'[a].at = "finding" /\ run'[a].table # run[a].table)

SweptClean == [][\A a \in Runs : Passes(a) => \A r \in run[a].owed : row'[r] = "gone"]_vars

(* A row leaves only past its retention, and settled or retried after a run  *)
(* in progress had read its id.                                              *)
OpenStays ==
  [][\A r \in Rows : row[r] # "gone" /\ row'[r] = "gone" =>
       r \in old /\ (row[r] = "open" => \E a \in Runs : run[a].at = "found" /\ r \in run[a].batch \ run[a].owed)]_vars

(* A run ends, although others settle deliveries and delete the rows it read: *)
(* the sweep of a table comes to a short batch.                               *)
SweepEnds == \A a \in Runs : Running(a) ~> ~Running(a)
=============================================================================
