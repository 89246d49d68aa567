----------------------------- MODULE CronProofs -----------------------------
(* Proofs about CronSweep: its type invariant, that runs share their locks'  *)
(* time only after a relic, and what the sweep deletes and leaves.           *)
EXTENDS CronSweep, FiniteSetTheorems, TLAPS

SweepRecs == [at : {"finding", "found"}, by : Instances, table : 1..Tables, cut : SUBSET Rows,
              batch : SUBSET Rows, late : BOOLEAN, owed : SUBSET Rows]
EndRecs == [at : {"releasing", "done", "dead"}, by : Instances, late : BOOLEAN]

(* What a batch in hand is. *)
Batched(s) == s.at = "found" => s.batch # {} /\ Cardinality(s.batch) <= BATCH_SIZE /\ s.batch \subseteq s.cut

(* What a run relies on, with the rows R, of which O are past their retention: *)
(* it owes no open row, and a short batch is all that it still owes.           *)
Owes(s, R, O) ==
  s.at \in {"finding", "found"} =>
    /\ s.cut \subseteq O /\ s.owed \subseteq s.cut
    /\ \A r \in s.owed : R[r] # "open"
    /\ s.at = "found" /\ Cardinality(s.batch) < BATCH_SIZE => \A r \in s.owed : r \in s.batch \/ R[r] = "gone"

Good(s, R, O) == s \in RunStates \cup {Fresh} /\ Batched(s) /\ Owes(s, R, O)

RunsGood == \A a \in Runs : Good(run[a], row, old)

RowsTyped ==
  /\ row \in [Rows -> UNION {Statuses(r) : r \in Rows}]
  /\ \A r \in Rows : row[r] \in Statuses(r)
  /\ old \subseteq Rows /\ asked \subseteq Deliveries

LockTyped == lock \in Runs \cup {Free} /\ (lock # Free => run[lock] # Fresh)

LeftTyped == left \in [changes : 0..MaxChanges, faults : 0..MaxFaults]

SInv == LockTyped /\ run \in [Runs -> RunStates \cup {Fresh}] /\ RowsTyped /\ LeftTyped /\ RunsGood

(* A run within its time either holds the lock, or was robbed of it. *)
LockHeld == \A a \in Runs, inst \in Instances : InTime(a) /\ lock # a /\ run[a].by = inst => Relic(inst)

LEMMA SInvTypes == SInv => TypeOK
  BY DEF SInv, TypeOK, LockTyped, RowsTyped, LeftTyped, RunsGood, Good, Batched
-----------------------------------------------------------------------------
(* The states of a run. *)
LEMMA StateKinds ==
  ASSUME NEW s \in RunStates \cup {Fresh}
  PROVE  /\ s.at \in {"finding", "found"} => s \in SweepRecs
         /\ s.at \in {"releasing", "done", "dead"} => s \in EndRecs
         /\ s # Fresh => s \in SweepRecs \cup EndRecs
         /\ s # Fresh => s.at # "fresh"
         /\ s.at = "fresh" => s = Fresh
         /\ s \in SweepRecs \cup EndRecs => s # Fresh /\ s.by \in Instances /\ s.late \in BOOLEAN
  BY DEF RunStates, Fresh, SweepRecs, EndRecs

LEMMA RecsAreStates == SweepRecs \subseteq RunStates /\ EndRecs \subseteq RunStates
  BY DEF RunStates, SweepRecs, EndRecs

(* The end of a run keeps whose it is. *)
LEMMA LeftHolds ==
  ASSUME NEW s, s.by \in Instances, s.late \in BOOLEAN, NEW stage \in {"releasing", "done", "dead"}
  PROVE  /\ Left(s, stage) \in EndRecs
         /\ Left(s, stage).at = stage /\ Left(s, stage).by = s.by /\ Left(s, stage).late = s.late
         /\ \A R, O : Good(Left(s, stage), R, O)
  <1>1. Left(s, stage) \in EndRecs BY DEF Left, EndRecs
  <1>2. Left(s, stage).at = stage /\ Left(s, stage).by = s.by /\ Left(s, stage).late = s.late BY DEF Left
  <1>3. Left(s, stage) \in RunStates BY <1>1, RecsAreStates
  <1>4. QED BY <1>1, <1>2, <1>3 DEF Good, Batched, Owes

LEMMA BeginsHolds ==
  ASSUME RowsTyped, NEW inst \in Instances, NEW t \in 1..Tables, NEW isLate \in BOOLEAN
  PROVE  /\ Begins(inst, t, isLate) \in SweepRecs
         /\ Begins(inst, t, isLate).at = "finding" /\ Begins(inst, t, isLate).table = t
         /\ Begins(inst, t, isLate).by = inst /\ Begins(inst, t, isLate).late = isLate
         /\ Good(Begins(inst, t, isLate), row, old)
  <1> DEFINE w == Expired(t)
             o == {r \in Expired(t) : row[r] \in Settled}
             s == [at |-> "finding", by |-> inst, table |-> t, cut |-> w, batch |-> {}, late |-> isLate, owed |-> o]
  <1>1. w \subseteq Rows /\ w \subseteq old BY DEF RowsTyped, Expired
  <1>2. o \subseteq w /\ \A r \in o : row[r] # "open" BY DEF Settled
  <1>3. s = Begins(inst, t, isLate) BY DEF Begins
  <1> HIDE DEF w, o
  <1>4. s \in SweepRecs BY <1>1, <1>2 DEF SweepRecs
  <1>5. s.at = "finding" /\ s.table = t /\ s.by = inst /\ s.late = isLate /\ s.cut = w /\ s.owed = o OBVIOUS
  <1> HIDE DEF s
  <1>6. s \in RunStates BY <1>4, RecsAreStates
  <1>7. Good(s, row, old) BY <1>1, <1>2, <1>5, <1>6 DEF Good, Batched, Owes
  <1>8. QED BY <1>3, <1>4, <1>5, <1>7

LEMMA AdvancedHolds ==
  ASSUME RowsTyped, NEW s \in SweepRecs
  PROVE  /\ Advanced(s) \in SweepRecs \cup EndRecs
         /\ Advanced(s).at \in {"finding", "releasing"}
         /\ Advanced(s).by = s.by /\ Advanced(s).late = s.late
         /\ Good(Advanced(s), row, old)
  <1>1. s.by \in Instances /\ s.late \in BOOLEAN /\ s.table \in 1..Tables BY DEF SweepRecs
  <1>2. CASE s.table = Tables
    <2>1. Advanced(s) = Left(s, "releasing") BY <1>2 DEF Advanced
    <2>2. QED BY <1>1, <2>1, LeftHolds
  <1>3. CASE s.table # Tables
    <2>1. Advanced(s) = Begins(s.by, s.table + 1, s.late) BY <1>3 DEF Advanced
    <2>2. s.table + 1 \in 1..Tables BY <1>1, <1>3, SweepAssumption
    <2>3. QED BY <1>1, <2>1, <2>2, BeginsHolds
  <1>4. QED BY <1>2, <1>3

(* A run is not hurt by a row that goes, by one that was open, or by one it *)
(* does not owe.                                                            *)
LEMMA GoodStays ==
  ASSUME NEW s, NEW R, NEW Q, NEW O, NEW P, Good(s, R, O), O \subseteq P,
         s.at \in {"finding", "found"} =>
           \A r \in s.owed : Q[r] = R[r] \/ Q[r] = "gone" \/ R[r] = "open"
  PROVE  Good(s, Q, P)
  <1>1. ASSUME s.at \in {"finding", "found"} PROVE Owes(s, Q, P)
    <2>1. \A r \in s.owed : Q[r] = R[r] \/ Q[r] = "gone" BY <1>1 DEF Good, Owes
    <2>2. \A r \in s.owed : Q[r] # "open" BY <1>1, <2>1 DEF Good, Owes
    <2>3. ASSUME s.at = "found", Cardinality(s.batch) < BATCH_SIZE
          PROVE  \A r \in s.owed : r \in s.batch \/ Q[r] = "gone"
      BY <1>1, <2>1, <2>3 DEF Good, Owes
    <2>4. s.cut \subseteq P /\ s.owed \subseteq s.cut BY <1>1 DEF Good, Owes
    <2>5. QED BY <2>2, <2>3, <2>4 DEF Owes
  <1>2. Owes(s, Q, P) BY <1>1 DEF Owes
  <1>3. QED BY <1>2 DEF Good
-----------------------------------------------------------------------------
(* A batch is all that matches, or as many as it holds. *)
LEMMA BatchHolds ==
  ASSUME NEW M \in SUBSET Rows, M # {}, NEW B \in Batches(M)
  PROVE  /\ B # {} /\ B \subseteq M /\ Cardinality(B) \in Nat /\ Cardinality(B) <= BATCH_SIZE
         /\ Cardinality(B) < BATCH_SIZE => B = M
  <1>1. IsFiniteSet(M) BY FS_Subset, SweepAssumption
  <1>2. Cardinality(M) \in Nat /\ Cardinality(M) # 0 BY <1>1, FS_CardinalityType, FS_EmptySet
  <1>3. B \in SUBSET M /\ Cardinality(B) = IF Cardinality(M) < BATCH_SIZE THEN Cardinality(M) ELSE BATCH_SIZE
    BY DEF Batches, kSubset
  <1>4. BATCH_SIZE \in Nat \ {0} BY SweepAssumption
  <1>5. Cardinality(B) # 0 BY <1>2, <1>3, <1>4
  <1>6. B # {} BY <1>5, FS_EmptySet
  <1>7. Cardinality(B) = Cardinality(M) => B = M BY <1>1, <1>3, FS_Subset
  <1>8. QED BY <1>2, <1>3, <1>4, <1>6, <1>7

(* The record of a run, field by field. *)
Rec(at, i, t, c, b, l, o) == [at |-> at, by |-> i, table |-> t, cut |-> c, batch |-> b, late |-> l, owed |-> o]

(* The changes a run's record undergoes, by name. *)
Marked(x, B) == [x EXCEPT !.at = "found", !.batch = B, !.owed = @ \cup B]
Again(x) == [x EXCEPT !.at = "finding", !.batch = {}]
Spared(x, d) == [x EXCEPT !.owed = @ \ {d}]
Lapsed(x) == [x EXCEPT !.late = TRUE]
Finished(x) == [x EXCEPT !.at = "done"]

Fields(x, at, i, t, c, b, l, o) ==
  x.at = at /\ x.by = i /\ x.table = t /\ x.cut = c /\ x.batch = b /\ x.late = l /\ x.owed = o

LEMMA RecFields ==
  ASSUME NEW x \in SweepRecs
  PROVE  \E at \in {"finding", "found"}, i \in Instances, t \in 1..Tables, c \in SUBSET Rows, b \in SUBSET Rows,
            l \in BOOLEAN, o \in SUBSET Rows : x = Rec(at, i, t, c, b, l, o)
  BY DEF SweepRecs, Rec

LEMMA FieldsHold ==
  ASSUME NEW at, NEW i, NEW t, NEW c, NEW b, NEW l, NEW o, NEW x, x = Rec(at, i, t, c, b, l, o)
  PROVE  Fields(x, at, i, t, c, b, l, o)
  BY DEF Rec, Fields

LEMMA RecIsState ==
  ASSUME NEW at \in {"finding", "found"}, NEW i \in Instances, NEW t \in 1..Tables, NEW c \in SUBSET Rows,
         NEW b \in SUBSET Rows, NEW l \in BOOLEAN, NEW o \in SUBSET Rows
  PROVE  Rec(at, i, t, c, b, l, o) \in SweepRecs
  BY DEF SweepRecs, Rec

LEMMA MarkedHolds ==
  ASSUME NEW x \in SweepRecs, NEW B \in SUBSET Rows
  PROVE  /\ Marked(x, B) \in SweepRecs
         /\ Fields(Marked(x, B), "found", x.by, x.table, x.cut, B, x.late, x.owed \cup B)
  <1>1. PICK at \in {"finding", "found"}, i \in Instances, t \in 1..Tables, c \in SUBSET Rows, b \in SUBSET Rows,
             l \in BOOLEAN, o \in SUBSET Rows : x = Rec(at, i, t, c, b, l, o)
    BY RecFields
  <1>2. Fields(x, at, i, t, c, b, l, o) BY <1>1, FieldsHold
  <1> DEFINE y == [x EXCEPT !.at = "found"]
             z == [y EXCEPT !.batch = B]
             v == x.owed \cup B
             s == [z EXCEPT !.owed = v]
  <1>3. y = Rec("found", i, t, c, b, l, o) BY <1>1 DEF Rec
  <1>4. v = o \cup B BY <1>2 DEF Fields
  <1>5. Marked(x, B) = s BY DEF Marked
  <1> HIDE DEF y, v
  <1>6. z = Rec("found", i, t, c, B, l, o) BY <1>3 DEF Rec
  <1> HIDE DEF z
  <1>7. s = Rec("found", i, t, c, B, l, v) BY <1>6 DEF Rec
  <1> HIDE DEF s
  <1>8. v \in SUBSET Rows BY <1>4
  <1>9. s \in SweepRecs BY <1>7, <1>8, RecIsState
  <1>10. Fields(s, "found", i, t, c, B, l, v) BY <1>7, FieldsHold
  <1>11. QED BY <1>2, <1>4, <1>5, <1>9, <1>10 DEF Fields

LEMMA AgainHolds ==
  ASSUME NEW x \in SweepRecs
  PROVE  Again(x) \in SweepRecs /\ Fields(Again(x), "finding", x.by, x.table, x.cut, {}, x.late, x.owed)
  <1>1. PICK at \in {"finding", "found"}, i \in Instances, t \in 1..Tables, c \in SUBSET Rows, b \in SUBSET Rows,
             l \in BOOLEAN, o \in SUBSET Rows : x = Rec(at, i, t, c, b, l, o)
    BY RecFields
  <1>2. Fields(x, at, i, t, c, b, l, o) BY <1>1, FieldsHold
  <1> DEFINE y == [x EXCEPT !.at = "finding"]
             s == [y EXCEPT !.batch = {}]
  <1>3. y = Rec("finding", i, t, c, b, l, o) BY <1>1 DEF Rec
  <1>4. Again(x) = s BY DEF Again
  <1> HIDE DEF y
  <1>5. s = Rec("finding", i, t, c, {}, l, o) BY <1>3 DEF Rec
  <1> HIDE DEF s
  <1>6. s \in SweepRecs BY <1>5, RecIsState
  <1>7. Fields(s, "finding", i, t, c, {}, l, o) BY <1>5, FieldsHold
  <1>8. QED BY <1>2, <1>4, <1>6, <1>7 DEF Fields

LEMMA SparedHolds ==
  ASSUME NEW x \in SweepRecs, NEW d
  PROVE  Spared(x, d) \in SweepRecs /\ Fields(Spared(x, d), x.at, x.by, x.table, x.cut, x.batch, x.late, x.owed \ {d})
  <1>1. PICK at \in {"finding", "found"}, i \in Instances, t \in 1..Tables, c \in SUBSET Rows, b \in SUBSET Rows,
             l \in BOOLEAN, o \in SUBSET Rows : x = Rec(at, i, t, c, b, l, o)
    BY RecFields
  <1>2. Fields(x, at, i, t, c, b, l, o) BY <1>1, FieldsHold
  <1> DEFINE v == x.owed \ {d}
             s == [x EXCEPT !.owed = v]
  <1>3. v = o \ {d} BY <1>2 DEF Fields
  <1>4. Spared(x, d) = s BY DEF Spared
  <1> HIDE DEF v
  <1>5. s = Rec(at, i, t, c, b, l, v) BY <1>1 DEF Rec
  <1> HIDE DEF s
  <1>6. v \in SUBSET Rows BY <1>3
  <1>7. s \in SweepRecs BY <1>5, <1>6, RecIsState
  <1>8. Fields(s, at, i, t, c, b, l, v) BY <1>5, FieldsHold
  <1>9. QED BY <1>2, <1>3, <1>4, <1>7, <1>8 DEF Fields

LEMMA LapsedSweep ==
  ASSUME NEW x \in SweepRecs
  PROVE  Lapsed(x) \in SweepRecs /\ Fields(Lapsed(x), x.at, x.by, x.table, x.cut, x.batch, TRUE, x.owed)
  <1>1. PICK at \in {"finding", "found"}, i \in Instances, t \in 1..Tables, c \in SUBSET Rows, b \in SUBSET Rows,
             l \in BOOLEAN, o \in SUBSET Rows : x = Rec(at, i, t, c, b, l, o)
    BY RecFields
  <1>2. Fields(x, at, i, t, c, b, l, o) BY <1>1, FieldsHold
  <1> DEFINE v == TRUE
             s == [x EXCEPT !.late = v]
  <1>3. v = TRUE /\ v \in BOOLEAN OBVIOUS
  <1>4. Lapsed(x) = s BY DEF Lapsed
  <1> HIDE DEF v
  <1>5. s = Rec(at, i, t, c, b, v, o) BY <1>1 DEF Rec
  <1> HIDE DEF s
  <1>6. s \in SweepRecs BY <1>3, <1>5, RecIsState
  <1>7. Fields(s, at, i, t, c, b, v, o) BY <1>5, FieldsHold
  <1>8. QED BY <1>2, <1>3, <1>4, <1>6, <1>7 DEF Fields

LEMMA LapsedEnd ==
  ASSUME NEW x \in EndRecs
  PROVE  Lapsed(x) \in EndRecs /\ Lapsed(x).at = x.at /\ Lapsed(x).by = x.by /\ Lapsed(x).late = TRUE
  <1>1. PICK at \in {"releasing", "done", "dead"}, i \in Instances, l \in BOOLEAN : x = [at |-> at, by |-> i, late |-> l]
    BY DEF EndRecs
  <1> DEFINE v == TRUE
             s == [x EXCEPT !.late = v]
  <1>2. v = TRUE /\ v \in BOOLEAN OBVIOUS
  <1>3. Lapsed(x) = s BY DEF Lapsed
  <1> HIDE DEF v
  <1>4. s = [at |-> at, by |-> i, late |-> v] BY <1>1
  <1> HIDE DEF s
  <1>5. s \in EndRecs /\ s.at = at /\ s.by = i /\ s.late = v BY <1>2, <1>4 DEF EndRecs
  <1>6. x.at = at /\ x.by = i BY <1>1
  <1>7. QED BY <1>2, <1>3, <1>5, <1>6

LEMMA FinishedHolds ==
  ASSUME NEW x \in EndRecs
  PROVE  Finished(x) = Left(x, "done")
  <1>1. PICK at, i, l : x = [at |-> at, by |-> i, late |-> l] BY DEF EndRecs
  <1>2. x.by = i /\ x.late = l BY <1>1
  <1> DEFINE s == [x EXCEPT !.at = "done"]
  <1>3. s = [at |-> "done", by |-> i, late |-> l] BY <1>1
  <1>4. Finished(x) = s BY DEF Finished
  <1> HIDE DEF s
  <1>5. QED BY <1>2, <1>3, <1>4 DEF Left
-----------------------------------------------------------------------------
(* A sweeping run is good if it owes what it should. *)
LEMMA SweepIsGood ==
  ASSUME NEW s \in SweepRecs, NEW R, NEW O, Batched(s), Owes(s, R, O)
  PROVE  Good(s, R, O) /\ s # Fresh
  BY RecsAreStates, StateKinds DEF Good

(* What the batch of a run is read into. *)
LEMMA FoundHolds ==
  ASSUME RowsTyped, NEW a \in Runs, Good(run[a], row, old), run[a].at = "finding",
         Matching(a) # {}, NEW B \in Batches(Matching(a))
  PROVE  Marked(run[a], B).by = run[a].by /\ Marked(run[a], B).late = run[a].late
         /\ Good(Marked(run[a], B), row, old) /\ Marked(run[a], B) # Fresh
  <1> DEFINE x == run[a]
             s == Marked(run[a], B)
  <1>1. x \in SweepRecs BY StateKinds DEF Good
  <1>2. /\ Matching(a) \subseteq Rows /\ Matching(a) \subseteq x.cut
        /\ Matching(a) = {r \in x.cut : row[r] \in Settled}
    BY <1>1 DEF Matching, SweepRecs
  <1>3. /\ B # {} /\ B \subseteq Matching(a) /\ Cardinality(B) <= BATCH_SIZE
        /\ Cardinality(B) < BATCH_SIZE => B = Matching(a)
    BY <1>2, BatchHolds
  <1>4. x.owed \in SUBSET Rows BY <1>1 DEF SweepRecs
  <1>5. s \in SweepRecs /\ Fields(s, "found", x.by, x.table, x.cut, B, x.late, x.owed \cup B)
    BY <1>1, <1>2, <1>3, MarkedHolds
  <1>8. x.cut \subseteq old /\ x.owed \subseteq x.cut /\ \A r \in x.owed : row[r] # "open"
    BY DEF Good, Owes
  <1>9. \A r \in B : row[r] # "open" BY <1>2, <1>3 DEF Settled
  <1>10. ASSUME Cardinality(B) < BATCH_SIZE, NEW r \in x.owed \cup B PROVE r \in B \/ row[r] = "gone"
    <2>1. SUFFICES ASSUME r \in x.owed, row[r] # "gone" PROVE r \in Matching(a) BY <1>10, <1>3
    <2>2. row[r] \in Statuses(r) /\ row[r] # "open" BY <2>1, <1>4, <1>8 DEF RowsTyped
    <2>3. row[r] \in Settled BY <2>1, <2>2 DEF Statuses, Settled
    <2>4. QED BY <2>1, <2>3, <1>2, <1>8
  <1> HIDE DEF x, s
  <1>12. Batched(s) BY <1>2, <1>3, <1>5 DEF Batched, Fields
  <1>13. Owes(s, row, old) BY <1>2, <1>3, <1>5, <1>8, <1>9, <1>10 DEF Owes, Fields
  <1>14. Good(s, row, old) /\ s # Fresh BY <1>5, <1>12, <1>13, SweepIsGood
  <1>15. QED BY <1>5, <1>14 DEF x, s, Fields

(* A run goes back for another batch. *)
LEMMA AgainGood ==
  ASSUME NEW x \in SweepRecs, NEW R, NEW O, Good(x, R, O)
  PROVE  Good(Again(x), R, O) /\ Again(x) # Fresh
  <1>1. x.at \in {"finding", "found"} BY DEF SweepRecs
  <1>2. Batched(Again(x)) /\ Owes(Again(x), R, O) BY <1>1, AgainHolds DEF Good, Batched, Owes, Fields
  <1>3. QED BY <1>2, AgainHolds, SweepIsGood

(* An operator's retry takes a row off what a run owes. *)
LEMMA SparedGood ==
  ASSUME NEW x \in SweepRecs, NEW R, NEW O, NEW d, Good(x, R, O)
  PROVE  Good(Spared(x, d), R, O) /\ Spared(x, d) # Fresh
  <1>1. x.at \in {"finding", "found"} BY DEF SweepRecs
  <1>2. Batched(Spared(x, d)) /\ Owes(Spared(x, d), R, O) BY <1>1, SparedHolds DEF Good, Batched, Owes, Fields
  <1>3. QED BY <1>2, SparedHolds, SweepIsGood

(* A run outlives its lock. *)
LEMMA LateHolds ==
  ASSUME NEW x, NEW R, NEW O, Good(x, R, O), x # Fresh
  PROVE  /\ Good(Lapsed(x), R, O) /\ Lapsed(x) # Fresh
         /\ Lapsed(x).at = x.at /\ Lapsed(x).by = x.by /\ Lapsed(x).late
  <1>1. CASE x \in SweepRecs
    <2>1. x.at \in {"finding", "found"} BY <1>1 DEF SweepRecs
    <2>2. Batched(Lapsed(x)) /\ Owes(Lapsed(x), R, O) BY <1>1, <2>1, LapsedSweep DEF Good, Batched, Owes, Fields
    <2>3. QED BY <1>1, <2>2, LapsedSweep, SweepIsGood DEF Fields
  <1>2. CASE x \in EndRecs
    <2>1. x.at \in {"releasing", "done", "dead"} BY <1>2 DEF EndRecs
    <2>2. Lapsed(x) \in EndRecs /\ Lapsed(x).at = x.at /\ Lapsed(x).by = x.by /\ Lapsed(x).late = TRUE
      BY <1>2, LapsedEnd
    <2>3. Lapsed(x) \in RunStates /\ Lapsed(x) # Fresh BY <2>2, RecsAreStates, StateKinds
    <2>4. Good(Lapsed(x), R, O) BY <2>1, <2>2, <2>3 DEF Good, Batched, Owes
    <2>5. QED BY <2>2, <2>3, <2>4
  <1>3. QED BY <1>1, <1>2, StateKinds DEF Good
-----------------------------------------------------------------------------
(* How a step but Fire changes the runs: those that go on keep their replica *)
(* and do not regain their time.                                             *)
Moved(s, w) ==
  \/ w = s
  \/ s.at \in {"finding", "found", "releasing"} /\ w # Fresh /\ w.by = s.by /\ (s.late => w.late)

Follows ==
  /\ run' \in [Runs -> RunStates \cup {Fresh}]
  /\ \A b \in Runs : Good(run'[b], row', old') /\ Moved(run[b], run'[b])

LEMMA OneMoves ==
  ASSUME SInv, NEW a \in Runs, NEW s, Good(s, row', old'), Moved(run[a], s), run' = [run EXCEPT ![a] = s],
         \A b \in Runs : Good(run[b], row', old')
  PROVE  Follows
  <1>1. run \in [Runs -> RunStates \cup {Fresh}] BY DEF SInv
  <1>2. s \in RunStates \cup {Fresh} BY DEF Good
  <1>3. run' \in [Runs -> RunStates \cup {Fresh}] BY <1>1, <1>2
  <1>4. \A b \in Runs : run'[b] = IF b = a THEN s ELSE run[b] BY <1>1
  <1>5. QED BY <1>3, <1>4 DEF Follows, Moved

LEMMA NoneMoves ==
  ASSUME SInv, UNCHANGED run, \A b \in Runs : Good(run[b], row', old')
  PROVE  Follows
  BY DEF SInv, Follows, Moved

(* The rows as the runs see them. *)
LEMMA RunsStayGood ==
  ASSUME SInv, old \subseteq old',
         \A r \in Rows : row'[r] = row[r] \/ row'[r] = "gone" \/ row[r] = "open"
  PROVE  \A b \in Runs : Good(run[b], row', old')
  <1> SUFFICES ASSUME NEW b \in Runs PROVE Good(run[b], row', old') OBVIOUS
  <1>1. Good(run[b], row, old) BY DEF SInv, RunsGood
  <1>2. ASSUME run[b].at \in {"finding", "found"} PROVE run[b].owed \subseteq Rows
    <2>1. run[b] \in SweepRecs BY <1>1, <1>2, StateKinds DEF Good
    <2>2. QED BY <2>1 DEF SweepRecs
  <1>3. QED BY <1>1, <1>2, GoodStays

(* A run that is not fresh ends where it is, with its replica. *)
LEMMA Ending ==
  ASSUME SInv, NEW a \in Runs, Running(a), NEW stage \in {"releasing", "done", "dead"}
  PROVE  \A R, O : Good(Left(run[a], stage), R, O) /\ Moved(run[a], Left(run[a], stage))
  <1>1. run[a] \in RunStates \cup {Fresh} BY DEF SInv
  <1>2. run[a] # Fresh BY DEF Running, Fresh
  <1>3. run[a].by \in Instances /\ run[a].late \in BOOLEAN BY <1>1, <1>2, StateKinds
  <1>4. /\ Left(run[a], stage) \in EndRecs
        /\ Left(run[a], stage).by = run[a].by /\ Left(run[a], stage).late = run[a].late
        /\ \A R, O : Good(Left(run[a], stage), R, O)
    BY <1>3, LeftHolds
  <1>5. Left(run[a], stage) # Fresh BY <1>4, StateKinds, RecsAreStates
  <1>6. QED BY <1>4, <1>5 DEF Moved, Running

LEMMA FindFollows ==
  ASSUME SInv, NEW a \in Runs, Find(a)
  PROVE  Follows
  <1>1. row' = row /\ old' = old /\ run[a].at = "finding" BY DEF Find
  <1>2. \A b \in Runs : Good(run[b], row', old') BY <1>1 DEF SInv, RunsGood
  <1>3. Good(run[a], row, old) /\ RowsTyped BY DEF SInv, RunsGood
  <1>4. run[a] \in SweepRecs BY <1>1, <1>3, StateKinds DEF Good
  <1>5. CASE run' = [run EXCEPT ![a] = Advanced(run[a])]
    <2>1. Good(Advanced(run[a]), row, old) /\ Advanced(run[a]) \in SweepRecs \cup EndRecs
          /\ Advanced(run[a]).by = run[a].by /\ Advanced(run[a]).late = run[a].late
      BY <1>3, <1>4, AdvancedHolds
    <2>2. Advanced(run[a]) # Fresh BY <2>1, RecsAreStates, StateKinds
    <2>3. Moved(run[a], Advanced(run[a])) BY <1>1, <2>1, <2>2 DEF Moved
    <2>4. QED BY <1>1, <1>2, <1>5, <2>1, <2>3, OneMoves
  <1>6. ASSUME NEW B \in Batches(Matching(a)), Matching(a) # {}, run' = [run EXCEPT ![a] = Marked(run[a], B)]
        PROVE  Follows
    <2>1. /\ Marked(run[a], B).by = run[a].by /\ Marked(run[a], B).late = run[a].late
          /\ Good(Marked(run[a], B), row, old) /\ Marked(run[a], B) # Fresh
      BY <1>1, <1>3, <1>6, FoundHolds
    <2>2. Moved(run[a], Marked(run[a], B)) BY <1>1, <2>1 DEF Moved
    <2>3. QED BY <1>1, <1>2, <1>6, <2>1, <2>2, OneMoves
  <1>7. QED BY <1>5, <1>6 DEF Find, Marked

(* The rows a run deletes are its batch; others only go. *)
LEMMA DroppedRows ==
  ASSUME SInv, NEW a \in Runs, Delete(a)
  PROVE  /\ row' \in [Rows -> UNION {Statuses(r) : r \in Rows}]
         /\ \A r \in Rows : row'[r] = row[r] \/ (r \in run[a].batch /\ row'[r] = "gone")
         /\ ~DryRun => \A r \in Rows \cap run[a].batch : row'[r] = "gone"
  <1>1. row' = IF DryRun THEN row ELSE Dropped(run[a].batch) BY DEF Delete
  <1>2. \A r \in Rows : row[r] \in Statuses(r) /\ "gone" \in Statuses(r) BY DEF SInv, RowsTyped, Statuses
  <1>3. row \in [Rows -> UNION {Statuses(r) : r \in Rows}] BY DEF SInv, RowsTyped
  <1>4. CASE DryRun BY <1>1, <1>3, <1>4
  <1>5. CASE ~DryRun
    <2>1. row' = Dropped(run[a].batch) BY <1>1, <1>5
    <2>2. Dropped(run[a].batch) \in [Rows -> UNION {Statuses(r) : r \in Rows}] BY <1>2 DEF Dropped
    <2>3. \A r \in Rows : row'[r] = IF r \in run[a].batch THEN "gone" ELSE row[r] BY <2>1 DEF Dropped
    <2>4. QED BY <2>1, <2>2, <2>3
  <1>6. QED BY <1>4, <1>5

LEMMA DeleteFollows ==
  ASSUME SInv, NEW a \in Runs, Delete(a)
  PROVE  Follows
  <1>1. old' = old /\ run[a].at = "found" BY DEF Delete
  <1>2. \A r \in Rows : row'[r] = row[r] \/ row'[r] = "gone" BY DroppedRows
  <1>3. \A b \in Runs : Good(run[b], row', old') BY <1>1, <1>2, RunsStayGood
  <1>4. Good(run[a], row, old) /\ Good(run[a], row', old') /\ RowsTyped BY <1>3 DEF SInv, RunsGood
  <1>5. run[a] \in SweepRecs BY <1>1, <1>4, StateKinds DEF Good
  <1>6. CASE run' = [run EXCEPT ![a] = Advanced(run[a])]
    <2> DEFINE s == Advanced(run[a])
    <2>1. Good(s, row, old) /\ s \in SweepRecs \cup EndRecs /\ s.by = run[a].by /\ s.late = run[a].late
      BY <1>4, <1>5, AdvancedHolds
    <2> HIDE DEF s
    <2>2. s # Fresh BY <2>1, RecsAreStates, StateKinds
    <2>3. s.at \in {"finding", "found"} => s.owed \subseteq Rows
      <3>1. s.at \in {"finding", "found"} => s \in SweepRecs BY <2>1, StateKinds DEF Good
      <3>2. QED BY <3>1 DEF SweepRecs
    <2>4. Good(s, row', old') BY <1>1, <1>2, <2>1, <2>3, GoodStays
    <2>5. Moved(run[a], s) BY <1>1, <2>1, <2>2 DEF Moved
    <2>6. QED BY <1>3, <1>6, <2>4, <2>5, OneMoves DEF s
  <1>7. CASE run' = [run EXCEPT ![a] = Again(run[a])]
    <2>1. Good(Again(run[a]), row', old') /\ Again(run[a]) # Fresh BY <1>4, <1>5, AgainGood
    <2>2. Again(run[a]).by = run[a].by /\ Again(run[a]).late = run[a].late BY <1>5, AgainHolds DEF Fields
    <2>3. Moved(run[a], Again(run[a])) BY <1>1, <2>1, <2>2 DEF Moved
    <2>4. QED BY <1>3, <1>7, <2>1, <2>3, OneMoves
  <1>8. QED BY <1>6, <1>7 DEF Delete, Again

LEMMA EndFollows ==
  ASSUME SInv, NEW a \in Runs, QueryFails(a) \/ Release(a) \/ ReleaseFails(a)
  PROVE  Follows
  <1>1. row' = row /\ old' = old BY DEF QueryFails, Release, ReleaseFails
  <1>2. \A b \in Runs : Good(run[b], row', old') BY <1>1 DEF SInv, RunsGood
  <1>3. Running(a) BY DEF QueryFails, Release, ReleaseFails, Running, Sweeping
  <1>4. CASE QueryFails(a)
    <2>1. run' = [run EXCEPT ![a] = Left(run[a], "releasing")] BY <1>4 DEF QueryFails
    <2>2. QED BY <1>2, <1>3, <2>1, Ending, OneMoves
  <1>5. CASE Release(a) \/ ReleaseFails(a)
    <2>1. run' = [run EXCEPT ![a] = Finished(run[a])] BY <1>5 DEF Release, ReleaseFails, Finished
    <2>2. run[a] \in RunStates \cup {Fresh} /\ run[a].at = "releasing" BY <1>5 DEF Release, ReleaseFails, SInv
    <2>3. Finished(run[a]) = Left(run[a], "done") BY <2>2, StateKinds, FinishedHolds
    <2>4. run' = [run EXCEPT ![a] = Left(run[a], "done")] BY <2>1, <2>3
    <2>5. QED BY <1>2, <1>3, <2>4, Ending, OneMoves
  <1>6. QED BY <1>4, <1>5

LEMMA LapseFollows ==
  ASSUME SInv, NEW a \in Runs, Lapse(a)
  PROVE  Follows
  <1>1. row' = row /\ old' = old BY DEF Lapse
  <1>2. \A b \in Runs : Good(run[b], row', old') BY <1>1 DEF SInv, RunsGood
  <1>3. CASE Running(a) /\ run' = [run EXCEPT ![a] = Lapsed(run[a])]
    <2>1. run[a] # Fresh BY <1>3 DEF Running, Fresh
    <2>2. Good(run[a], row, old) BY DEF SInv, RunsGood
    <2>3. Good(Lapsed(run[a]), row, old) /\ Lapsed(run[a]) # Fresh /\ Lapsed(run[a]).by = run[a].by /\ Lapsed(run[a]).late
      BY <2>1, <2>2, LateHolds
    <2>4. Moved(run[a], Lapsed(run[a])) BY <1>3, <2>3 DEF Moved, Running
    <2>5. QED BY <1>1, <1>2, <1>3, <2>3, <2>4, OneMoves
  <1>4. CASE UNCHANGED run BY <1>2, <1>4, NoneMoves
  <1>5. QED BY <1>3, <1>4 DEF Lapse, Lapsed

LEMMA CrashFollows ==
  ASSUME SInv, NEW inst \in Instances, Crash(inst)
  PROVE  Follows
  <1>1. row' = row /\ old' = old BY DEF Crash
  <1>2. \A b \in Runs : run'[b] = IF Running(b) /\ run[b].by = inst THEN Left(run[b], "dead") ELSE run[b]
    BY DEF Crash
  <1>3. ASSUME NEW b \in Runs PROVE Good(run'[b], row', old') /\ Moved(run[b], run'[b])
    <2>1. CASE Running(b) /\ run[b].by = inst BY <1>2, <2>1, Ending
    <2>2. CASE ~(Running(b) /\ run[b].by = inst) BY <1>1, <1>2, <2>2 DEF Moved, SInv, RunsGood
    <2>3. QED BY <2>1, <2>2
  <1>4. run' = [b \in Runs |-> run'[b]] BY DEF Crash
  <1>5. \A b \in Runs : run'[b] \in RunStates \cup {Fresh} BY <1>3 DEF Good
  <1>6. QED BY <1>3, <1>4, <1>5 DEF Follows

LEMMA RetryFollows ==
  ASSUME SInv, NEW d \in Deliveries, Retry(d)
  PROVE  Follows
  <1>1. old' = old BY DEF Retry
  <1>2. \A b \in Runs : run'[b] = IF Sweeping(b) THEN Spared(run[b], d) ELSE run[b] BY DEF Retry, Spared
  <1>3. \A r \in Rows : row'[r] = row[r] \/ r = d BY DEF Retry, SInv, RowsTyped
  <1>4. ASSUME NEW b \in Runs PROVE Good(run'[b], row', old') /\ Moved(run[b], run'[b])
    <2>1. Good(run[b], row, old) BY DEF SInv, RunsGood
    <2>2. CASE Sweeping(b)
      <3>1. run[b] \in SweepRecs BY <2>1, <2>2, StateKinds DEF Good, Sweeping
      <3> DEFINE s == Spared(run[b], d)
      <3>2. Good(s, row, old) /\ s # Fresh BY <2>1, <3>1, SparedGood
      <3>3. s.by = run[b].by /\ s.late = run[b].late /\ s.owed = run[b].owed \ {d} /\ run[b].owed \subseteq Rows
        BY <3>1, SparedHolds DEF Fields, SweepRecs
      <3> HIDE DEF s
      <3>4. \A r \in s.owed : row'[r] = row[r] BY <1>3, <3>3
      <3>5. Good(s, row', old') BY <1>1, <3>2, <3>4, GoodStays
      <3>6. Moved(run[b], s) BY <2>2, <3>2, <3>3 DEF Moved, Sweeping
      <3>7. QED BY <1>2, <2>2, <3>5, <3>6 DEF s
    <2>3. CASE ~Sweeping(b)
      <3>1. run'[b] = run[b] BY <1>2, <2>3
      <3>2. Good(run[b], row', old') BY <2>1, <2>3 DEF Good, Owes, Sweeping
      <3>3. QED BY <3>1, <3>2 DEF Moved
    <2>4. QED BY <2>2, <2>3
  <1>5. run' = [b \in Runs |-> run'[b]] BY DEF Retry
  <1>6. \A b \in Runs : run'[b] \in RunStates \cup {Fresh} BY <1>4 DEF Good
  <1>7. QED BY <1>4, <1>5, <1>6 DEF Follows

LEMMA OthersFollow ==
  ASSUME SInv, UNCHANGED run, old \subseteq old',
         \A r \in Rows : row'[r] = row[r] \/ row'[r] = "gone" \/ row[r] = "open"
  PROVE  Follows
  BY RunsStayGood, NoneMoves
-----------------------------------------------------------------------------
(* A run that fires begins with the first table, and holds the lock. *)
LEMMA FireBegins ==
  ASSUME SInv, NEW a \in Runs, Fire(a)
  PROVE  /\ run[a] = Fresh /\ lock = Free /\ lock' = a
         /\ run' \in [Runs -> RunStates \cup {Fresh}] /\ run'[a] # Fresh /\ run'[a].at = "finding"
         /\ \A b \in Runs : b # a => run'[b] = run[b]
         /\ \A b \in Runs : Good(run'[b], row', old')
  <1>1. PICK inst \in Instances : run' = [run EXCEPT ![a] = Begins(inst, 1, FALSE)]
    BY SweepAssumption DEF Fire
  <1> DEFINE s == Begins(inst, 1, FALSE)
  <1>2. 1 \in 1..Tables /\ FALSE \in BOOLEAN BY SweepAssumption
  <1>3. s \in SweepRecs /\ Good(s, row, old) /\ s.at = "finding" BY <1>2, BeginsHolds DEF SInv
  <1> HIDE DEF s
  <1>4. s # Fresh /\ s \in RunStates BY <1>3, RecsAreStates, StateKinds
  <1>5. run' = [run EXCEPT ![a] = s] BY <1>1 DEF s
  <1>6. run \in [Runs -> RunStates \cup {Fresh}] BY DEF SInv
  <1>7. run' \in [Runs -> RunStates \cup {Fresh}] BY <1>4, <1>5, <1>6
  <1>8. \A b \in Runs : run'[b] = IF b = a THEN s ELSE run[b] BY <1>5, <1>6
  <1>9. row' = row /\ old' = old /\ run[a] = Fresh /\ lock = Free /\ lock' = a BY DEF Fire
  <1>10. \A b \in Runs : Good(run'[b], row', old') BY <1>3, <1>8, <1>9 DEF SInv, RunsGood
  <1>11. QED BY <1>3, <1>4, <1>7, <1>8, <1>9, <1>10

(* The rows that the others settle, retry or see expire. *)
Meanwhile ==
  \/ \E d \in Deliveries : Settle(d) \/ RetryReads(d)
  \/ \E r \in Rows : Age(r)

LEMMA StepFollows ==
  ASSUME SInv, [Next]_vars, \A a \in Runs : ~Fire(a)
  PROVE  Follows
  <1>1. ASSUME NEW a \in Runs, Find(a) PROVE Follows BY <1>1, FindFollows
  <1>2. ASSUME NEW a \in Runs, Delete(a) PROVE Follows BY <1>2, DeleteFollows
  <1>3. ASSUME NEW a \in Runs, QueryFails(a) \/ Release(a) \/ ReleaseFails(a) PROVE Follows BY <1>3, EndFollows
  <1>4. ASSUME NEW a \in Runs, Lapse(a) PROVE Follows BY <1>4, LapseFollows
  <1>5. ASSUME NEW inst \in Instances, Crash(inst) PROVE Follows BY <1>5, CrashFollows
  <1>6. ASSUME NEW d \in Deliveries, Retry(d) PROVE Follows BY <1>6, RetryFollows
  <1>7. CASE Meanwhile
    <2>1. \A r \in Rows : row'[r] = row[r] \/ row[r] = "open"
      BY <1>7 DEF Meanwhile, Settle, RetryReads, Age, SInv, RowsTyped
    <2>2. UNCHANGED run /\ old \subseteq old' BY <1>7 DEF Meanwhile, Settle, RetryReads, Age
    <2>3. QED BY <2>1, <2>2, OthersFollow
  <1>8. CASE UNCHANGED vars
    <2>1. UNCHANGED <<run, row, old>> BY <1>8 DEF vars
    <2>2. QED BY <2>1, OthersFollow
  <1>9. QED BY <1>1, <1>2, <1>3, <1>4, <1>5, <1>6, <1>7, <1>8 DEF Next, Sweep, Meanwhile

LEMMA RowsTypedKept ==
  ASSUME SInv, [Next]_vars
  PROVE  RowsTyped'
  <1> USE DEF SInv
  <1>1. ASSUME NEW a \in Runs, Delete(a) PROVE RowsTyped'
    <2>1. \A r \in Rows : row[r] \in Statuses(r) /\ "gone" \in Statuses(r) BY DEF RowsTyped, Statuses
    <2>2. \A r \in Rows : row'[r] \in Statuses(r) BY <1>1, <2>1, DroppedRows
    <2>3. QED BY <1>1, <2>2, DroppedRows DEF RowsTyped, Delete
  <1>2. ASSUME NEW d \in Deliveries, Settle(d) PROVE RowsTyped'
    <2>1. d \in Rows /\ Statuses(d) = {"open", "delivered", "abandoned", "gone"} BY DEF Deliveries, Statuses
    <2>2. QED BY <1>2, <2>1 DEF RowsTyped, Settle
  <1>3. ASSUME NEW d \in Deliveries, Retry(d) PROVE RowsTyped'
    <2>1. d \in Rows /\ Statuses(d) = {"open", "delivered", "abandoned", "gone"} BY DEF Deliveries, Statuses
    <2>2. QED BY <1>3, <2>1 DEF RowsTyped, Retry
  <1>4. ASSUME NEW d \in Deliveries, RetryReads(d) PROVE RowsTyped' BY <1>4 DEF RowsTyped, RetryReads
  <1>5. ASSUME NEW r \in Rows, Age(r) PROVE RowsTyped' BY <1>5 DEF RowsTyped, Age
  <1>6. CASE UNCHANGED <<row, old, asked>> BY <1>6 DEF RowsTyped
  <1>7. QED
    BY <1>1, <1>2, <1>3, <1>4, <1>5, <1>6
    DEF Next, Sweep, vars, Fire, Find, Release, QueryFails, ReleaseFails, Lapse, Crash

LEMMA LeftTypedKept ==
  ASSUME SInv, [Next]_vars
  PROVE  LeftTyped'
  <1>1. left \in [changes : 0..MaxChanges, faults : 0..MaxFaults] BY DEF SInv, LeftTyped
  <1>2. CASE Fault BY <1>1, <1>2, SweepAssumption DEF Fault, LeftTyped
  <1>3. CASE Change BY <1>1, <1>3, SweepAssumption DEF Change, LeftTyped
  <1>4. CASE UNCHANGED left BY <1>1, <1>4 DEF LeftTyped
  <1>5. QED
    BY <1>2, <1>3, <1>4
    DEF Next, Sweep, vars, Fire, Find, Delete, Release, QueryFails, ReleaseFails, Lapse, Crash,
        Settle, RetryReads, Retry, Age

LEMMA LockSteps ==
  ASSUME [Next]_vars, \A a \in Runs : ~Fire(a)
  PROVE  \/ lock' = lock
         \/ \E a \in Runs : Release(a) /\ OwnToken(a) /\ lock' = Free
         \/ \E a \in Runs : Lapse(a) /\ lock = a /\ lock' = Free
  BY DEF Next, Sweep, vars, Find, Delete, Release, QueryFails, ReleaseFails, Lapse, Crash,
         Settle, RetryReads, Retry, Age

LEMMA SInvKept ==
  ASSUME SInv, [Next]_vars
  PROVE  SInv'
  <1>1. RowsTyped' /\ LeftTyped' BY RowsTypedKept, LeftTypedKept
  <1>2. ASSUME NEW a \in Runs, Fire(a) PROVE LockTyped' /\ run' \in [Runs -> RunStates \cup {Fresh}] /\ RunsGood'
    BY <1>2, FireBegins DEF LockTyped, RunsGood
  <1>3. CASE \A a \in Runs : ~Fire(a)
    <2>1. Follows BY <1>3, StepFollows
    <2>2. lock' = lock \/ lock' = Free BY <1>3, LockSteps
    <2>3. lock \in Runs /\ run[lock] # Fresh => run'[lock] # Fresh BY <2>1 DEF Follows, Moved
    <2>4. LockTyped BY DEF SInv
    <2>5. LockTyped' BY <2>2, <2>3, <2>4 DEF LockTyped, Free
    <2>6. run' \in [Runs -> RunStates \cup {Fresh}] BY <2>1 DEF Follows
    <2>7. RunsGood' BY <2>1 DEF Follows, RunsGood
    <2>8. QED BY <1>1, <2>5, <2>6, <2>7 DEF SInv
  <1>4. QED BY <1>1, <1>2, <1>3 DEF SInv

LEMMA InitSInv == Init => SInv
  <1> SUFFICES ASSUME Init PROVE SInv OBVIOUS
  <1>1. \A a \in Runs : run[a] = Fresh BY DEF Init
  <1>2. \A a \in Runs : Good(run[a], row, old) BY <1>1 DEF Good, Batched, Owes, Fresh
  <1>3. run \in [Runs -> RunStates \cup {Fresh}] BY DEF Init
  <1>4. LockTyped /\ LeftTyped BY SweepAssumption DEF Init, LockTyped, LeftTyped
  <1>5. RowsTyped BY SweepAssumption DEF Init, RowsTyped
  <1>6. QED BY <1>2, <1>3, <1>4, <1>5 DEF SInv, RunsGood
-----------------------------------------------------------------------------
(* A run that is over stays so. *)
LEMMA RelicStays ==
  ASSUME SInv, [Next]_vars, NEW inst, Relic(inst)
  PROVE  Relic(inst)'
  <1>1. PICK c \in Runs : run[c].at = "done" /\ run[c].late /\ run[c].by = inst BY DEF Relic
  <1>2. run'[c] = run[c]
    <2>1. ASSUME NEW a \in Runs, Fire(a) PROVE run'[c] = run[c] BY <1>1, <2>1, FireBegins DEF Fresh
    <2>2. CASE \A a \in Runs : ~Fire(a) BY <1>1, <2>2, StepFollows DEF Follows, Moved
    <2>3. QED BY <2>1, <2>2
  <1>3. QED BY <1>1, <1>2 DEF Relic

LEMMA ReleaseEnds ==
  ASSUME SInv, NEW a \in Runs, Release(a)
  PROVE  run'[a].at = "done" /\ run'[a].by = run[a].by /\ run'[a].late = run[a].late /\ run[a].late \in BOOLEAN
  <1>1. run' = [run EXCEPT ![a] = Finished(run[a])] /\ run[a].at = "releasing" BY DEF Release, Finished
  <1>2. run \in [Runs -> RunStates \cup {Fresh}] BY DEF SInv
  <1>3. run[a] \in EndRecs BY <1>1, <1>2, StateKinds
  <1>4. run'[a] = Left(run[a], "done") BY <1>1, <1>2, <1>3, FinishedHolds
  <1>5. run[a].by \in Instances /\ run[a].late \in BOOLEAN BY <1>3 DEF EndRecs
  <1>6. QED BY <1>4, <1>5, LeftHolds

LEMMA LapseEnds ==
  ASSUME SInv, NEW a \in Runs, Lapse(a), lock = a
  PROVE  ~InTime(a)'
  <1>1. CASE Running(a) /\ run' = [run EXCEPT ![a] = Lapsed(run[a])]
    <2>1. run[a] # Fresh BY <1>1 DEF Running, Fresh
    <2>2. Good(run[a], row, old) /\ run \in [Runs -> RunStates \cup {Fresh}] BY DEF SInv, RunsGood
    <2>3. Lapsed(run[a]).late BY <2>1, <2>2, LateHolds
    <2>4. run'[a] = Lapsed(run[a]) BY <1>1, <2>2
    <2>5. QED BY <2>3, <2>4 DEF InTime
  <1>2. CASE ~Running(a) /\ UNCHANGED run BY <1>2 DEF InTime, Running
  <1>3. QED BY <1>1, <1>2 DEF Lapse, Lapsed

LEMMA LockHeldKept ==
  ASSUME SInv, LockHeld, [Next]_vars
  PROVE  LockHeld'
  <1> SUFFICES ASSUME NEW b \in Runs, NEW i \in Instances, InTime(b)', lock' # b, run'[b].by = i
               PROVE  Relic(i)'
    BY DEF LockHeld
  <1>1. ASSUME NEW a \in Runs, Fire(a) PROVE Relic(i)'
    <2>1. b # a /\ run'[b] = run[b] /\ lock = Free BY <1>1, FireBegins
    <2>2. InTime(b) /\ lock # b /\ run[b].by = i BY <2>1 DEF InTime, Running, Runs, Free
    <2>3. Relic(i) BY <2>2 DEF LockHeld
    <2>4. QED BY <2>3, RelicStays
  <1>2. CASE \A a \in Runs : ~Fire(a)
    <2>1. InTime(b) /\ run[b].by = i
      BY <1>2, StepFollows DEF Follows, Moved, InTime, Running
    <2>2. CASE lock # b
      <3>1. Relic(i) BY <2>1, <2>2 DEF LockHeld
      <3>2. QED BY <3>1, RelicStays
    <2>3. CASE lock = b
      <3>1. ASSUME NEW a \in Runs, Release(a), OwnToken(a) PROVE Relic(i)'
        <4>1. run[a].by = i BY <2>1, <2>3, <3>1 DEF OwnToken
        <4>2. run'[a].at = "done" /\ run'[a].by = run[a].by /\ run'[a].late = run[a].late /\ run[a].late \in BOOLEAN
          BY <3>1, ReleaseEnds
        <4>3. a # b BY <4>2 DEF InTime, Running
        <4>4. CASE run[a].late BY <4>1, <4>2, <4>4 DEF Relic
        <4>5. CASE ~run[a].late
          <5>1. InTime(a) /\ lock # a BY <2>3, <3>1, <4>3, <4>5 DEF InTime, Running, Release
          <5>2. Relic(i) BY <4>1, <5>1 DEF LockHeld
          <5>3. QED BY <5>2, RelicStays
        <4>6. QED BY <4>4, <4>5
      <3>2. ASSUME NEW a \in Runs, Lapse(a), lock = a PROVE FALSE
        BY <2>3, <3>2, LapseEnds
      <3>3. QED BY <1>2, <2>3, <3>1, <3>2, LockSteps
    <2>4. QED BY <2>2, <2>3
  <1>3. QED BY <1>1, <1>2

(* The inductive invariant: types, what runs owe, and who may hold no lock. *)
IInv == SInv /\ LockHeld

THEOREM SweepInvariant == Spec => []IInv
  <1>1. Init => IInv
    <2>1. Init => LockHeld BY DEF Init, LockHeld, InTime, Running, Fresh
    <2>2. QED BY <2>1, InitSInv DEF IInv
  <1>2. IInv /\ [Next]_vars => IInv' BY SInvKept, LockHeldKept DEF IInv
  <1>3. QED BY <1>1, <1>2, PTL DEF Spec

(* Type correctness, and the batches: never empty, never longer than a batch *)
(* holds, of rows expired at the table's cutoff.                             *)
THEOREM SweepTyped == Spec => []TypeOK
  <1>1. IInv => TypeOK BY SInvTypes DEF IInv
  <1>2. QED BY <1>1, SweepInvariant, PTL

(* Two runs of the cron are within their locks' time together only where an  *)
(* earlier run of one of their replicas outlived its lock.                   *)
THEOREM InTimeRunsAlone == Spec => []InTimeAlone
  <1>1. IInv => InTimeAlone
    <2> SUFFICES ASSUME IInv, NEW a \in Runs, NEW b \in Runs, a # b, InTime(a), InTime(b)
                 PROVE  Relic(run[a].by) \/ Relic(run[b].by)
      BY DEF InTimeAlone
    <2>1. ASSUME NEW c \in Runs, InTime(c) PROVE run[c].by \in Instances
      <3>1. run[c] \in RunStates \cup {Fresh} BY DEF IInv, SInv
      <3>2. run[c] # Fresh BY <2>1 DEF InTime, Running, Fresh
      <3>3. QED BY <3>1, <3>2, StateKinds
    <2>2. lock # a \/ lock # b OBVIOUS
    <2>3. QED BY <2>1, <2>2 DEF IInv, LockHeld
  <1>2. QED BY <1>1, SweepInvariant, PTL
-----------------------------------------------------------------------------
LEMMA GoneByDelete ==
  ASSUME SInv, [Next]_vars, NEW r \in Rows, row[r] # "gone", row'[r] = "gone"
  PROVE  \E a \in Runs : Delete(a) /\ r \in run[a].batch
  <1>1. ASSUME NEW a \in Runs, Delete(a) PROVE r \in run[a].batch BY <1>1, DroppedRows
  <1>2. ASSUME NEW d \in Deliveries, Settle(d) \/ Retry(d) PROVE FALSE
    BY <1>2 DEF Settle, Retry, SInv, RowsTyped
  <1>3. ASSUME UNCHANGED row PROVE FALSE BY <1>3
  <1>4. QED
    BY <1>1, <1>2, <1>3
    DEF Next, Sweep, vars, Fire, Find, Release, QueryFails, ReleaseFails, Lapse, Crash, RetryReads, Age

(* A row leaves only past its retention, and settled or retried after a run *)
(* in progress had read its id.                                             *)
THEOREM OpenRowsStay == Spec => OpenStays
  <1> DEFINE Stays(r) == row[r] # "gone" /\ row'[r] = "gone" =>
               r \in old /\ (row[r] = "open" => \E a \in Runs : run[a].at = "found" /\ r \in run[a].batch \ run[a].owed)
  <1>1. SInv /\ [Next]_vars => \A r \in Rows : Stays(r)
    <2> SUFFICES ASSUME SInv, [Next]_vars, NEW r \in Rows, row[r] # "gone", row'[r] = "gone" PROVE Stays(r)
      OBVIOUS
    <2>1. PICK a \in Runs : Delete(a) /\ r \in run[a].batch BY GoneByDelete
    <2>2. run[a].at = "found" /\ Good(run[a], row, old) BY <2>1 DEF Delete, SInv, RunsGood
    <2>3. r \in old /\ (row[r] = "open" => r \notin run[a].owed) BY <2>1, <2>2 DEF Good, Batched, Owes
    <2>4. QED BY <2>1, <2>2, <2>3
  <1>2. SInv /\ [Next]_vars => [\A r \in Rows : Stays(r)]_vars BY <1>1
  <1>3. IInv => SInv BY DEF IInv
  <1>4. QED BY <1>2, <1>3, SweepInvariant, PTL DEF Spec, OpenStays

(* A run that stays at its table does not pass. *)
LEMMA StepsPassing ==
  ASSUME SInv, [Next]_vars, NEW a \in Runs, Passes(a)
  PROVE  \/ Find(a) /\ run' = [run EXCEPT ![a] = Advanced(run[a])]
         \/ Delete(a) /\ run' = [run EXCEPT ![a] = Advanced(run[a])]
  <1>1. run[a] \in SweepRecs /\ run \in [Runs -> RunStates \cup {Fresh}]
    BY StateKinds DEF Passes, Sweeping, SInv
  <1>2. run[a].at \in {"finding", "found"} BY <1>1 DEF SweepRecs
  <1>3. ASSUME run'[a].at \in {"finding", "found"}, run'[a].table = run[a].table PROVE FALSE
    BY <1>3 DEF Passes
  <1>4. ASSUME run'[a] = run[a] PROVE FALSE BY <1>2, <1>3, <1>4
  <1>5. ASSUME NEW b \in Runs, b # a, Fire(b) \/ Find(b) \/ Delete(b) \/ Release(b) \/ Lapse(b) PROVE FALSE
    <2>1. run'[a] = run[a] BY <1>1, <1>5, FireBegins DEF Find, Delete, Release, Lapse
    <2>2. QED BY <1>4, <2>1
  <1>6. ~Fire(a) /\ ~Release(a)
    <2>1. run[a] # Fresh BY <1>1, RecsAreStates, StateKinds
    <2>2. QED BY <1>2, <2>1 DEF Fire, Release
  <1>7. ASSUME Lapse(a) PROVE FALSE
    <2>1. CASE run' = [run EXCEPT ![a] = Lapsed(run[a])]
      <3>1. run'[a] = Lapsed(run[a]) BY <1>1, <2>1
      <3>2. QED BY <1>1, <1>2, <1>3, <3>1, LapsedSweep DEF Fields
    <2>2. CASE UNCHANGED run BY <1>4, <2>2
    <2>3. QED BY <1>7, <2>1, <2>2 DEF Lapse, Lapsed
  <1>8. ASSUME Fault PROVE FALSE
    <2>1. left' = left BY DEF Passes
    <2>2. left \in [changes : 0..MaxChanges, faults : 0..MaxFaults] BY DEF SInv, LeftTyped
    <2>3. left'.faults = left.faults - 1 BY <1>8, <2>2 DEF Fault
    <2>4. left.faults \in 0..MaxFaults BY <2>2
    <2>5. QED BY <2>1, <2>3, <2>4, SweepAssumption
  <1>9. ASSUME NEW d \in Deliveries, Retry(d) PROVE FALSE
    <2>1. run'[a] = Spared(run[a], d) BY <1>2, <1>9 DEF Retry, Sweeping, Spared
    <2>2. QED BY <1>1, <1>2, <1>3, <2>1, SparedHolds DEF Fields
  <1>10. ASSUME UNCHANGED run PROVE FALSE BY <1>4, <1>10
  <1>11. ASSUME Find(a) PROVE run' = [run EXCEPT ![a] = Advanced(run[a])]
    <2>1. ASSUME NEW B \in Batches(Matching(a)), run' = [run EXCEPT ![a] = Marked(run[a], B)], Matching(a) # {}
          PROVE  FALSE
      <3>1. Matching(a) \subseteq Rows BY <1>1 DEF Matching, SweepRecs
      <3>2. B \in SUBSET Rows BY <2>1, <3>1, BatchHolds
      <3>3. run'[a] = Marked(run[a], B) BY <1>1, <2>1
      <3>4. QED BY <1>1, <1>3, <3>2, <3>3, MarkedHolds DEF Fields
    <2>2. QED BY <1>11, <2>1 DEF Find, Marked
  <1>12. ASSUME Delete(a) PROVE run' = [run EXCEPT ![a] = Advanced(run[a])]
    <2>1. ASSUME run' = [run EXCEPT ![a] = Again(run[a])] PROVE FALSE
      <3>1. run'[a] = Again(run[a]) BY <1>1, <2>1
      <3>2. QED BY <1>1, <1>3, <3>1, AgainHolds DEF Fields
    <2>2. QED BY <1>12, <2>1 DEF Delete, Again
  <1>13. CASE \E b \in Runs : Fire(b) \/ Sweep(b) \/ Lapse(b)
    BY <1>5, <1>6, <1>7, <1>11, <1>12, <1>13 DEF Sweep
  <1>14. CASE \E b \in Runs : QueryFails(b) \/ ReleaseFails(b)
    BY <1>8, <1>14 DEF QueryFails, ReleaseFails
  <1>15. CASE \E inst \in Instances : Crash(inst) BY <1>8, <1>15 DEF Crash
  <1>16. CASE \E d \in Deliveries : Settle(d) \/ RetryReads(d) \/ Retry(d)
    BY <1>9, <1>10, <1>16 DEF Settle, RetryReads
  <1>17. CASE (\E r \in Rows : Age(r)) \/ UNCHANGED vars BY <1>10, <1>17 DEF Age, vars
  <1>18. QED BY <1>13, <1>14, <1>15, <1>16, <1>17 DEF Next

(* When a run is through with a table, no row it owed is left. *)
THEOREM TablesSweptClean ==
  ASSUME ~DryRun
  PROVE  Spec => SweptClean
  <1> DEFINE Clean == \A a \in Runs : Passes(a) => \A r \in run[a].owed : row'[r] = "gone"
  <1>1. SInv /\ [Next]_vars => Clean
    <2> SUFFICES ASSUME SInv, [Next]_vars, NEW a \in Runs, Passes(a), NEW r \in run[a].owed
                 PROVE  row'[r] = "gone"
      OBVIOUS
    <2>1. Good(run[a], row, old) /\ run[a].at \in {"finding", "found"} BY DEF SInv, RunsGood, Passes, Sweeping
    <2>2. run[a] \in SweepRecs BY <2>1, StateKinds DEF Good
    <2>3. r \in Rows /\ r \in run[a].cut /\ row[r] # "open" BY <2>1, <2>2 DEF SweepRecs, Good, Owes
    <2>4. row[r] \in Statuses(r) BY <2>3 DEF SInv, RowsTyped
    <2>5. CASE Find(a) /\ run' = [run EXCEPT ![a] = Advanced(run[a])]
      <3>1. Matching(a) = {}
        <4>1. ASSUME NEW B \in Batches(Matching(a)), Matching(a) # {}, run' = [run EXCEPT ![a] = Marked(run[a], B)]
              PROVE  FALSE
          <5>1. Matching(a) \subseteq Rows BY <2>2 DEF Matching, SweepRecs
          <5>2. B \in SUBSET Rows BY <4>1, <5>1, BatchHolds
          <5>3. run'[a] = Marked(run[a], B) BY <4>1 DEF SInv
          <5>4. Marked(run[a], B).at = "found" BY <2>2, <5>2, MarkedHolds DEF Fields
          <5>5. run'[a].at # "found" BY DEF Passes
          <5>6. QED BY <5>3, <5>4, <5>5
        <4>2. QED BY <2>5, <4>1 DEF Find, Marked
      <3>2. row[r] \notin Settled BY <2>3, <3>1 DEF Matching
      <3>3. row[r] = "gone" BY <2>3, <2>4, <3>2 DEF Statuses, Settled
      <3>4. QED BY <2>5, <3>3 DEF Find
    <2>6. CASE Delete(a) /\ run' = [run EXCEPT ![a] = Advanced(run[a])]
      <3>1. LastBatch(run[a].batch)
        <4>1. ASSUME run' = [run EXCEPT ![a] = Again(run[a])] PROVE FALSE
          <5>1. run'[a] = Again(run[a]) BY <4>1 DEF SInv
          <5>2. QED BY <2>2, <5>1, AgainHolds DEF Fields, Passes
        <4>2. QED BY <2>6, <4>1 DEF Delete, Again
      <3>2. r \in run[a].batch \/ row[r] = "gone" BY <2>1, <2>6, <3>1 DEF Good, Owes, LastBatch, Delete
      <3>3. QED BY <2>3, <2>6, <3>2, DroppedRows
    <2>7. QED BY <2>5, <2>6, StepsPassing
  <1>2. SInv /\ [Next]_vars => [Clean]_vars BY <1>1
  <1>3. IInv => SInv BY DEF IInv
  <1>4. QED BY <1>2, <1>3, SweepInvariant, PTL DEF Spec, SweptClean
=============================================================================
