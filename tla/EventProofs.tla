---------------------------- MODULE EventProofs -----------------------------
(***************************************************************************)
(* Theorems about what becomes of new content: the digests that count it   *)
(* (Digest), then the store that decides what is new (ContentStore), for   *)
(* all items, endpoints, posts, products, caps and bounds.                 *)
(***************************************************************************)
EXTENDS Digest, ContentStore, FiniteSetTheorems, TLAPS

(* What a flush has read and not yet let go of. *)
Taken(c) == flush[c].batch \cup flush[c].emitted

SameBucket(s) == HasBucket(s.e) /\ bucket[s.e].born = s.bucket.born

(* The endpoints a sync may still create a bucket for. *)
Pending(e) == sync.stage = "fire" \/ e \in sync.todo \/ e \in sync.on

(* The items a sync announces are stored, and the endpoint at hand is none of *)
(* those it has still to buffer for.                                          *)
SyncShape ==
  sync # NoSync => /\ sync.new # {}
                   /\ sync.new \subseteq stored
                   /\ sync.todo \cap sync.on = {}
                   /\ sync.stage = "fire" => sync.on = {}

(* A bucket is named by the items it was created with: none of them is new. *)
BornStored ==
  /\ \A e \in Endpoints : HasBucket(e) => bucket[e].born \subseteq stored
  /\ \A c \in Digested : \A s \in Taken(c) : s.bucket.born \subseteq stored

(* ... so that the bucket a sync creates is none that a flush has read. *)
BornFresh ==
  sync # NoSync =>
    \A e \in Endpoints : Pending(e) =>
      /\ HasBucket(e) => bucket[e].born # sync.new
      /\ \A c \in Digested : \A s \in Taken(c) : s.e = e => s.bucket.born # sync.new

(* What a bucket has gained since a flush read it is at risk. *)
GainsAtRisk ==
  \A c \in Digested : \A s \in Taken(c) :
    SameBucket(s) => bucket[s.e].items \subseteq s.bucket.items \cup atRisk[s.e]

(* What was emitted was announced, or swallowed. *)
EmittedTold ==
  \A c \in Digested : \A s \in flush[c].emitted :
    s.e \in loyal => \A i \in s.bucket.items : told[s.e][i] > 0 \/ i \in swallowed[s.e]

(* A bucket is dropped only if its endpoint has unsubscribed. *)
LoyalWanted ==
  /\ loyal \subseteq Subscribed
  /\ \A c \in Digested : \A s \in flush[c].batch : s.e \in loyal => s.wanted

Conserved ==
  /\ SyncShape
  /\ BornStored
  /\ BornFresh
  /\ GainsAtRisk
  /\ EmittedTold
  /\ LoyalWanted
  /\ ItemsConserved

ConservationInv == TypeOK /\ Conserved
-----------------------------------------------------------------------------
(* A row of the table is not the absence of one, nor a running sync none.    *)
LEMMA Distinct ==
  /\ \A b \in Buckets : b # NoBucket
  /\ \A y \in Syncs : y # NoSync
  BY DEF Buckets, NoBucket, Syncs, NoSync

(* The bound on disturbances counts down to zero. *)
LEMMA DisturbTyped ==
  ASSUME TypeOK, Disturb
  PROVE  left' \in 0..MaxDisturbances
  BY DigestAssumption DEF TypeOK, Disturb

(* Announcements are counted. *)
LEMMA TellTyped ==
  ASSUME TypeOK, NEW T, NEW S, Tell(T, S)
  PROVE  told' \in [Endpoints -> [Items -> Nat]]
  BY DEF TypeOK, Tell

(* An emit, whole or half-way, keeps the types of what it writes. *)
LEMMA EmitTyped ==
  ASSUME TypeOK, NEW S \in SUBSET Items, Emit(S)
  PROVE  /\ told' \in [Endpoints -> [Items -> Nat]]
         /\ swallowed' \in [Endpoints -> SUBSET Items]
         /\ left' \in 0..MaxDisturbances
  <1>1. CASE Tell(Subscribed, S) /\ UNCHANGED <<swallowed, left>>
    BY <1>1, TellTyped DEF TypeOK
  <1>2. ASSUME NEW T \in SUBSET Subscribed, Swallow(T, S)
        PROVE  /\ told' \in [Endpoints -> [Items -> Nat]]
               /\ swallowed' \in [Endpoints -> SUBSET Items]
               /\ left' \in 0..MaxDisturbances
    <2>1. told' \in [Endpoints -> [Items -> Nat]] /\ left' \in 0..MaxDisturbances
      BY <1>2, TellTyped, DisturbTyped DEF Swallow
    <2>2. swallowed' \in [Endpoints -> SUBSET Items]
      BY <1>2 DEF Swallow, TypeOK
    <2>3. QED
      BY <2>1, <2>2
  <1>3. QED
    BY <1>1, <1>2 DEF Emit

(* Deleting a row leaves the other rows. *)
LEMMA DeletedTyped ==
  ASSUME TypeOK, NEW s \in Snapshots
  PROVE  Deleted(s) \in [Endpoints -> Buckets \cup {NoBucket}]
  BY DEF TypeOK, Deleted, Snapshots

(* What an upsert leaves in the table: the row with the new items, in a       *)
(* bucket of its own if there was none.                                       *)
LEMMA UpsertEffect ==
  ASSUME TypeOK, NEW e \in Endpoints, BufferUpsert(e)
  PROVE  /\ sync \in Syncs
         /\ bucket'[e] \in Buckets
         /\ bucket' = [bucket EXCEPT ![e] = bucket'[e]]
         /\ HasBucket(e) => /\ bucket'[e].items = bucket[e].items \cup sync.new
                            /\ bucket'[e].born = bucket[e].born
         /\ ~HasBucket(e) => bucket'[e].items = sync.new /\ bucket'[e].born = sync.new
  <1>1. sync \in Syncs /\ sync.cadence \in Digested
    BY DEF BufferUpsert, TypeOK, NoSync
  <1>2. sync.new \in SUBSET Items
    BY <1>1 DEF Syncs
  <1>3. CASE HasBucket(e)
    <2>1. bucket[e] \in Buckets
      BY <1>3 DEF HasBucket, TypeOK
    <2>2. PICK samples \in SUBSET Items :
            bucket' = [bucket EXCEPT ![e] = [bucket[e] EXCEPT
                         !.items = bucket[e].items \cup sync.new, !.samples = samples,
                         !.cadence = sync.cadence]]
      <3>1. PICK samples \in SUBSET Items :
              bucket' = [bucket EXCEPT ![e].items = @ \cup sync.new, ![e].samples = samples,
                                       ![e].cadence = sync.cadence]
        BY <1>3 DEF BufferUpsert, Incremented
      <3>2. QED
        BY <3>1, <2>1 DEF TypeOK, Buckets
    <2>3. QED
      BY <1>1, <1>2, <1>3, <2>1, <2>2 DEF TypeOK, Buckets
  <1>4. CASE ~HasBucket(e)
    <2>1. PICK samples \in SUBSET Items :
            bucket' = [bucket EXCEPT ![e] =
                         [age |-> "new", cadence |-> sync.cadence, born |-> sync.new,
                          items |-> sync.new, samples |-> samples]]
      BY <1>4 DEF BufferUpsert
    <2>2. QED
      BY <1>1, <1>2, <1>4, <2>1 DEF TypeOK, Buckets
  <1>5. QED
    BY <1>3, <1>4

(* An empty table and no sync are well-typed. *)
LEMMA InitTyped == Init => TypeOK
  BY DigestAssumption DEF Init, TypeOK, NoFlush, NoSync, Cadences, Digested

(* A sync keeps the types. *)
LEMMA SyncTyped == TypeOK /\ Sync => TypeOK'
  <1> SUFFICES ASSUME TypeOK, Sync PROVE TypeOK'
    OBVIOUS
  <1>1. ASSUME NEW S \in SUBSET Items, Persist(S) PROVE TypeOK'
    <2>1. sync' \in Syncs
      BY <1>1 DEF Persist, Syncs, Cadences
    <2>2. QED
      BY <1>1, <2>1 DEF Persist, TypeOK, requestVars
  <1>2. ASSUME NEW c \in Cadences, Resolve(c) PROVE TypeOK'
    <2>1. sync \in Syncs
      BY <1>2 DEF Resolve, TypeOK, NoSync
    <2>2. /\ sync' \in Syncs \cup {NoSync}
          /\ sync'.stage \in {"read", "upsert"} => sync'.cadence \in Digested
      BY <1>2, <2>1 DEF Resolve, Dispatched, Buffering, Syncs, Subscribed, NoSync, Cadences
    <2>3. QED
      BY <1>2, <2>2 DEF Resolve, TypeOK, requestVars
  <1>3. CASE EmitNow
    <2>1. sync \in Syncs
      BY <1>3 DEF EmitNow, TypeOK, NoSync
    <2>2. sync.new \in SUBSET Items
      BY <2>1 DEF Syncs
    <2>3. QED
      BY <1>3, <2>2, EmitTyped DEF EmitNow, TypeOK, requestVars, NoSync
  <1>4. ASSUME NEW e \in Endpoints, BufferRead(e) PROVE TypeOK'
    <2>1. sync \in Syncs
      BY <1>4 DEF BufferRead, TypeOK, NoSync
    <2>2. HasBucket(e) => bucket[e].samples \in SUBSET Items
      BY DEF TypeOK, HasBucket, Buckets
    <2>3. sync' \in Syncs
      BY <1>4, <2>1, <2>2 DEF BufferRead, Syncs
    <2>4. QED
      BY <1>4, <2>3 DEF BufferRead, TypeOK, requestVars
  <1>5. ASSUME NEW e \in Endpoints, BufferUpsert(e) PROVE TypeOK'
    <2>1. sync \in Syncs
      BY <1>5 DEF BufferUpsert, TypeOK, NoSync
    <2>2. bucket' \in [Endpoints -> Buckets \cup {NoBucket}]
      BY <1>5, UpsertEffect DEF TypeOK
    <2>3. /\ sync' \in Syncs \cup {NoSync}
          /\ sync'.stage \in {"read", "upsert"} => sync'.cadence \in Digested
      BY <1>5, <2>1 DEF BufferUpsert, Syncs, NoSync, TypeOK
    <2>4. /\ counted' \in [Endpoints -> SUBSET Items]
          /\ atRisk' \in [Endpoints -> SUBSET Items]
      BY <1>5, <2>1 DEF BufferUpsert, TypeOK, Syncs
    <2>5. QED
      BY <1>5, <2>2, <2>3, <2>4 DEF BufferUpsert, TypeOK, requestVars
  <1>6. CASE FireError
    <2>1. left' \in 0..MaxDisturbances
      BY <1>6, DisturbTyped DEF FireError, TypeOK
    <2>2. QED
      BY <1>6, <2>1 DEF FireError, TypeOK, requestVars, NoSync
  <1>7. QED
    BY <1>1, <1>2, <1>3, <1>4, <1>5, <1>6 DEF Sync
(* A flush keeps the types. *)
LEMMA FlushTyped == ASSUME NEW c \in Digested PROVE TypeOK /\ Flush(c) => TypeOK'
  <1> SUFFICES ASSUME TypeOK, Flush(c) PROVE TypeOK'
    OBVIOUS
  <1>1. /\ flush[c].batch \in SUBSET Snapshots
        /\ flush[c].emitted \in SUBSET Snapshots
    BY DEF TypeOK
  <1>2. ASSUME NEW B \in SUBSET Snapshots, NEW E \in SUBSET Snapshots,
               flush' = [flush EXCEPT ![c].batch = B, ![c].emitted = E]
        PROVE  flush' \in [Digested -> [batch : SUBSET Snapshots, emitted : SUBSET Snapshots]]
    BY <1>2 DEF TypeOK
  <1>3. CASE FlushRead(c)
    <2>1. \A e \in Ripe(c) : Snapshot(e) \in Snapshots
      BY DEF Ripe, Snapshot, Snapshots, HasBucket, TypeOK
    <2>2. PICK S \in SUBSET Ripe(c) :
            flush' = [flush EXCEPT ![c].batch = {Snapshot(e) : e \in S}]
      BY <1>3 DEF FlushRead
    <2> DEFINE B == {Snapshot(e) : e \in S}
    <2>3. B \in SUBSET Snapshots
      BY <2>1
    <2> HIDE DEF B
    <2>4. flush' \in [Digested -> [batch : SUBSET Snapshots, emitted : SUBSET Snapshots]]
      BY <2>2, <2>3 DEF TypeOK, B
    <2>5. QED
      BY <1>3, <2>4 DEF FlushRead, TypeOK, requestVars
  <1>4. CASE FlushDrop(c)
    <2>1. PICK s \in flush[c].batch : /\ flush' = [flush EXCEPT ![c].batch = @ \ {s}]
                                      /\ bucket' = Deleted(s)
      BY <1>4 DEF FlushDrop
    <2>2. bucket' \in [Endpoints -> Buckets \cup {NoBucket}]
      BY <1>1, <2>1, DeletedTyped
    <2>3. flush' \in [Digested -> [batch : SUBSET Snapshots, emitted : SUBSET Snapshots]]
      BY <2>1 DEF TypeOK
    <2>4. QED
      BY <1>4, <2>2, <2>3 DEF FlushDrop, TypeOK, requestVars
  <1>5. CASE FlushEmit(c)
    <2>1. PICK s \in flush[c].batch :
            /\ Emit(s.bucket.items)
            /\ flush' = [flush EXCEPT ![c].batch = @ \ {s}, ![c].emitted = {s}]
      BY <1>5 DEF FlushEmit
    <2>2. s.bucket.items \in SUBSET Items
      BY <1>1 DEF Snapshots, Buckets
    <2>3. flush' \in [Digested -> [batch : SUBSET Snapshots, emitted : SUBSET Snapshots]]
      <3>1. flush[c].batch \ {s} \in SUBSET Snapshots /\ {s} \in SUBSET Snapshots
        BY <1>1
      <3>2. QED
        BY <3>1, <2>1, <1>2
    <2>4. QED
      BY <1>5, <2>1, <2>2, <2>3, EmitTyped DEF FlushEmit, TypeOK, requestVars
  <1>6. CASE FlushDelete(c)
    <2>1. bucket' \in [Endpoints -> Buckets \cup {NoBucket}]
      BY <1>1, <1>6, DeletedTyped DEF FlushDelete
    <2>2. flush' \in [Digested -> [batch : SUBSET Snapshots, emitted : SUBSET Snapshots]]
      BY <1>6 DEF FlushDelete, TypeOK
    <2>3. QED
      BY <1>6, <2>1, <2>2 DEF FlushDelete, TypeOK, requestVars
  <1>7. CASE FlushError(c)
    <2>1. flush' \in [Digested -> [batch : SUBSET Snapshots, emitted : SUBSET Snapshots]]
      <3>1. PICK s : flush' = [flush EXCEPT ![c].batch = @ \ {s}, ![c].emitted = {}]
        BY <1>7 DEF FlushError
      <3>2. flush[c].batch \ {s} \in SUBSET Snapshots /\ {} \in SUBSET Snapshots
        BY <1>1
      <3>3. QED
        BY <3>1, <3>2, <1>2
    <2>2. QED
      BY <1>7, <2>1, DisturbTyped DEF FlushError, TypeOK, requestVars
  <1>8. CASE FlushCrash(c)
    <2>1. flush' \in [Digested -> [batch : SUBSET Snapshots, emitted : SUBSET Snapshots]]
      BY <1>8 DEF FlushCrash, TypeOK, NoFlush
    <2>2. told' \in [Endpoints -> [Items -> Nat]]
      BY <1>8, TellTyped DEF FlushCrash, TypeOK
    <2>3. QED
      BY <1>8, <2>1, <2>2, DisturbTyped DEF FlushCrash, TypeOK, requestVars
  <1>9. QED
    BY <1>3, <1>4, <1>5, <1>6, <1>7, <1>8 DEF Flush, FlushStep

(* Time and the requests keep the types. *)
LEMMA RequestsTyped ==
  ASSUME TypeOK, Requests \/ \E e \in Endpoints : Age(e)
  PROVE  TypeOK'
  <1>1. ASSUME NEW e \in Endpoints, Age(e) PROVE TypeOK'
    <2>1. bucket[e] \in Buckets
      BY <1>1 DEF Age, HasBucket, TypeOK
    <2>2. bucket' \in [Endpoints -> Buckets \cup {NoBucket}]
      BY <1>1, <2>1 DEF Age, TypeOK, Buckets
    <2>3. QED
      BY <1>1, <2>2 DEF Age, TypeOK, requestVars
  <1>2. ASSUME NEW c \in Cadences, SetCadence(c) PROVE TypeOK'
    BY <1>2, DisturbTyped DEF SetCadence, TypeOK
  <1>3. CASE CachesExpire
    BY <1>3 DEF CachesExpire, TypeOK
  <1>4. ASSUME NEW e \in Endpoints, Update(e) PROVE TypeOK'
    BY <1>4, DisturbTyped DEF Update, TypeOK
  <1>5. ASSUME NEW e \in Endpoints, Remove(e) PROVE TypeOK'
    BY <1>5, DisturbTyped DEF Remove, TypeOK
  <1>6. QED
    BY <1>1, <1>2, <1>3, <1>4, <1>5 DEF Requests

(* Every reachable state is well-typed: a bucket is only ever written with    *)
(* one of the two cadences a flush looks for.                                 *)
THEOREM DigestTyped == Spec => []TypeOK
  <1>1. TypeOK /\ [Next]_vars => TypeOK'
    <2> SUFFICES ASSUME TypeOK, [Next]_vars PROVE TypeOK'
      OBVIOUS
    <2>1. CASE Next
      BY <2>1, SyncTyped, FlushTyped, RequestsTyped DEF Next
    <2>2. CASE UNCHANGED vars
      BY <2>2 DEF vars, TypeOK
    <2>3. QED
      BY <2>1, <2>2
  <1>2. QED
    BY InitTyped, <1>1, PTL DEF Spec
-----------------------------------------------------------------------------
(* An emit only adds to what was told and to what was hidden, ... *)
LEMMA EmitGrows ==
  ASSUME TypeOK, NEW S \in SUBSET Items, Emit(S), NEW e \in Endpoints
  PROVE  /\ \A i \in Items : told[e][i] > 0 => told'[e][i] > 0
         /\ swallowed[e] \subseteq swallowed'[e]
         /\ e \in Subscribed => \A i \in S : told'[e][i] > 0 \/ i \in swallowed'[e]
  <1>1. told[e] \in [Items -> Nat]
    BY DEF TypeOK
  <1>2. CASE Tell(Subscribed, S) /\ UNCHANGED <<swallowed, left>>
    BY <1>1, <1>2 DEF Tell
  <1>3. ASSUME NEW T \in SUBSET Subscribed, Swallow(T, S)
        PROVE  /\ \A i \in Items : told[e][i] > 0 => told'[e][i] > 0
               /\ swallowed[e] \subseteq swallowed'[e]
               /\ \A i \in S : told'[e][i] > 0 \/ i \in swallowed'[e]
    BY <1>1, <1>3 DEF Swallow, Tell
  <1>4. QED
    BY <1>2, <1>3 DEF Emit

(* ... and so do the deliveries a dying process has created. *)
LEMMA TellGrows ==
  ASSUME TypeOK, NEW T, NEW S, Tell(T, S), NEW e \in Endpoints, NEW i \in Items,
         told[e][i] > 0
  PROVE  told'[e][i] > 0
  <1>1. told[e][i] \in Nat
    BY DEF TypeOK
  <1>2. QED
    BY <1>1 DEF Tell

(* Deleting a row leaves the others, and a row created since. *)
LEMMA DeletedEffect ==
  ASSUME TypeOK, NEW s \in Snapshots, bucket' = Deleted(s), NEW e \in Endpoints
  PROVE  /\ bucket'[e] = bucket[e] \/ bucket'[e] = NoBucket
         /\ bucket'[e] # bucket[e] => e = s.e /\ SameBucket(s)
  BY DEF TypeOK, Deleted, SameBucket

(* The invariant survives every step that counts nothing, in which flushes    *)
(* take nothing up and no bucket of a loyal endpoint goes untold.             *)
LEMMA Retreat ==
  ASSUME ConservationInv,
         stored' = stored, counted' = counted, atRisk' = atRisk,
         sync' \in {sync, NoSync},
         \A c \in Digested : /\ flush'[c].batch \subseteq flush[c].batch
                             /\ flush'[c].emitted \subseteq flush[c].emitted,
         \A e \in Endpoints : /\ \A i \in Items : told[e][i] > 0 => told'[e][i] > 0
                              /\ swallowed[e] \subseteq swallowed'[e],
         \A e \in Endpoints : HasBucket(e)' =>
           /\ HasBucket(e)
           /\ bucket'[e].born = bucket[e].born
           /\ bucket'[e].items = bucket[e].items,
         loyal' \subseteq loyal, loyal' \subseteq Subscribed',
         \A e \in loyal' : HasBucket(e) =>
           \/ HasBucket(e)'
           \/ \A i \in bucket[e].items : i \in atRisk[e] \/ i \in swallowed[e] \/ told[e][i] > 0
  PROVE  Conserved'
  <1> USE DEF ConservationInv, Conserved
  <1>1. \A c \in Digested : \A s \in Taken(c)' :
          /\ s \in Taken(c)
          /\ s \in Snapshots
    BY DEF Taken, TypeOK
  <1>2. \A s \in Snapshots : /\ s.e \in Endpoints
                            /\ s.bucket.items \in SUBSET Items
    BY DEF Snapshots, Buckets
  <1>3. SyncShape'
    BY DEF SyncShape
  <1>4. BornStored'
    BY <1>1 DEF BornStored
  <1>5. BornFresh'
    BY <1>1 DEF BornFresh, Pending
  <1>6. GainsAtRisk'
    BY <1>1, <1>2 DEF GainsAtRisk, SameBucket
  <1>7. EmittedTold'
    BY <1>1, <1>2 DEF EmittedTold, Taken
  <1>8. LoyalWanted'
    BY DEF LoyalWanted
  <1>9. ItemsConserved'
    <2> SUFFICES ASSUME NEW e \in loyal', NEW i \in counted[e] \ (atRisk[e] \cup swallowed'[e])
                 PROVE  told'[e][i] > 0 \/ (HasBucket(e)' /\ i \in bucket'[e].items)
      BY DEF ItemsConserved
    <2>1. e \in Endpoints /\ i \in Items /\ i \notin swallowed[e]
      BY DEF TypeOK
    <2>2. told[e][i] > 0 \/ (HasBucket(e) /\ i \in bucket[e].items)
      BY <2>1 DEF ItemsConserved
    <2>3. QED
      BY <2>1, <2>2
  <1>10. QED
    BY <1>3, <1>4, <1>5, <1>6, <1>7, <1>8, <1>9
-----------------------------------------------------------------------------
(* What a sync persists is new: no bucket, nor any a flush has read, was      *)
(* created with it.                                                           *)
LEMMA PersistConserves ==
  ASSUME ConservationInv, NEW S \in SUBSET Items, Persist(S)
  PROVE  Conserved'
  <1> USE DEF ConservationInv, Conserved, Persist, requestVars
  <1>1. SyncShape'
    BY DEF SyncShape
  <1>2. BornStored'
    BY DEF BornStored, HasBucket, Taken
  <1>3. BornFresh'
    BY DEF BornFresh, BornStored, HasBucket, Taken
  <1>4. GainsAtRisk' /\ EmittedTold' /\ LoyalWanted' /\ ItemsConserved'
    BY DEF GainsAtRisk, EmittedTold, LoyalWanted, ItemsConserved, SameBucket, HasBucket, Taken,
           Subscribed
  <1>5. QED
    BY <1>1, <1>2, <1>3, <1>4

(* The steps of a sync before it writes. *)
LEMMA SyncReadsConserve ==
  ASSUME ConservationInv,
         (\E c \in Cadences : Resolve(c)) \/ (\E e \in Endpoints : BufferRead(e))
  PROVE  Conserved'
  <1> USE DEF ConservationInv, Conserved
  <1>1. sync \in Syncs
    <2>1. sync.stage # "idle"
      BY DEF Resolve, BufferRead
    <2>2. QED
      BY <2>1 DEF TypeOK, NoSync
  <1>2. sync # NoSync
    BY <1>1, Distinct
  <1>3. UNCHANGED <<requestVars, bucket, stored, flush, told, counted, atRisk, swallowed, left>>
    BY DEF Resolve, BufferRead
  <1>4. sync' # NoSync =>
          /\ sync'.new = sync.new
          /\ sync'.todo \cap sync'.on = {}
          /\ sync'.stage # "fire"
          /\ \A e \in sync'.todo \cup sync'.on : Pending(e)
    <2>1. ASSUME NEW c \in Cadences, Resolve(c), sync' # NoSync
          PROVE  /\ sync'.new = sync.new
                 /\ sync'.on = {}
                 /\ sync'.stage # "fire"
                 /\ sync.stage = "fire"
      <3>1. sync.stage = "fire" /\ sync.on = {}
        BY <1>2, <2>1 DEF Resolve, SyncShape
      <3>2. sync' \in {[sync EXCEPT !.stage = "emit"], Buffering(c)}
        BY <2>1 DEF Resolve, Dispatched
      <3>3. QED
        BY <1>1, <3>1, <3>2 DEF Buffering, Syncs
    <2>2. ASSUME NEW e \in Endpoints, BufferRead(e)
          PROVE  /\ sync'.new = sync.new
                 /\ sync'.todo = sync.todo \ {e}
                 /\ sync'.on = {e}
                 /\ sync'.stage # "fire"
                 /\ e \in sync.todo
      BY <1>1, <2>2 DEF BufferRead, Syncs
    <2>3. QED
      BY <2>1, <2>2 DEF Pending
  <1>5. SyncShape'
    BY <1>2, <1>3, <1>4 DEF SyncShape
  <1>6. BornStored'
    BY <1>3 DEF BornStored, HasBucket, Taken
  <1>7. BornFresh'
    BY <1>2, <1>3, <1>4 DEF BornFresh, Pending, HasBucket, Taken
  <1>8. GainsAtRisk' /\ EmittedTold' /\ LoyalWanted' /\ ItemsConserved'
    BY <1>3 DEF requestVars, GainsAtRisk, EmittedTold, LoyalWanted, ItemsConserved, SameBucket,
                HasBucket, Taken, Subscribed
  <1>9. QED
    BY <1>5, <1>6, <1>7, <1>8

(* The upsert: what it adds to a bucket that a flush has read is at risk, and *)
(* a bucket it creates is none of those.                                      *)
LEMMA UpsertConserves ==
  ASSUME ConservationInv, NEW e \in Endpoints, BufferUpsert(e)
  PROVE  Conserved'
  <1> USE DEF ConservationInv, Conserved
  <1>1. /\ sync \in Syncs
        /\ sync # NoSync
        /\ e \in sync.on
        /\ Pending(e)
        /\ sync.new \subseteq stored
    BY UpsertEffect, Distinct DEF BufferUpsert, Pending, SyncShape
  <1>2. /\ HasBucket(e)'
        /\ bucket'[e].items = sync.new \cup (IF HasBucket(e) THEN bucket[e].items ELSE {})
        /\ bucket'[e].born = IF HasBucket(e) THEN bucket[e].born ELSE sync.new
        /\ \A f \in Endpoints : f # e => bucket'[f] = bucket[f]
    BY UpsertEffect, Distinct DEF HasBucket, TypeOK
  <1>3. UNCHANGED <<requestVars, stored, flush, told, swallowed, left>>
    BY DEF BufferUpsert
  <1>4. \A f \in Endpoints :
          /\ counted'[f] = counted[f] \cup (IF f = e THEN sync.new ELSE {})
          /\ atRisk'[f] = atRisk[f] \cup (IF f = e /\ InFlush(e) THEN sync.new ELSE {})
    BY DEF BufferUpsert, TypeOK
  <1>5. sync' # NoSync => /\ sync'.new = sync.new
                         /\ sync'.todo = sync.todo
                         /\ sync'.on = {}
                         /\ sync'.stage # "fire"
                         /\ e \notin sync.todo
    BY <1>1 DEF BufferUpsert, Syncs, SyncShape
  <1>6. \A c \in Digested : /\ Taken(c)' = Taken(c)
                            /\ \A s \in Taken(c) : s.e \in Endpoints
    BY <1>3 DEF Taken, TypeOK, Snapshots
  <1>7. SyncShape'
    BY <1>1, <1>3, <1>5 DEF SyncShape
  <1>8. BornStored'
    BY <1>1, <1>2, <1>3, <1>6 DEF BornStored, HasBucket
  <1>9. BornFresh'
    BY <1>1, <1>2, <1>5, <1>6 DEF BornFresh, Pending, HasBucket
  <1>10. GainsAtRisk'
    <2> SUFFICES ASSUME NEW c \in Digested, NEW s \in Taken(c), SameBucket(s)'
                 PROVE  bucket'[s.e].items \subseteq s.bucket.items \cup atRisk'[s.e]
      BY <1>6 DEF GainsAtRisk
    <2>1. CASE s.e # e
      <3>1. SameBucket(s)
        BY <1>2, <1>6, <2>1 DEF SameBucket, HasBucket
      <3>2. QED
        BY <1>2, <1>4, <1>6, <2>1, <3>1 DEF GainsAtRisk
    <2>2. CASE s.e = e
      <3>1. HasBucket(e) /\ SameBucket(s)
        BY <1>1, <1>2, <2>2 DEF SameBucket, BornFresh
      <3>2. InFlush(e)
        BY <2>2, <3>1 DEF InFlush, SameBucket, Taken
      <3>3. QED
        BY <1>2, <1>4, <2>2, <3>1, <3>2 DEF GainsAtRisk
    <2>3. QED
      BY <2>1, <2>2
  <1>11. EmittedTold' /\ LoyalWanted'
    BY <1>3 DEF requestVars, EmittedTold, LoyalWanted, Subscribed
  <1>12. ItemsConserved'
    <2> SUFFICES ASSUME NEW f \in loyal, NEW i \in counted'[f] \ (atRisk'[f] \cup swallowed[f])
                 PROVE  told[f][i] > 0 \/ (HasBucket(f)' /\ i \in bucket'[f].items)
      BY <1>3 DEF requestVars, ItemsConserved
    <2>1. f \in Endpoints
      BY DEF TypeOK
    <2>2. CASE f = e /\ i \in sync.new
      BY <1>2, <2>2
    <2>3. CASE ~(f = e /\ i \in sync.new)
      <3>1. told[f][i] > 0 \/ (HasBucket(f) /\ i \in bucket[f].items)
        BY <1>4, <2>1, <2>3 DEF ItemsConserved
      <3>2. QED
        BY <1>2, <2>1, <3>1 DEF HasBucket
    <2>4. QED
      BY <2>2, <2>3
  <1>13. QED
    BY <1>7, <1>8, <1>9, <1>10, <1>11, <1>12
(* A flush reads buckets as they are. *)
LEMMA ReadConserves ==
  ASSUME ConservationInv, NEW c \in Digested, FlushRead(c)
  PROVE  Conserved'
  <1> USE DEF ConservationInv, Conserved
  <1>1. UNCHANGED <<requestVars, bucket, stored, sync, told, counted, atRisk, swallowed, left>>
    BY DEF FlushRead
  <1>2. PICK S \in SUBSET Ripe(c) : flush' = [flush EXCEPT ![c].batch = {Snapshot(e) : e \in S}]
    BY DEF FlushRead
  <1>3. \A d \in Digested :
          /\ flush'[d].batch = IF d = c THEN {Snapshot(e) : e \in S} ELSE flush[d].batch
          /\ flush'[d].emitted = flush[d].emitted
    BY <1>2 DEF TypeOK
  <1>4. \A e \in S : e \in Endpoints /\ HasBucket(e)
    BY DEF Ripe
  <1>5. \A d \in Digested : \A s \in Taken(d)' :
          s \in Taken(d) \/ \E e \in S : s = Snapshot(e)
    BY <1>3 DEF Taken
  <1>6. \A e \in Endpoints : Snapshot(e).e = e /\ Snapshot(e).bucket = bucket[e]
    BY DEF Snapshot
  <1>7. SyncShape'
    BY <1>1 DEF SyncShape
  <1>8. BornStored'
    BY <1>1, <1>4, <1>5, <1>6 DEF BornStored, HasBucket
  <1>9. BornFresh'
    BY <1>1, <1>4, <1>5, <1>6 DEF BornFresh, Pending, HasBucket
  <1>10. GainsAtRisk'
    BY <1>1, <1>4, <1>5, <1>6 DEF GainsAtRisk, SameBucket, HasBucket
  <1>11. EmittedTold'
    BY <1>1, <1>3 DEF requestVars, EmittedTold
  <1>12. LoyalWanted'
    <2>1. \A e \in S : Snapshot(e).e \in loyal => Snapshot(e).wanted
      BY DEF LoyalWanted, Snapshot
    <2>2. ASSUME NEW d \in Digested, NEW s \in flush'[d].batch, s.e \in loyal PROVE s.wanted
      <3>1. CASE d = c
        <4>1. PICK e \in S : s = Snapshot(e)
          BY <1>3, <3>1
        <4>2. QED
          BY <2>1, <2>2, <4>1
      <3>2. CASE d # c
        BY <1>3, <2>2, <3>2 DEF LoyalWanted
      <3>3. QED
        BY <3>1, <3>2
    <2>3. loyal' \subseteq Subscribed' /\ loyal' = loyal
      BY <1>1 DEF requestVars, LoyalWanted, Subscribed
    <2>4. QED
      BY <2>2, <2>3 DEF LoyalWanted
  <1>13. ItemsConserved'
    BY <1>1 DEF requestVars, ItemsConserved, HasBucket
  <1>14. QED
    BY <1>7, <1>8, <1>9, <1>10, <1>11, <1>12, <1>13

(* flushOne emits what the flush has read, to every subscribed endpoint. *)
LEMMA FlushEmitConserves ==
  ASSUME ConservationInv, NEW c \in Digested, FlushEmit(c)
  PROVE  Conserved'
  <1> USE DEF ConservationInv, Conserved
  <1>1. UNCHANGED <<requestVars, bucket, stored, sync, counted, atRisk>>
    BY DEF FlushEmit
  <1>2. PICK s \in flush[c].batch :
          /\ Emit(s.bucket.items)
          /\ flush' = [flush EXCEPT ![c].batch = @ \ {s}, ![c].emitted = {s}]
    BY DEF FlushEmit
  <1>3. /\ s \in Snapshots
        /\ s.bucket.items \in SUBSET Items
    BY DEF TypeOK, Snapshots, Buckets
  <1>4. \A e \in Endpoints :
          /\ \A i \in Items : told[e][i] > 0 => told'[e][i] > 0
          /\ swallowed[e] \subseteq swallowed'[e]
          /\ e \in Subscribed => \A i \in s.bucket.items : told'[e][i] > 0 \/ i \in swallowed'[e]
    BY <1>2, <1>3, EmitGrows
  <1>5. \A d \in Digested :
          /\ flush'[d].batch \subseteq flush[d].batch
          /\ flush'[d].emitted \subseteq flush[d].emitted \cup {s}
          /\ d # c => flush'[d].emitted = flush[d].emitted
          /\ Taken(d)' \subseteq Taken(d)
    <2>1. \A d \in Digested :
            /\ flush'[d].batch = IF d = c THEN flush[c].batch \ {s} ELSE flush[d].batch
            /\ flush'[d].emitted = IF d = c THEN {s} ELSE flush[d].emitted
      BY <1>2 DEF TypeOK
    <2>2. QED
      BY <2>1 DEF Taken
  <1>6. \A d \in Digested : \A r \in Taken(d) : r.e \in Endpoints /\ r.bucket.items \in SUBSET Items
    BY DEF TypeOK, Taken, Snapshots, Buckets
  <1>7. SyncShape'
    BY <1>1 DEF SyncShape
  <1>8. BornStored'
    BY <1>1, <1>5 DEF BornStored, HasBucket
  <1>9. BornFresh'
    BY <1>1, <1>5 DEF BornFresh, Pending, HasBucket
  <1>10. GainsAtRisk'
    BY <1>1, <1>5 DEF GainsAtRisk, SameBucket, HasBucket
  <1>11. EmittedTold'
    <2> SUFFICES ASSUME NEW d \in Digested, NEW r \in flush'[d].emitted, r.e \in loyal,
                        NEW i \in r.bucket.items
                 PROVE  told'[r.e][i] > 0 \/ i \in swallowed'[r.e]
      BY <1>1 DEF requestVars, EmittedTold
    <2>1. CASE r = s
      BY <1>3, <1>4, <2>1 DEF LoyalWanted, Snapshots
    <2>2. CASE r \in flush[d].emitted
      BY <1>4, <1>6, <2>2 DEF EmittedTold, Taken
    <2>3. QED
      BY <1>5, <2>1, <2>2
  <1>12. LoyalWanted'
    BY <1>1, <1>5 DEF requestVars, LoyalWanted, Subscribed
  <1>13. ItemsConserved'
    <2> SUFFICES ASSUME NEW e \in loyal, NEW i \in counted[e] \ (atRisk[e] \cup swallowed'[e])
                 PROVE  told'[e][i] > 0 \/ (HasBucket(e) /\ i \in bucket[e].items)
      BY <1>1 DEF requestVars, ItemsConserved, HasBucket
    <2>1. e \in Endpoints /\ i \in Items /\ i \notin swallowed[e]
      BY <1>4 DEF TypeOK
    <2>2. told[e][i] > 0 \/ (HasBucket(e) /\ i \in bucket[e].items)
      BY <2>1 DEF ItemsConserved
    <2>3. QED
      BY <1>4, <2>1, <2>2
  <1>14. QED
    BY <1>7, <1>8, <1>9, <1>10, <1>11, <1>12, <1>13
(* What a flush gives up or deletes has been announced, or nobody wants it. *)
LEMMA FlushRetreats ==
  ASSUME ConservationInv, NEW c \in Digested,
         FlushDrop(c) \/ FlushDelete(c) \/ FlushError(c) \/ FlushCrash(c)
  PROVE  Conserved'
  <1> USE DEF ConservationInv
  <1>1. UNCHANGED <<requestVars, stored, sync, counted, atRisk, swallowed>>
    BY DEF FlushDrop, FlushDelete, FlushError, FlushCrash
  <1>2. \A e \in Endpoints : swallowed[e] \subseteq swallowed'[e]
    BY <1>1
  <1>3. loyal' \subseteq loyal /\ loyal' \subseteq Subscribed'
    BY <1>1 DEF requestVars, Conserved, LoyalWanted, Subscribed
  <1>4. \A s \in Taken(c) : s \in Snapshots /\ s.e \in Endpoints
    BY DEF TypeOK, Taken, Snapshots
  <1>5. \A d \in Digested : /\ flush'[d].batch \subseteq flush[d].batch
                            /\ flush'[d].emitted \subseteq flush[d].emitted
    <2>1. flush[c] \in [batch : SUBSET Snapshots, emitted : SUBSET Snapshots]
      BY DEF TypeOK
    <2>2. CASE FlushDrop(c)
      <3>1. PICK s : flush' = [flush EXCEPT ![c].batch = @ \ {s}]
        BY <2>2 DEF FlushDrop
      <3>2. QED
        BY <2>1, <3>1 DEF TypeOK
    <2>3. CASE FlushDelete(c)
      BY <2>1, <2>3 DEF FlushDelete, TypeOK
    <2>4. CASE FlushError(c)
      <3>1. PICK s : flush' = [flush EXCEPT ![c].batch = @ \ {s}, ![c].emitted = {}]
        BY <2>4 DEF FlushError
      <3>2. QED
        BY <2>1, <3>1 DEF TypeOK
    <2>5. CASE FlushCrash(c)
      <3>1. flush' = [flush EXCEPT ![c] = NoFlush]
        BY <2>5 DEF FlushCrash
      <3>2. QED
        BY <2>1, <3>1 DEF NoFlush, TypeOK
    <2>6. QED
      BY <2>2, <2>3, <2>4, <2>5
  <1>6. CASE FlushDrop(c)
    <2>1. PICK s \in flush[c].batch : ~s.wanted /\ bucket' = Deleted(s)
      BY <1>6 DEF FlushDrop
    <2>2. s \in Snapshots /\ s.e \notin loyal
      BY <1>4, <2>1 DEF Taken, Conserved, LoyalWanted
    <2>3. \A e \in Endpoints : /\ bucket'[e] = bucket[e] \/ bucket'[e] = NoBucket
                               /\ e # s.e => bucket'[e] = bucket[e]
      BY <2>1, <2>2, DeletedEffect
    <2>4. told' = told /\ loyal' = loyal /\ loyal \subseteq Endpoints
      BY <1>1, <1>6 DEF FlushDrop, requestVars, TypeOK
    <2>5. QED
      BY <1>1, <1>2, <1>3, <1>5, <2>2, <2>3, <2>4, Retreat DEF HasBucket
  <1>7. CASE FlushDelete(c)
    <2>1. PICK s \in flush[c].emitted : bucket' = Deleted(s)
      BY <1>7 DEF FlushDelete
    <2>2. s \in Taken(c) /\ s \in Snapshots
      BY <1>4 DEF Taken
    <2>3. \A e \in Endpoints : /\ bucket'[e] = bucket[e] \/ bucket'[e] = NoBucket
                               /\ bucket'[e] # bucket[e] => e = s.e /\ SameBucket(s)
      BY <2>1, <2>2, DeletedEffect
    <2>4. told' = told /\ loyal' = loyal /\ loyal \subseteq Endpoints
      BY <1>1, <1>7 DEF FlushDelete, requestVars, TypeOK
    <2>5. ASSUME SameBucket(s), s.e \in loyal
          PROVE  \A i \in bucket[s.e].items :
                   i \in atRisk[s.e] \/ i \in swallowed[s.e] \/ told[s.e][i] > 0
      BY <2>2, <2>5 DEF Conserved, GainsAtRisk, EmittedTold, Taken
    <2>6. \A e \in loyal' : HasBucket(e) =>
            \/ HasBucket(e)'
            \/ \A i \in bucket[e].items :
                 i \in atRisk[e] \/ i \in swallowed[e] \/ told[e][i] > 0
      BY <2>3, <2>4, <2>5 DEF HasBucket
    <2>7. QED
      BY <1>1, <1>2, <1>3, <1>5, <2>3, <2>4, <2>6, Retreat DEF HasBucket
  <1>8. CASE FlushError(c) \/ FlushCrash(c)
    <2>1. bucket' = bucket
      BY <1>8 DEF FlushError, FlushCrash
    <2>2. \A e \in Endpoints : \A i \in Items : told[e][i] > 0 => told'[e][i] > 0
      BY <1>8, TellGrows DEF FlushError, FlushCrash
    <2>3. QED
      BY <1>1, <1>2, <1>3, <1>5, <2>1, <2>2, Retreat DEF HasBucket
  <1>9. QED
    BY <1>6, <1>7, <1>8

(* The other steps count nothing and lose nothing of a loyal endpoint. *)
LEMMA OthersConserve ==
  ASSUME ConservationInv,
         EmitNow \/ FireError \/ Requests \/ \E e \in Endpoints : Age(e)
  PROVE  Conserved'
  <1> USE DEF ConservationInv
  <1>1. loyal \subseteq Subscribed /\ loyal \subseteq Endpoints
    BY DEF Conserved, LoyalWanted, TypeOK
  <1>2. CASE EmitNow
    <2>1. sync.new \in SUBSET Items
      <3>1. sync \in Syncs
        BY <1>2 DEF EmitNow, TypeOK, NoSync
      <3>2. QED
        BY <3>1 DEF Syncs
    <2>2. \A e \in Endpoints : /\ \A i \in Items : told[e][i] > 0 => told'[e][i] > 0
                               /\ swallowed[e] \subseteq swallowed'[e]
      BY <1>2, <2>1, EmitGrows DEF EmitNow
    <2>3. QED
      BY <1>1, <1>2, <2>2, Retreat DEF EmitNow, requestVars, Subscribed, HasBucket
  <1>3. CASE FireError
    BY <1>1, <1>3, Retreat DEF FireError, requestVars, Subscribed, HasBucket
  <1>4. ASSUME NEW e \in Endpoints, Age(e) PROVE Conserved'
    <2>1. bucket[e] \in Buckets
      BY <1>4 DEF Age, HasBucket, TypeOK
    <2>2. /\ HasBucket(e)'
          /\ bucket'[e].born = bucket[e].born
          /\ bucket'[e].items = bucket[e].items
          /\ \A f \in Endpoints : f # e => bucket'[f] = bucket[f]
      BY <1>4, <2>1 DEF Age, HasBucket, TypeOK, Buckets, NoBucket
    <2>3. UNCHANGED <<requestVars, stored, sync, flush, told, counted, atRisk, swallowed, left>>
      BY <1>4 DEF Age
    <2>4. HasBucket(e)
      BY <1>4 DEF Age
    <2>5. \A f \in Endpoints : /\ HasBucket(f)' = HasBucket(f)
                               /\ bucket'[f].born = bucket[f].born
                               /\ bucket'[f].items = bucket[f].items
      BY <2>2, <2>4 DEF HasBucket
    <2>6. QED
      BY <1>1, <2>3, <2>5, Retreat DEF requestVars, Subscribed
  <1>5. CASE Requests
    <2>1. UNCHANGED <<stored, sync, flush, told, counted, atRisk, swallowed>>
      BY <1>5 DEF Requests, SetCadence, CachesExpire, Update, Remove
    <2>2. loyal' \subseteq loyal /\ loyal' \subseteq Subscribed'
      BY <1>1, <1>5 DEF Requests, SetCadence, CachesExpire, Update, Remove, Subscribed, TypeOK
    <2>3. \A e \in Endpoints : /\ bucket'[e] = bucket[e] \/ bucket'[e] = NoBucket
                               /\ e \in loyal' => bucket'[e] = bucket[e]
      BY <1>5 DEF Requests, SetCadence, CachesExpire, Update, Remove, TypeOK
    <2>4. QED
      BY <1>1, <2>1, <2>2, <2>3, Retreat DEF HasBucket
  <1>6. QED
    BY <1>2, <1>3, <1>4, <1>5

LEMMA ConservationHolds == Spec => []ConservationInv
  <1>1. Init => ConservationInv
    <2> SUFFICES ASSUME Init PROVE ConservationInv
      OBVIOUS
    <2>1. SyncShape /\ BornStored /\ BornFresh
      BY DEF Init, SyncShape, BornStored, BornFresh, HasBucket, Taken, NoFlush
    <2>2. GainsAtRisk /\ EmittedTold
      BY DEF Init, GainsAtRisk, EmittedTold, Taken, NoFlush
    <2>3. LoyalWanted /\ ItemsConserved
      BY DEF Init, LoyalWanted, ItemsConserved, Subscribed, NoFlush
    <2>4. QED
      BY InitTyped, <2>1, <2>2, <2>3 DEF ConservationInv, Conserved
  <1>2. ConservationInv /\ [Next]_vars => Conserved'
    <2> SUFFICES ASSUME ConservationInv, [Next]_vars PROVE Conserved'
      OBVIOUS
    <2>1. CASE Sync
      BY <2>1, PersistConserves, SyncReadsConserve, OthersConserve, UpsertConserves DEF Sync
    <2>2. ASSUME NEW c \in Digested, Flush(c) PROVE Conserved'
      BY <2>2, ReadConserves, FlushEmitConserves, FlushRetreats DEF Flush, FlushStep
    <2>3. CASE Requests \/ \E e \in Endpoints : Age(e)
      BY <2>3, OthersConserve
    <2>4. CASE UNCHANGED vars
      BY <2>4, Retreat DEF vars, HasBucket, ConservationInv, Conserved, LoyalWanted, Subscribed,
                           TypeOK
    <2>5. QED
      BY <2>1, <2>2, <2>3, <2>4 DEF Next
  <1>3. QED
    BY <1>1, <1>2, DigestTyped, PTL DEF Spec, ConservationInv

(* No counted item of an endpoint that stays subscribed is lost: it waits in  *)
(* the bucket or was announced, unless it was counted after a flush had read  *)
(* the bucket or emit() hid an error.                                         *)
THEOREM CountedItemsConserved == Spec => []ItemsConserved
  BY ConservationHolds, PTL DEF ConservationInv, Conserved
-----------------------------------------------------------------------------
LEMMA PartsFinite ==
  ASSUME NEW S \in SUBSET Items
  PROVE  IsFiniteSet(S) /\ Cardinality(S) \in Nat
  BY DigestAssumption, FS_Subset, FS_CardinalityType

LEMMA PartsCount ==
  ASSUME NEW S \in SUBSET Items, NEW T \in SUBSET S
  PROVE  Cardinality(T) <= Cardinality(S) /\ (Cardinality(T) = Cardinality(S) => T = S)
  BY PartsFinite, FS_Subset

(* Ids merged into a faithful sample, up to the cap, are a faithful sample of *)
(* the items counted with them.                                               *)
LEMMA MergedFaithful ==
  ASSUME NEW items \in SUBSET Items, NEW seen \in SUBSET items, NEW new \in SUBSET Items,
         Cardinality(seen) = Smaller(SampleCap, Cardinality(items)),
         NEW S \in Merged(seen, new)
  PROVE  S \subseteq items \cup new /\ Cardinality(S) = Smaller(SampleCap, Cardinality(items \cup new))
  <1>1. /\ S \subseteq seen \cup new
        /\ Cardinality(S) = Smaller(SampleCap, Cardinality(seen \cup new))
    BY DEF Merged
  <1>2. /\ Cardinality(seen) \in Nat /\ Cardinality(items) \in Nat
        /\ Cardinality(seen \cup new) \in Nat /\ Cardinality(items \cup new) \in Nat
    BY PartsFinite
  <1>3. CASE Cardinality(items) <= SampleCap
    <2>1. Cardinality(seen) = Cardinality(items)
      BY <1>2, <1>3, DigestAssumption DEF Smaller
    <2>2. seen = items
      BY <2>1, PartsCount
    <2>3. QED
      BY <1>1, <2>2
  <1>4. CASE ~(Cardinality(items) <= SampleCap)
    <2>1. Cardinality(seen) = SampleCap
      BY <1>2, <1>4, DigestAssumption DEF Smaller
    <2>2. Cardinality(seen) <= Cardinality(seen \cup new) /\ Cardinality(items) <= Cardinality(items \cup new)
      BY PartsCount
    <2>3. Cardinality(S) = SampleCap /\ Smaller(SampleCap, Cardinality(items \cup new)) = SampleCap
      BY <1>1, <1>2, <1>4, <2>1, <2>2, DigestAssumption DEF Smaller
    <2>4. QED
      BY <1>1, <2>3
  <1>5. QED
    BY <1>3, <1>4

LEMMA CreatedFaithful ==
  ASSUME NEW new \in SUBSET Items, NEW S \in Merged({}, new)
  PROVE  S \subseteq new /\ Cardinality(S) = Smaller(SampleCap, Cardinality(new))
  BY DEF Merged

(* The ids a sync has read are still those of the row, if there is one: it    *)
(* may be flushed meanwhile, but only this sync creates another.              *)
ReadIsCurrent ==
  sync.stage = "upsert" => \A e \in sync.on : HasBucket(e) => sync.seen = bucket[e].samples

SampleInv == ReadIsCurrent /\ SamplesFaithful

LEMMA SamplesStay ==
  ASSUME TypeOK, SampleInv, sync'.stage = "upsert" => sync' = sync,
         \A e \in Endpoints : HasBucket(e)' => /\ HasBucket(e)
                                               /\ bucket'[e].samples = bucket[e].samples
                                               /\ bucket'[e].items = bucket[e].items
  PROVE  SampleInv'
  <1>1. sync.stage = "upsert" => sync.on \subseteq Endpoints
    BY DEF TypeOK, Syncs, NoSync
  <1>2. ReadIsCurrent'
    BY <1>1 DEF SampleInv, ReadIsCurrent
  <1>3. SamplesFaithful'
    BY DEF SampleInv, SamplesFaithful
  <1>4. QED
    BY <1>2, <1>3 DEF SampleInv

LEMMA UpsertSamples ==
  ASSUME TypeOK, SampleInv, NEW e \in Endpoints, BufferUpsert(e)
  PROVE  SampleInv'
  <1>1. sync \in Syncs /\ sync.new \in SUBSET Items /\ sync.stage = "upsert"
    BY DEF BufferUpsert, TypeOK, Syncs, NoSync
  <1>2. sync'.stage # "upsert"
    BY <1>1 DEF BufferUpsert, Syncs, NoSync
  <1>3. \A d \in Endpoints \ {e} : bucket'[d] = bucket[d]
    BY UpsertEffect DEF TypeOK
  <1>4. CASE HasBucket(e)
    <2>1. PICK samples \in SUBSET Items :
            /\ samples \in Merged(sync.seen, sync.new)
            /\ bucket' = [bucket EXCEPT ![e].items = @ \cup sync.new, ![e].samples = samples,
                                        ![e].cadence = sync.cadence]
      BY <1>4 DEF BufferUpsert, Incremented
    <2>2. bucket[e] \in Buckets
      BY <1>4 DEF TypeOK, HasBucket
    <2>3. bucket'[e].samples = samples /\ bucket'[e].items = bucket[e].items \cup sync.new
      <3> DEFINE row == [bucket[e] EXCEPT !.items = bucket[e].items \cup sync.new, !.samples = samples,
                                          !.cadence = sync.cadence]
      <3>1. bucket'[e] = row
        BY <2>1, <2>2 DEF TypeOK, Buckets
      <3>2. QED
        BY <2>2, <3>1 DEF Buckets
    <2>4. /\ sync.seen = bucket[e].samples
          /\ bucket[e].items \in SUBSET Items /\ bucket[e].samples \in SUBSET bucket[e].items
          /\ Cardinality(bucket[e].samples) = Smaller(SampleCap, Cardinality(bucket[e].items))
      <3>1. sync.seen = bucket[e].samples
        BY <1>1, <1>4 DEF BufferUpsert, SampleInv, ReadIsCurrent
      <3>2. bucket[e].items \in SUBSET Items
        BY <2>2 DEF Buckets
      <3>3. /\ bucket[e].samples \in SUBSET bucket[e].items
            /\ Cardinality(bucket[e].samples) = Smaller(SampleCap, Cardinality(bucket[e].items))
        BY <1>4 DEF SampleInv, SamplesFaithful
      <3> HIDE <1>1, <1>2, <1>3, <1>4, <2>1, <2>2, <2>3
      <3>4. QED
        BY ONLY <3>1, <3>2, <3>3
    <2>5. /\ bucket'[e].samples \subseteq bucket'[e].items
          /\ Cardinality(bucket'[e].samples) = Smaller(SampleCap, Cardinality(bucket'[e].items))
      <3>1. samples \in Merged(bucket[e].samples, sync.new)
        BY <2>1, <2>4
      <3>2. /\ samples \subseteq bucket[e].items \cup sync.new
            /\ Cardinality(samples) = Smaller(SampleCap, Cardinality(bucket[e].items \cup sync.new))
        BY <1>1, <2>4, <3>1, MergedFaithful
      <3>3. QED
        BY <2>3, <3>2
    <2>6. QED
      BY <1>2, <1>3, <2>5 DEF SampleInv, ReadIsCurrent, SamplesFaithful, HasBucket
  <1>5. CASE ~HasBucket(e)
    <2>1. PICK samples \in Merged({}, sync.new) :
            bucket' = [bucket EXCEPT ![e] =
                         [age |-> "new", cadence |-> sync.cadence, born |-> sync.new,
                          items |-> sync.new, samples |-> samples]]
      BY <1>5 DEF BufferUpsert, Created
    <2>2. bucket'[e].samples = samples /\ bucket'[e].items = sync.new
      BY <2>1 DEF TypeOK
    <2>3. /\ bucket'[e].samples \subseteq bucket'[e].items
          /\ Cardinality(bucket'[e].samples) = Smaller(SampleCap, Cardinality(bucket'[e].items))
      BY <1>1, <2>2, CreatedFaithful
    <2>4. QED
      BY <1>2, <1>3, <2>3 DEF SampleInv, ReadIsCurrent, SamplesFaithful, HasBucket
  <1>6. QED
    BY <1>4, <1>5

LEMMA SyncSamples ==
  ASSUME TypeOK, SampleInv, Sync
  PROVE  SampleInv'
  <1>1. ASSUME NEW S \in SUBSET Items, Persist(S) PROVE SampleInv'
    BY <1>1, SamplesStay DEF Persist, HasBucket
  <1>2. ASSUME NEW c \in Cadences, Resolve(c) PROVE SampleInv'
    <2>1. sync \in Syncs
      BY <1>2 DEF Resolve, TypeOK, NoSync
    <2>2. sync'.stage # "upsert"
      BY <1>2, <2>1 DEF Resolve, Dispatched, Buffering, Syncs, NoSync
    <2>3. QED
      BY <1>2, <2>2, SamplesStay DEF Resolve, HasBucket
  <1>3. CASE EmitNow \/ FireError
    BY <1>3, SamplesStay DEF EmitNow, FireError, HasBucket, NoSync
  <1>4. ASSUME NEW e \in Endpoints, BufferRead(e) PROVE SampleInv'
    <2>1. sync \in Syncs
      BY <1>4 DEF BufferRead, TypeOK, NoSync
    <2>2. sync'.on = {e} /\ sync'.seen = IF HasBucket(e) THEN bucket[e].samples ELSE {}
      BY <1>4, <2>1 DEF BufferRead, Syncs
    <2>3. bucket' = bucket
      BY <1>4 DEF BufferRead
    <2>4. ReadIsCurrent'
      BY <2>2, <2>3 DEF ReadIsCurrent, HasBucket
    <2>5. QED
      BY <2>3, <2>4 DEF SampleInv, SamplesFaithful, HasBucket
  <1>5. ASSUME NEW e \in Endpoints, BufferUpsert(e) PROVE SampleInv'
    BY <1>5, UpsertSamples
  <1>6. QED
    BY <1>1, <1>2, <1>3, <1>4, <1>5 DEF Sync

LEMMA FlushSamples ==
  ASSUME TypeOK, SampleInv, NEW c \in Digested, Flush(c)
  PROVE  SampleInv'
  <1>1. sync' = sync
    BY DEF Flush, FlushStep, FlushRead, FlushDrop, FlushEmit, FlushDelete, FlushError, FlushCrash
  <1>2. CASE bucket' = bucket
    BY <1>1, <1>2, SamplesStay DEF HasBucket
  <1>3. CASE FlushDrop(c) \/ FlushDelete(c)
    <2>1. PICK s \in Snapshots : bucket' = Deleted(s)
      BY <1>3 DEF FlushDrop, FlushDelete, TypeOK
    <2>2. QED
      BY <1>1, <2>1, DeletedEffect, SamplesStay DEF HasBucket
  <1>4. QED
    BY <1>2, <1>3 DEF Flush, FlushStep, FlushRead, FlushEmit, FlushError, FlushCrash

LEMMA OtherSamples ==
  ASSUME TypeOK, SampleInv, Requests \/ \E e \in Endpoints : Age(e)
  PROVE  SampleInv'
  <1>1. ASSUME NEW e \in Endpoints, Age(e) PROVE SampleInv'
    <2>1. bucket[e] \in Buckets
      BY <1>1 DEF Age, HasBucket, TypeOK
    <2>2. /\ bucket'[e].samples = bucket[e].samples /\ bucket'[e].items = bucket[e].items
          /\ \A d \in Endpoints \ {e} : bucket'[d] = bucket[d]
      BY <1>1, <2>1 DEF Age, TypeOK, Buckets
    <2>3. QED
      BY <1>1, <2>2, SamplesStay DEF Age, HasBucket
  <1>2. ASSUME NEW e \in Endpoints, Remove(e) PROVE SampleInv'
    BY <1>2, SamplesStay DEF Remove, HasBucket, TypeOK
  <1>3. ASSUME UNCHANGED <<sync, bucket>> PROVE SampleInv'
    BY <1>3, SamplesStay DEF HasBucket
  <1>4. QED
    BY <1>1, <1>2, <1>3 DEF Requests, SetCadence, CachesExpire, Update

(* sample_ids are always ids of the bucket's own items, as many as the cap    *)
(* allows: between a sync's read of them and its upsert the row may be        *)
(* flushed, but never replaced by another; for any cap and any items.         *)
THEOREM SamplesTrue == Spec => []SamplesFaithful
  <1>1. Init => SampleInv
    BY DEF Init, SampleInv, ReadIsCurrent, SamplesFaithful, HasBucket, NoSync
  <1>2. TypeOK /\ SampleInv /\ [Next]_vars => SampleInv'
    <2> SUFFICES ASSUME TypeOK, SampleInv, [Next]_vars PROVE SampleInv'
      OBVIOUS
    <2>1. CASE UNCHANGED vars
      BY <2>1, SamplesStay DEF vars, HasBucket
    <2>2. QED
      BY <2>1, SyncSamples, FlushSamples, OtherSamples DEF Next
  <1>3. QED
    BY <1>1, <1>2, DigestTyped, PTL DEF Spec, SampleInv
-----------------------------------------------------------------------------
(* Where an item is on its way to the digest of an endpoint. *)
Holds(e, i) == HasBucket(e) /\ i \in bucket[e].items
Waits(c, e, i) == \E s \in flush[c].batch : s.e = e /\ i \in s.bucket.items
Sent(c, e, i) == \E s \in flush[c].emitted : s.e = e /\ i \in s.bucket.items

(* The running sync may still count it, or has it to announce at once. *)
Expects(e) == sync.stage \in {"fire", "emit"} \/ e \in sync.todo \/ e \in sync.on
Awaits(e, i) == sync # NoSync /\ i \in sync.new /\ Expects(e)

(* Only stored items are in a bucket, in a flush or told. *)
ItemsKnown ==
  /\ \A e \in Endpoints : HasBucket(e) => bucket[e].items \subseteq stored
  /\ \A c \in Digested : \A s \in Taken(c) : s.bucket.items \subseteq stored
  /\ \A e \in Endpoints : \A i \in Items \ stored : told[e][i] = 0

(* An item is counted for an endpoint once. *)
AwaitedFresh ==
  \A e \in Endpoints : \A i \in Items : Awaits(e, i) =>
    ~Holds(e, i) /\ \A c \in Digested : ~Waits(c, e, i) /\ ~Sent(c, e, i)

(* A flush has an endpoint's bucket once, and is deleting one at a time. *)
OneEach ==
  \A c \in Digested :
    /\ \A s, t \in Taken(c) : s.e = t.e => s = t
    /\ flush[c].batch \cap flush[c].emitted = {}
    /\ \A s, t \in flush[c].emitted : s = t

(* A row with an item that a flush has read is the row it has read. *)
SameAsHeld ==
  \A c \in Digested : \A s \in Taken(c) : \A i \in s.bucket.items : Holds(s.e, i) => SameBucket(s)

Sorted == ItemsKnown /\ AwaitedFresh /\ OneEach /\ SameAsHeld

LEMMA TakenShape ==
  ASSUME TypeOK, NEW c \in Digested, NEW s \in Taken(c)
  PROVE  s \in Snapshots /\ s.e \in Endpoints /\ s.bucket \in Buckets /\ s.bucket.items \in SUBSET Items
  BY DEF TypeOK, Taken, Snapshots, Buckets

(* Steps that count nothing and take up no bucket. *)
LEMMA SortedStays ==
  ASSUME TypeOK, Sorted, stored' = stored,
         \A e \in Endpoints : \A i \in Items : Awaits(e, i)' => Awaits(e, i),
         \A c \in Digested : Taken(c)' \subseteq Taken(c),
         \A e \in Endpoints : HasBucket(e)' => /\ HasBucket(e)
                                               /\ bucket'[e].items = bucket[e].items
                                               /\ bucket'[e].born = bucket[e].born,
         \A e \in Endpoints : \A i \in Items \ stored : told'[e][i] = told[e][i]
  PROVE  ItemsKnown' /\ AwaitedFresh' /\ SameAsHeld'
  <1>1. ItemsKnown'
    BY DEF Sorted, ItemsKnown
  <1>2. \A e \in Endpoints : \A i \in Items : Holds(e, i)' => Holds(e, i)
    BY DEF Holds
  <1>3. \A e \in Endpoints : \A i \in Items : \A c \in Digested :
          Waits(c, e, i)' \/ Sent(c, e, i)' => Waits(c, e, i) \/ Sent(c, e, i)
    BY DEF Waits, Sent, Taken
  <1>4. AwaitedFresh'
    BY <1>2, <1>3 DEF Sorted, AwaitedFresh
  <1>5. SameAsHeld'
    <2> SUFFICES ASSUME NEW c \in Digested, NEW s \in Taken(c), NEW i \in s.bucket.items, Holds(s.e, i)'
                 PROVE  SameBucket(s)'
      BY DEF SameAsHeld
    <2>1. s.e \in Endpoints /\ i \in Items
      BY TakenShape
    <2>2. SameBucket(s)
      BY <1>2, <2>1 DEF Sorted, SameAsHeld
    <2>3. QED
      BY <2>1, <2>2 DEF SameBucket, Holds
  <1>6. QED
    BY <1>1, <1>4, <1>5

LEMMA OneEachStays == ASSUME OneEach, UNCHANGED flush PROVE OneEach'
  BY DEF OneEach, Taken

LEMMA PersistSorted ==
  ASSUME ConservationInv, Sorted, NEW S \in SUBSET Items, Persist(S)
  PROVE  Sorted'
  <1>1. /\ S \cap stored = {} /\ stored' = stored \cup S /\ sync'.new = S
        /\ UNCHANGED <<bucket, flush, told>>
    BY DEF Persist
  <1>2. ItemsKnown' /\ OneEach' /\ SameAsHeld'
    BY <1>1 DEF Sorted, ItemsKnown, OneEach, SameAsHeld, Taken, HasBucket, Holds, SameBucket
  <1>3. AwaitedFresh'
    <2> SUFFICES ASSUME NEW e \in Endpoints, NEW i \in S
                 PROVE  ~Holds(e, i)' /\ \A c \in Digested : ~Waits(c, e, i)' /\ ~Sent(c, e, i)'
      BY <1>1 DEF AwaitedFresh, Awaits
    <2>1. QED
      BY <1>1 DEF Sorted, ItemsKnown, Holds, Waits, Sent, Taken, HasBucket
  <1>4. QED
    BY <1>2, <1>3 DEF Sorted

(* What a sync still has to count shrinks. *)
LEMMA SyncNarrows ==
  ASSUME ConservationInv, NEW e \in Endpoints, NEW i \in Items, Awaits(e, i)',
         \/ \E c \in Cadences : Resolve(c)
         \/ \E d \in Endpoints : BufferRead(d) \/ BufferUpsert(d)
  PROVE  Awaits(e, i)
  <1>1. sync \in Syncs /\ sync # NoSync
    <2>1. sync.stage # "idle"
      BY DEF Resolve, BufferRead, BufferUpsert
    <2>2. QED
      BY <2>1, Distinct DEF NoSync, ConservationInv, TypeOK
  <1>2. ASSUME NEW c \in Cadences, Resolve(c) PROVE Awaits(e, i)
    <2>1. sync.stage = "fire" /\ sync'.new = sync.new
      <3>1. sync' \in {[sync EXCEPT !.stage = "emit"], Buffering(c)}
        BY <1>2 DEF Resolve, Dispatched, Awaits
      <3>2. QED
        BY <1>1, <1>2, <3>1 DEF Resolve, Buffering, Syncs
    <2>2. QED
      BY <1>1, <2>1 DEF Awaits, Expects
  <1>3. ASSUME NEW d \in Endpoints, BufferRead(d) PROVE Awaits(e, i)
    <2>1. /\ sync'.new = sync.new /\ sync'.stage = "upsert" /\ d \in sync.todo
          /\ sync'.todo = sync.todo \ {d} /\ sync'.on = {d}
      BY <1>1, <1>3 DEF BufferRead, Syncs
    <2>2. QED
      BY <1>1, <2>1 DEF Awaits, Expects
  <1>4. ASSUME NEW d \in Endpoints, BufferUpsert(d) PROVE Awaits(e, i)
    <2>1. sync' # NoSync
      BY DEF Awaits
    <2>2. sync'.new = sync.new /\ sync'.stage = "read" /\ sync'.todo = sync.todo /\ sync'.on = {}
      BY <1>1, <1>4, <2>1 DEF BufferUpsert, Syncs
    <2>3. QED
      BY <1>1, <2>2 DEF Awaits, Expects
  <1>5. QED
    BY <1>2, <1>3, <1>4

(* What an upsert does to the item and to the rows of the endpoint. *)
LEMMA UpsertHolds ==
  ASSUME ConservationInv, NEW d \in Endpoints, BufferUpsert(d), NEW e \in Endpoints, NEW i \in Items
  PROVE  /\ Holds(e, i)' <=> Holds(e, i) \/ (e = d /\ i \in sync.new)
         /\ i \in sync.new => Awaits(d, i) /\ ~Awaits(d, i)'
         /\ sync \in Syncs
  <1>1. sync \in Syncs /\ sync # NoSync /\ d \in sync.on /\ d \notin sync.todo
    BY UpsertEffect, Distinct DEF BufferUpsert, ConservationInv, Conserved, SyncShape
  <1>2. Holds(e, i)' <=> Holds(e, i) \/ (e = d /\ i \in sync.new)
    <2>1. CASE e # d
      BY <2>1, UpsertEffect DEF Holds, HasBucket, ConservationInv, TypeOK
    <2>2. CASE e = d
      BY <2>2, UpsertEffect, Distinct DEF Holds, HasBucket, ConservationInv
    <2>3. QED
      BY <2>1, <2>2
  <1>3. i \in sync.new => Awaits(d, i) /\ ~Awaits(d, i)'
    <2>1. sync' = NoSync \/ (sync'.stage = "read" /\ sync'.todo = sync.todo /\ sync'.on = {})
      BY <1>1 DEF BufferUpsert, Syncs
    <2>2. QED
      BY <1>1, <2>1 DEF Awaits, Expects
  <1>4. QED
    BY <1>1, <1>2, <1>3

LEMMA UpsertSorted ==
  ASSUME ConservationInv, Sorted, NEW d \in Endpoints, BufferUpsert(d)
  PROVE  Sorted'
  <1>1. UNCHANGED <<stored, flush, told>> /\ OneEach'
    BY OneEachStays DEF BufferUpsert, Sorted
  <1>2. sync.new \subseteq stored
    BY UpsertEffect, Distinct DEF ConservationInv, Conserved, SyncShape
  <1>3. \A e \in Endpoints \ {d} : bucket'[e] = bucket[e]
    BY UpsertEffect DEF ConservationInv, TypeOK
  <1>4. ItemsKnown'
    <2>1. HasBucket(d)' => bucket'[d].items \subseteq stored
      BY <1>2, UpsertEffect DEF ConservationInv, Sorted, ItemsKnown
    <2>2. QED
      BY <1>1, <1>3, <2>1 DEF Sorted, ItemsKnown, HasBucket, Taken
  <1>5. \A c \in Digested : \A e \in Endpoints : \A i \in Items :
          Waits(c, e, i)' = Waits(c, e, i) /\ Sent(c, e, i)' = Sent(c, e, i)
    BY <1>1 DEF Waits, Sent
  <1>6. AwaitedFresh'
    <2> SUFFICES ASSUME NEW e \in Endpoints, NEW i \in Items, Awaits(e, i)'
                 PROVE  ~Holds(e, i)' /\ \A c \in Digested : ~Waits(c, e, i)' /\ ~Sent(c, e, i)'
      BY DEF AwaitedFresh
    <2>1. Awaits(e, i)
      BY SyncNarrows
    <2>2. ~(e = d /\ i \in sync.new)
      BY UpsertHolds
    <2>3. QED
      BY <1>5, <2>1, <2>2, UpsertHolds DEF Sorted, AwaitedFresh
  <1>7. SameAsHeld'
    <2> SUFFICES ASSUME NEW c \in Digested, NEW s \in Taken(c), NEW i \in s.bucket.items, Holds(s.e, i)'
                 PROVE  SameBucket(s)'
      BY <1>1 DEF SameAsHeld, Taken
    <2>1. s.e \in Endpoints /\ i \in Items /\ (Waits(c, s.e, i) \/ Sent(c, s.e, i))
      BY TakenShape DEF ConservationInv, Taken, Waits, Sent
    <2>2. ~Awaits(s.e, i)
      BY <2>1 DEF Sorted, AwaitedFresh
    <2>3. Holds(s.e, i)
      BY <2>1, <2>2, UpsertHolds
    <2>4. SameBucket(s)
      BY <2>3 DEF Sorted, SameAsHeld
    <2>5. HasBucket(s.e)' /\ bucket'[s.e].born = bucket[s.e].born
      BY <1>3, <2>1, <2>3, UpsertEffect DEF ConservationInv, Holds
    <2>6. QED
      BY <2>4, <2>5 DEF SameBucket
  <1>8. QED
    BY <1>1, <1>4, <1>6, <1>7 DEF Sorted

LEMMA FlushReadSorted ==
  ASSUME ConservationInv, Sorted, NEW c \in Digested, FlushRead(c)
  PROVE  /\ Sorted'
         /\ \A e \in Endpoints : \A i \in Items :
              /\ Holds(e, i)' = Holds(e, i)
              /\ \A d \in Digested : /\ Sent(d, e, i)' = Sent(d, e, i)
                                     /\ Waits(d, e, i)' => Waits(d, e, i) \/ Holds(e, i)
  <1>1. UNCHANGED <<requestVars, bucket, stored, sync, told, counted, atRisk, swallowed, left>>
    BY DEF FlushRead
  <1>2. PICK S \in SUBSET Ripe(c) : flush' = [flush EXCEPT ![c].batch = {Snapshot(e) : e \in S}]
    BY DEF FlushRead
  <1>3. \A d \in Digested :
          /\ flush'[d].batch = IF d = c THEN {Snapshot(e) : e \in S} ELSE flush[d].batch
          /\ flush'[d].emitted = flush[d].emitted
    BY <1>2 DEF ConservationInv, TypeOK
  <1>4. \A e \in S : e \in Endpoints /\ HasBucket(e) /\ Snapshot(e).e = e /\ Snapshot(e).bucket = bucket[e]
    BY DEF Ripe, Snapshot
  <1>5. flush[c].emitted = {}
    BY DEF FlushRead, NoFlush
  <1>6. \A e \in Endpoints : \A i \in Items : Holds(e, i)' = Holds(e, i)
    BY <1>1 DEF Holds, HasBucket
  <1>7. \A e \in Endpoints : \A i \in Items : \A d \in Digested :
          /\ Sent(d, e, i)' = Sent(d, e, i)
          /\ Waits(d, e, i)' => Waits(d, e, i) \/ Holds(e, i)
    <2> SUFFICES ASSUME NEW e \in Endpoints, NEW i \in Items, NEW d \in Digested, Waits(d, e, i)', ~Waits(d, e, i)
                 PROVE  Holds(e, i)
      BY <1>3 DEF Sent
    <2>1. PICK s \in flush'[d].batch : s.e = e /\ i \in s.bucket.items
      BY DEF Waits
    <2>2. PICK r \in S : s = Snapshot(r)
      BY <1>3, <2>1 DEF Waits
    <2>3. QED
      BY <1>4, <2>1, <2>2 DEF Holds
  <1>8. ItemsKnown'
    <2>1. \A d \in Digested : \A s \in Taken(d)' : s \in Taken(d) \/ \E e \in S : s = Snapshot(e)
      BY <1>3 DEF Taken
    <2>2. QED
      BY <1>1, <1>4, <2>1 DEF Sorted, ItemsKnown, HasBucket
  <1>9. AwaitedFresh'
    <2>1. \A e \in Endpoints : \A i \in Items : Awaits(e, i)' => Awaits(e, i)
      BY <1>1 DEF Awaits, Expects
    <2>2. QED
      BY <1>6, <1>7, <2>1 DEF Sorted, AwaitedFresh
  <1>10. OneEach'
    <2> SUFFICES ASSUME NEW d \in Digested
                 PROVE  /\ \A s, t \in Taken(d)' : s.e = t.e => s = t
                        /\ flush'[d].batch \cap flush'[d].emitted = {}
                        /\ \A s, t \in flush'[d].emitted : s = t
      BY DEF OneEach
    <2>1. CASE d = c
      <3>1. flush'[d].emitted = {} /\ Taken(d)' = {Snapshot(e) : e \in S}
        BY <1>3, <1>5, <2>1 DEF Taken
      <3>2. \A s, t \in {Snapshot(e) : e \in S} : s.e = t.e => s = t
        BY <1>4
      <3>3. QED
        BY <3>1, <3>2
    <2>2. CASE d # c
      BY <1>3, <2>2 DEF Sorted, OneEach, Taken
    <2>3. QED
      BY <2>1, <2>2
  <1>11. SameAsHeld'
    <2> SUFFICES ASSUME NEW d \in Digested, NEW s \in Taken(d)', NEW i \in s.bucket.items, Holds(s.e, i)'
                 PROVE  SameBucket(s)'
      BY DEF SameAsHeld
    <2>1. CASE s \in Taken(d)
      <3>1. s.e \in Endpoints /\ i \in Items
        BY <2>1, TakenShape DEF ConservationInv
      <3>2. QED
        BY <1>1, <1>6, <2>1, <3>1 DEF Sorted, SameAsHeld, SameBucket, HasBucket
    <2>2. CASE \E e \in S : s = Snapshot(e)
      BY <1>1, <1>4, <2>2 DEF SameBucket, HasBucket
    <2>3. QED
      BY <1>3, <2>1, <2>2 DEF Taken
  <1>12. QED
    BY <1>6, <1>7, <1>8, <1>9, <1>10, <1>11 DEF Sorted

LEMMA UsedSteps ==
  ASSUME TypeOK, Disturb \/ left' = left
  PROVE  Used \in Nat /\ Used' \in {Used, Used + 1} /\ (Disturb => Used' = Used + 1)
  BY DigestAssumption DEF TypeOK, Disturb, Used

(* What a step tells of the items in S. *)
Tells(S) ==
  \A e \in Endpoints : \A i \in Items :
    /\ told[e][i] \in Nat /\ told'[e][i] <= told[e][i] + 1
    /\ i \notin S => told'[e][i] = told[e][i]

LEMMA TellTells ==
  ASSUME TypeOK, NEW S, NEW T, Tell(T, S)
  PROVE  Tells(S)
  <1> SUFFICES ASSUME NEW e \in Endpoints, NEW i \in Items
               PROVE  /\ told[e][i] \in Nat /\ told'[e][i] <= told[e][i] + 1
                      /\ i \notin S => told'[e][i] = told[e][i]
    BY DEF Tells
  <1>1. told[e][i] \in Nat
    BY DEF TypeOK
  <1>2. told'[e][i] = told[e][i] + (IF e \in T /\ i \in S THEN 1 ELSE 0)
    BY DEF Tell
  <1>3. QED
    BY <1>1, <1>2

LEMMA EmitTells ==
  ASSUME TypeOK, NEW S, Emit(S)
  PROVE  Tells(S) /\ (Disturb \/ left' = left)
  BY TellTells DEF Emit, Swallow

LEMMA SilentTells == ASSUME TypeOK, UNCHANGED told, NEW S PROVE Tells(S)
  <1>1. \A e \in Endpoints : \A i \in Items : told[e][i] \in Nat
    BY DEF TypeOK
  <1>2. QED
    BY <1>1 DEF Tells

(* What a step of a flush does to what it has taken. *)
LEMMA FlushTakes ==
  ASSUME TypeOK, Sorted, NEW c \in Digested,
         FlushDrop(c) \/ FlushEmit(c) \/ FlushDelete(c) \/ FlushError(c) \/ FlushCrash(c)
  PROVE  /\ \A d \in Digested : /\ Taken(d)' \subseteq Taken(d) /\ flush'[d].batch \subseteq flush[d].batch
                                /\ d # c => flush'[d] = flush[d]
         /\ FlushEmit(c) \/ flush'[c].emitted \subseteq flush[c].emitted
         /\ OneEach'
  <1>1. flush[c] \in [batch : SUBSET Snapshots, emitted : SUBSET Snapshots] /\ DOMAIN flush = Digested
    BY DEF TypeOK
  <1>2. CASE FlushEmit(c)
    <2>1. PICK s \in flush[c].batch : flush' = [flush EXCEPT ![c].batch = @ \ {s}, ![c].emitted = {s}]
      BY <1>2 DEF FlushEmit
    <2>2. /\ flush'[c].batch = flush[c].batch \ {s} /\ flush'[c].emitted = {s}
          /\ \A d \in Digested \ {c} : flush'[d] = flush[d]
      BY <1>1, <2>1 DEF TypeOK
    <2>3. \A d \in Digested : Taken(d)' \subseteq Taken(d) /\ flush'[d].batch \subseteq flush[d].batch
      BY <2>2 DEF Taken
    <2>4. OneEach'
      BY <2>2, <2>3 DEF Sorted, OneEach
    <2>5. QED
      BY <1>2, <2>2, <2>3, <2>4
  <1>3. CASE FlushDrop(c) \/ FlushDelete(c) \/ FlushError(c) \/ FlushCrash(c)
    <2>1. /\ flush'[c].batch \subseteq flush[c].batch /\ flush'[c].emitted \subseteq flush[c].emitted
          /\ \A d \in Digested \ {c} : flush'[d] = flush[d]
      <3>1. CASE FlushDrop(c)
        BY <1>1, <3>1 DEF FlushDrop, TypeOK
      <3>2. CASE FlushDelete(c)
        BY <1>1, <3>2 DEF FlushDelete, TypeOK
      <3>3. CASE FlushError(c)
        <4>1. PICK s : flush' = [flush EXCEPT ![c].batch = @ \ {s}, ![c].emitted = {}]
          BY <3>3 DEF FlushError
        <4>2. QED
          BY <1>1, <4>1 DEF TypeOK
      <3>4. CASE FlushCrash(c)
        BY <1>1, <3>4 DEF FlushCrash, NoFlush, TypeOK
      <3>5. QED
        BY <1>3, <3>1, <3>2, <3>3, <3>4
    <2>2. \A d \in Digested : /\ Taken(d)' \subseteq Taken(d) /\ flush'[d].batch \subseteq flush[d].batch
                              /\ flush'[d].emitted \subseteq flush[d].emitted
      BY <2>1 DEF Taken
    <2>3. OneEach'
      BY <2>2 DEF Sorted, OneEach
    <2>4. QED
      BY <2>1, <2>2, <2>3
  <1>4. QED
    BY <1>2, <1>3

(* A deletion takes the row that was read, or nothing. *)
LEMMA FlushDeletes ==
  ASSUME TypeOK, NEW c \in Digested, NEW s \in Taken(c), bucket' = Deleted(s), NEW e \in Endpoints
  PROVE  /\ bucket'[e] = bucket[e] \/ (bucket'[e] = NoBucket /\ e = s.e /\ SameBucket(s))
         /\ HasBucket(e)' => HasBucket(e) /\ bucket'[e] = bucket[e]
         /\ e = s.e /\ SameBucket(s) => ~HasBucket(e)'
  <1>1. s \in Snapshots /\ s.e \in Endpoints
    BY TakenShape
  <1>2. e = s.e /\ SameBucket(s) => bucket'[e] = NoBucket
    BY <1>1 DEF TypeOK, Deleted, SameBucket
  <1>3. QED
    BY <1>1, <1>2, DeletedEffect DEF HasBucket

LEMMA FlushStepSorted ==
  ASSUME ConservationInv, Sorted, NEW c \in Digested,
         FlushDrop(c) \/ FlushEmit(c) \/ FlushDelete(c) \/ FlushError(c) \/ FlushCrash(c)
  PROVE  Sorted'
  <1>1. TypeOK /\ UNCHANGED <<stored, sync>>
    BY DEF ConservationInv, FlushDrop, FlushEmit, FlushDelete, FlushError, FlushCrash
  <1>2. \A e \in Endpoints : \A i \in Items : Awaits(e, i)' => Awaits(e, i)
    BY <1>1 DEF Awaits, Expects
  <1>3. \A e \in Endpoints : HasBucket(e)' => HasBucket(e) /\ bucket'[e] = bucket[e]
    <2>1. CASE bucket' = bucket
      BY <2>1 DEF HasBucket
    <2>2. CASE \E s \in Taken(c) : bucket' = Deleted(s)
      BY <1>1, <2>2, FlushDeletes
    <2>3. QED
      BY <2>1, <2>2 DEF FlushDrop, FlushEmit, FlushDelete, FlushError, FlushCrash, Taken
  <1>4. \A e \in Endpoints : \A i \in Items \ stored : told'[e][i] = told[e][i]
    <2>1. CASE told' = told
      BY <2>1
    <2>2. ASSUME NEW s \in flush[c].batch, Tells(s.bucket.items)
          PROVE  \A e \in Endpoints : \A i \in Items \ stored : told'[e][i] = told[e][i]
      BY <2>2 DEF Sorted, ItemsKnown, Taken, Tells
    <2>3. CASE FlushEmit(c)
      BY <1>1, <2>2, <2>3, EmitTells DEF FlushEmit
    <2>4. CASE FlushCrash(c)
      BY <1>1, <2>1, <2>2, <2>4, TellTells DEF FlushCrash
    <2>5. QED
      BY <2>1, <2>3, <2>4 DEF FlushDrop, FlushDelete, FlushError
  <1>5. QED
    BY <1>1, <1>2, <1>3, <1>4, FlushTakes, SortedStays DEF Sorted

LEMMA OtherSorted ==
  ASSUME ConservationInv, Sorted,
         \/ EmitNow \/ FireError \/ Requests \/ \E e \in Endpoints : Age(e) \/ BufferRead(e)
         \/ \E c \in Cadences : Resolve(c)
  PROVE  Sorted'
  <1>1. TypeOK /\ UNCHANGED <<stored, flush>> /\ OneEach'
    BY OneEachStays DEF ConservationInv, Sorted, EmitNow, FireError, Requests, SetCadence, CachesExpire,
       Update, Remove, Age, BufferRead, Resolve
  <1>2. \A c \in Digested : Taken(c)' \subseteq Taken(c)
    BY <1>1 DEF Taken
  <1>3. CASE EmitNow
    <2>1. sync.new \subseteq stored /\ Tells(sync.new) /\ sync' = NoSync /\ bucket' = bucket
      BY <1>1, <1>3, EmitTells DEF EmitNow, ConservationInv, Conserved, SyncShape, NoSync
    <2>2. QED
      BY <1>1, <1>2, <2>1, SortedStays DEF Sorted, Tells, Awaits, HasBucket
  <1>4. CASE FireError
    BY <1>1, <1>2, <1>4, SortedStays DEF Sorted, FireError, Awaits, HasBucket
  <1>5. CASE (\E c \in Cadences : Resolve(c)) \/ (\E e \in Endpoints : BufferRead(e))
    <2>1. UNCHANGED <<bucket, told>>
      BY <1>5 DEF Resolve, BufferRead
    <2>2. \A e \in Endpoints : \A i \in Items : Awaits(e, i)' => Awaits(e, i)
      BY <1>5, SyncNarrows
    <2>3. QED
      BY <1>1, <1>2, <2>1, <2>2, SortedStays DEF Sorted, HasBucket
  <1>6. CASE Requests \/ \E e \in Endpoints : Age(e)
    <2>1. UNCHANGED <<told, sync>>
      BY <1>6 DEF Requests, SetCadence, CachesExpire, Update, Remove, Age
    <2>2. \A e \in Endpoints : \A i \in Items : Awaits(e, i)' => Awaits(e, i)
      BY <2>1 DEF Awaits, Expects
    <2>3. \A e \in Endpoints : HasBucket(e)' => /\ HasBucket(e)
                                               /\ bucket'[e].items = bucket[e].items
                                               /\ bucket'[e].born = bucket[e].born
      <3>1. ASSUME NEW d \in Endpoints, Age(d)
            PROVE  \A e \in Endpoints : HasBucket(e)' => /\ HasBucket(e)
                                                        /\ bucket'[e].items = bucket[e].items
                                                        /\ bucket'[e].born = bucket[e].born
        <4>1. bucket[d] \in Buckets /\ HasBucket(d)
          BY <1>1, <3>1 DEF Age, HasBucket, TypeOK
        <4>2. /\ bucket'[d].items = bucket[d].items /\ bucket'[d].born = bucket[d].born
              /\ \A e \in Endpoints \ {d} : bucket'[e] = bucket[e]
          BY <1>1, <3>1, <4>1 DEF Age, TypeOK, Buckets
        <4>3. QED
          BY <4>1, <4>2 DEF HasBucket
      <3>2. ASSUME NEW d \in Endpoints, Remove(d)
            PROVE  \A e \in Endpoints : HasBucket(e)' => HasBucket(e) /\ bucket'[e] = bucket[e]
        BY <1>1, <3>2 DEF Remove, HasBucket, TypeOK
      <3>3. CASE bucket' = bucket
        BY <3>3 DEF HasBucket
      <3>4. QED
        BY <1>6, <3>1, <3>2, <3>3 DEF Requests, SetCadence, CachesExpire, Update
    <2>4. QED
      BY <1>1, <1>2, <2>1, <2>2, <2>3, SortedStays DEF Sorted
  <1>7. QED
    BY <1>3, <1>4, <1>5, <1>6
-----------------------------------------------------------------------------
(* While nobody has changed the cadence, only the flush of one is at work. *)
OnlyCadence(c) ==
  /\ cadence = c /\ recent \subseteq {c}
  /\ \A e \in Endpoints : HasBucket(e) => bucket[e].cadence = c
  /\ sync.stage \in {"read", "upsert"} => sync.cadence = c
  /\ \A d \in Digested \ {c} : flush[d] = NoFlush

OneCadence == \E c \in Digested : OnlyCadence(c)
Mixed == OneCadence \/ Used >= 1

(* How many flushes may still take up one row, but for crashes and errors. *)
Readers == IF OneCadence THEN 1 ELSE 2

LEMMA CadenceStays ==
  ASSUME TypeOK, Next, \A c \in Cadences : ~SetCadence(c), NEW a \in Digested, OnlyCadence(a)
  PROVE  OnlyCadence(a)'
  <1> USE DEF OnlyCadence
  <1>1. ASSUME UNCHANGED <<cadence, recent, bucket, flush>>, sync' = sync \/ sync'.stage \notin {"read", "upsert"}
        PROVE  OnlyCadence(a)'
    BY <1>1 DEF HasBucket
  <1>2. CASE EmitNow \/ FireError \/ \E S \in SUBSET Items : Persist(S)
    BY <1>1, <1>2 DEF EmitNow, FireError, Persist, requestVars, NoSync
  <1>3. ASSUME NEW c \in Cadences, Resolve(c) PROVE OnlyCadence(a)'
    <2>1. sync \in Syncs
      BY <1>3 DEF Resolve, TypeOK, NoSync
    <2>2. sync'.stage \in {"read", "upsert"} => sync'.cadence = c
      BY <1>3, <2>1 DEF Resolve, Dispatched, Buffering, Syncs, NoSync
    <2>3. c = a /\ UNCHANGED <<requestVars, bucket, flush>>
      BY <1>3 DEF Resolve
    <2>4. QED
      BY <2>2, <2>3 DEF requestVars, HasBucket
  <1>4. ASSUME NEW e \in Endpoints, BufferRead(e) PROVE OnlyCadence(a)'
    <2>1. sync \in Syncs
      BY <1>4 DEF BufferRead, TypeOK, NoSync
    <2>2. sync'.cadence = sync.cadence
      BY <1>4, <2>1 DEF BufferRead, Syncs
    <2>3. QED
      BY <1>4, <2>2 DEF BufferRead, requestVars, HasBucket
  <1>5. ASSUME NEW e \in Endpoints, BufferUpsert(e) PROVE OnlyCadence(a)'
    <2>1. sync \in Syncs /\ sync.cadence = a
      BY <1>5, UpsertEffect DEF BufferUpsert
    <2>2. sync'.stage \in {"read", "upsert"} => sync'.cadence = a
      BY <1>5, <2>1 DEF BufferUpsert, Syncs, NoSync
    <2>3. bucket'[e].cadence = a
      <3>1. CASE HasBucket(e)
        <4>1. bucket[e] \in Buckets
          BY <3>1 DEF HasBucket, TypeOK
        <4>2. PICK samples \in SUBSET Items :
                bucket' = [bucket EXCEPT ![e].items = Incremented(@), ![e].samples = samples,
                                         ![e].cadence = a]
          BY <1>5, <2>1, <3>1 DEF BufferUpsert
        <4>3. QED
          BY <4>1, <4>2 DEF TypeOK, Buckets
      <3>2. CASE ~HasBucket(e)
        <4>1. PICK samples \in SUBSET Items :
                bucket' = [bucket EXCEPT ![e] =
                             [age |-> "new", cadence |-> a, born |-> sync.new,
                              items |-> sync.new, samples |-> samples]]
          BY <1>5, <2>1, <3>2 DEF BufferUpsert
        <4>2. QED
          BY <4>1 DEF TypeOK
      <3>3. QED
        BY <3>1, <3>2
    <2>4. \A d \in Endpoints \ {e} : bucket'[d] = bucket[d]
      BY <1>5, UpsertEffect DEF TypeOK
    <2>5. UNCHANGED <<cadence, recent, flush>>
      BY <1>5 DEF BufferUpsert, requestVars
    <2>6. QED
      BY <2>2, <2>3, <2>4, <2>5 DEF HasBucket
  <1>6. ASSUME NEW e \in Endpoints, Age(e) PROVE OnlyCadence(a)'
    <2>1. bucket[e] \in Buckets /\ HasBucket(e)
      BY <1>6 DEF Age, HasBucket, TypeOK
    <2>2. bucket'[e].cadence = bucket[e].cadence /\ \A d \in Endpoints \ {e} : bucket'[d] = bucket[d]
      BY <1>6, <2>1 DEF Age, TypeOK, Buckets
    <2>3. QED
      BY <1>6, <2>1, <2>2 DEF Age, requestVars, HasBucket
  <1>7. CASE CachesExpire \/ \E e \in Endpoints : Update(e) \/ Remove(e)
    <2>1. UNCHANGED <<cadence, sync, flush>> /\ recent' \subseteq {a}
      BY <1>7 DEF CachesExpire, Update, Remove
    <2>2. \A e \in Endpoints : HasBucket(e)' => bucket'[e] = bucket[e]
      BY <1>7 DEF CachesExpire, Update, Remove, HasBucket, TypeOK
    <2>3. QED
      BY <2>1, <2>2 DEF HasBucket
  <1>8. ASSUME NEW c \in Digested, FlushRead(c) PROVE OnlyCadence(a)'
    <2>1. c = a
      BY <1>8 DEF FlushRead, Ripe
    <2>2. \A d \in Digested \ {a} : flush'[d] = flush[d]
      BY <1>8, <2>1 DEF FlushRead, TypeOK
    <2>3. QED
      BY <1>8, <2>2 DEF FlushRead, requestVars, HasBucket
  <1>9. ASSUME NEW c \in Digested,
               FlushDrop(c) \/ FlushEmit(c) \/ FlushDelete(c) \/ FlushError(c) \/ FlushCrash(c)
        PROVE  OnlyCadence(a)'
    <2>1. c = a
      <3>1. flush[c] # NoFlush
        <4>1. NoFlush.batch = {} /\ NoFlush.emitted = {}
          BY DEF NoFlush
        <4>2. FlushCrash(c) \/ \E s \in flush[c].batch \cup flush[c].emitted : TRUE
          BY <1>9 DEF FlushDrop, FlushEmit, FlushDelete, FlushError
        <4>3. QED
          BY <4>1, <4>2 DEF FlushCrash
      <3>2. QED
        BY <3>1
    <2>2. \A d \in Digested \ {a} : flush'[d] = flush[d]
      <3>1. flush \in [Digested -> [batch : SUBSET Snapshots, emitted : SUBSET Snapshots]]
        BY DEF TypeOK
      <3>2. CASE FlushDrop(c) \/ FlushEmit(c)
        BY <2>1, <3>1, <3>2 DEF FlushDrop, FlushEmit
      <3>3. CASE FlushDelete(c) \/ FlushError(c) \/ FlushCrash(c)
        BY <2>1, <3>1, <3>3 DEF FlushDelete, FlushError, FlushCrash
      <3>4. QED
        BY <1>9, <3>2, <3>3
    <2>3. \A e \in Endpoints : HasBucket(e)' => bucket'[e] = bucket[e]
      <3>1. CASE bucket' = bucket
        BY <3>1
      <3>2. CASE \E s \in Taken(c) : bucket' = Deleted(s)
        BY <3>2, FlushDeletes
      <3>3. FlushDelete(c) => \E s \in Taken(c) : bucket' = Deleted(s)
        BY DEF FlushDelete, Taken
      <3>4. FlushDrop(c) => \E s \in Taken(c) : bucket' = Deleted(s)
        BY DEF FlushDrop, Taken
      <3>5. FlushEmit(c) \/ FlushError(c) \/ FlushCrash(c) => bucket' = bucket
        BY DEF FlushEmit, FlushError, FlushCrash
      <3>6. QED
        BY <1>9, <3>1, <3>2, <3>3, <3>4, <3>5
    <2>4. UNCHANGED <<cadence, recent, sync>>
      BY <1>9 DEF FlushDrop, FlushEmit, FlushDelete, FlushError, FlushCrash, requestVars
    <2>5. QED
      BY <2>2, <2>3, <2>4, FlushDeletes DEF HasBucket
  <1>10. QED
    BY <1>2, <1>3, <1>4, <1>5, <1>6, <1>7, <1>8, <1>9 DEF Next, Sync, Flush, FlushStep, Requests

LEMMA MixedStep ==
  ASSUME TypeOK, Mixed, [Next]_vars
  PROVE  /\ Mixed' /\ Used \in Nat /\ Used' \in {Used, Used + 1}
         /\ Readers' <= Readers \/ \E c \in Cadences : SetCadence(c)
  <1>1. Disturb \/ left' = left
    BY DEF Next, Sync, Persist, Resolve, EmitNow, Emit, Swallow, BufferRead, BufferUpsert, FireError,
           Flush, FlushStep, FlushRead, FlushDrop, FlushEmit, FlushDelete, FlushError, FlushCrash,
           Age, Requests, SetCadence, CachesExpire, Update, Remove, vars
  <1>2. Used \in Nat /\ Used' \in {Used, Used + 1} /\ (Disturb => Used' = Used + 1)
    BY <1>1, UsedSteps
  <1>3. CASE \E c \in Cadences : SetCadence(c)
    BY <1>2, <1>3 DEF SetCadence, Mixed
  <1>4. CASE ~\E c \in Cadences : SetCadence(c)
    <2>1. OneCadence => OneCadence'
      <3>1. CASE Next
        BY <1>4, <3>1, CadenceStays DEF OneCadence
      <3>2. CASE UNCHANGED vars
        BY <3>2 DEF vars, OneCadence, OnlyCadence, HasBucket
      <3>3. QED
        BY <3>1, <3>2
    <2>2. QED
      BY <1>2, <2>1 DEF Mixed, Readers
  <1>5. QED
    BY <1>3, <1>4
-----------------------------------------------------------------------------
One(p) == IF p THEN 1 ELSE 0

(* The emissions of an item still to come out of the bucket of an endpoint,  *)
(* but for crashes and errors: each flush may take up the row that has it;   *)
(* once the row is gone, those that have taken it up.                        *)
Owed(e, i) ==
  IF Holds(e, i) THEN Readers - One(Sent("hourly", e, i)) - One(Sent("daily", e, i))
  ELSE One(Waits("hourly", e, i)) + One(Waits("daily", e, i))

LEMMA FlushesApart ==
  ASSUME OneEach, NEW e \in Endpoints, NEW i \in Items
  PROVE  /\ \A c \in Digested : ~(Waits(c, e, i) /\ Sent(c, e, i))
         /\ OneCadence => \/ ~Waits("hourly", e, i) /\ ~Sent("hourly", e, i)
                          \/ ~Waits("daily", e, i) /\ ~Sent("daily", e, i)
  <1>1. ASSUME NEW c \in Digested, Waits(c, e, i), Sent(c, e, i) PROVE FALSE
    <2>1. PICK s \in flush[c].batch : s.e = e
      BY <1>1 DEF Waits
    <2>2. PICK t \in flush[c].emitted : t.e = e
      BY <1>1 DEF Sent
    <2>3. s = t
      BY <2>1, <2>2 DEF OneEach, Taken
    <2>4. QED
      BY <2>1, <2>2, <2>3 DEF OneEach
  <1>2. ASSUME NEW c \in Digested, flush[c] = NoFlush PROVE ~Waits(c, e, i) /\ ~Sent(c, e, i)
    BY <1>2 DEF Waits, Sent, NoFlush
  <1>3. OneCadence => flush["hourly"] = NoFlush \/ flush["daily"] = NoFlush
    BY DEF OneCadence, OnlyCadence, Digested
  <1>4. QED
    BY <1>1, <1>2, <1>3 DEF Digested

LEMMA OwedShrinks ==
  ASSUME OneEach, NEW e \in Endpoints, NEW i \in Items, Readers' <= Readers,
         Holds(e, i)' => Holds(e, i) /\ \A c \in Digested : Sent(c, e, i) => Sent(c, e, i)',
         ~Holds(e, i)' => \A c \in Digested : Waits(c, e, i)' => Waits(c, e, i)
  PROVE  Owed(e, i)' <= Owed(e, i)
  BY FlushesApart DEF Owed, One, Readers, Digested

(* A fault may make one more necessary. *)
LEMMA OwedFaults ==
  ASSUME OneEach, NEW e \in Endpoints, NEW i \in Items, NEW c \in Digested, Readers' <= Readers,
         Holds(e, i)' => Holds(e, i) /\ \A d \in Digested \ {c} : Sent(d, e, i) => Sent(d, e, i)',
         ~Holds(e, i)' => \A d \in Digested : Waits(d, e, i)' => Waits(d, e, i)
  PROVE  Owed(e, i)' <= Owed(e, i) + 1
  BY FlushesApart DEF Owed, One, Readers, Digested

LEMMA OwedCadence ==
  ASSUME UNCHANGED <<bucket, flush>>, NEW e \in Endpoints, NEW i \in Items
  PROVE  Owed(e, i)' <= Owed(e, i) + 1
  <1>1. Holds(e, i)' = Holds(e, i) /\ \A c \in Digested : Waits(c, e, i)' = Waits(c, e, i) /\ Sent(c, e, i)' = Sent(c, e, i)
    BY DEF Holds, HasBucket, Waits, Sent
  <1>2. QED
    BY <1>1 DEF Owed, One, Readers, Digested

(* An emission is one of those still to come. *)
LEMMA OwedEmits ==
  ASSUME OneEach, NEW e \in Endpoints, NEW i \in Items, NEW c \in Digested, Readers' <= Readers,
         Waits(c, e, i), ~Sent(c, e, i), Sent(c, e, i)', ~Waits(c, e, i)', Holds(e, i)' = Holds(e, i),
         \A d \in Digested \ {c} : Waits(d, e, i)' = Waits(d, e, i) /\ Sent(d, e, i)' = Sent(d, e, i)
  PROVE  Owed(e, i) >= 1 /\ Owed(e, i)' <= Owed(e, i) - 1
  BY FlushesApart DEF Owed, One, Readers, Digested

LEMMA OwedType == ASSUME NEW e, NEW i PROVE Owed(e, i) \in Int
  BY DEF Owed, One, Readers
-----------------------------------------------------------------------------
(* Tickets: each endpoint has one, and another for each disturbance; every    *)
(* emission of the item takes one of the endpoint whose bucket it is from.    *)
Tickets(u) == Endpoints \X (0..u)
Free(W, e, u) == {n \in 0..u : <<e, n>> \notin W}

Ticketed(i) ==
  \E W \in SUBSET Tickets(Used) :
    /\ \A f \in Endpoints : told[f][i] <= Cardinality(W)
    /\ \A e \in Endpoints : Owed(e, i) <= Cardinality(Free(W, e, Used))
    /\ \A e \in Endpoints : Awaits(e, i) => Free(W, e, Used) = 0..Used

LEMMA FreeFinite ==
  ASSUME NEW W, NEW e, NEW u \in Nat
  PROVE  IsFiniteSet(Free(W, e, u)) /\ Cardinality(Free(W, e, u)) \in Nat
  <1>1. Free(W, e, u) \in SUBSET (0..u)
    BY DEF Free
  <1>2. IsFiniteSet(0..u)
    BY FS_Interval
  <1>3. IsFiniteSet(Free(W, e, u))
    BY <1>1, <1>2, FS_Subset
  <1>4. QED
    BY <1>3, FS_CardinalityType

LEMMA TicketsCount ==
  ASSUME NEW u \in Nat, NEW W \in SUBSET Tickets(u)
  PROVE  /\ IsFiniteSet(W) /\ Cardinality(W) \in Nat
         /\ Cardinality(W) <= Cardinality(Endpoints) * (1 + u)
         /\ Cardinality(Endpoints) \in Nat
  <1>1. IsFiniteSet(0..u) /\ Cardinality(0..u) = u + 1
    BY FS_Interval
  <1>2. IsFiniteSet(Endpoints) /\ Cardinality(Endpoints) \in Nat
    BY DigestAssumption, FS_CardinalityType
  <1>3. IsFiniteSet(Tickets(u)) /\ Cardinality(Tickets(u)) = Cardinality(Endpoints) * (1 + u)
    BY <1>1, <1>2, FS_Product DEF Tickets
  <1>4. IsFiniteSet(W) /\ Cardinality(W) <= Cardinality(Tickets(u))
    BY <1>3, FS_Subset
  <1>5. QED
    BY <1>2, <1>3, <1>4, FS_CardinalityType

LEMMA AllFree ==
  ASSUME NEW u \in Nat, NEW W, NEW e, Free(W, e, u) = 0..u
  PROVE  Cardinality(Free(W, e, u)) = 1 + u
  BY FS_Interval

LEMMA MoreFree ==
  ASSUME Used \in Nat, Used' \in {Used, Used + 1}, NEW W \in SUBSET Tickets(Used), NEW e \in Endpoints
  PROVE  /\ Cardinality(Free(W, e, Used')) = Cardinality(Free(W, e, Used)) + (Used' - Used)
         /\ Free(W, e, Used) = 0..Used => Free(W, e, Used') = 0..Used'
  <1>1. Cardinality(Free(W, e, Used)) \in Nat /\ IsFiniteSet(Free(W, e, Used))
    BY FreeFinite
  <1>2. CASE Used' = Used
    BY <1>1, <1>2
  <1>3. CASE Used' = Used + 1
    <2>1. Free(W, e, Used') = Free(W, e, Used) \cup {Used + 1} /\ Used + 1 \notin Free(W, e, Used)
      BY <1>3 DEF Free, Tickets
    <2>2. Cardinality(Free(W, e, Used')) = Cardinality(Free(W, e, Used)) + 1
      BY <1>1, <2>1, FS_AddElement
    <2>3. 0..Used' = 0..Used \cup {Used + 1}
      BY <1>3
    <2>4. Used' - Used = 1
      BY <1>3
    <2>5. Free(W, e, Used) = 0..Used => Free(W, e, Used') = 0..Used'
      BY <2>1, <2>3
    <2>6. QED
      BY <2>2, <2>4, <2>5
  <1>4. QED
    BY <1>2, <1>3

LEMMA MoreTickets == ASSUME NEW u \in Nat, NEW v \in {u, u + 1} PROVE Tickets(u) \subseteq Tickets(v)
  BY DEF Tickets

LEMMA SpendOne ==
  ASSUME NEW u \in Nat, NEW W \in SUBSET Tickets(u), NEW d \in Endpoints, NEW n \in Free(W, d, u)
  PROVE  /\ W \cup {<<d, n>>} \in SUBSET Tickets(u)
         /\ Cardinality(W \cup {<<d, n>>}) = Cardinality(W) + 1
         /\ Cardinality(Free(W \cup {<<d, n>>}, d, u)) = Cardinality(Free(W, d, u)) - 1
         /\ \A e \in Endpoints \ {d} : Free(W \cup {<<d, n>>}, e, u) = Free(W, e, u)
  <1>1. n \in 0..u /\ <<d, n>> \notin W /\ <<d, n>> \in Tickets(u)
    BY DEF Free, Tickets
  <1>2. Cardinality(W \cup {<<d, n>>}) = Cardinality(W) + 1
    BY <1>1, TicketsCount, FS_AddElement
  <1>3. Free(W \cup {<<d, n>>}, d, u) = Free(W, d, u) \ {n}
    BY DEF Free
  <1>4. Cardinality(Free(W \cup {<<d, n>>}, d, u)) = Cardinality(Free(W, d, u)) - 1
    <2>1. PICK S : S = Free(W, d, u)
      OBVIOUS
    <2>2. IsFiniteSet(S) /\ n \in S
      BY <2>1, FreeFinite
    <2>3. Cardinality(S \ {n}) = Cardinality(S) - 1
      BY ONLY <2>2, FS_RemoveElement
    <2>4. QED
      BY <1>3, <2>1, <2>3
  <1>5. \A e \in Endpoints \ {d} : Free(W \cup {<<d, n>>}, e, u) = Free(W, e, u)
    BY DEF Free
  <1>6. QED
    BY <1>1, <1>2, <1>4, <1>5

(* Steps that do not tell the item. *)
LEMMA TicketsKept ==
  ASSUME NEW i \in Items, Ticketed(i), Used \in Nat, Used' \in {Used, Used + 1},
         \A f \in Endpoints : told'[f][i] = told[f][i],
         \A e \in Endpoints : /\ Awaits(e, i)' => Awaits(e, i)
                              /\ \/ Owed(e, i)' <= Owed(e, i) + (Used' - Used)
                                 \/ Awaits(e, i) /\ Owed(e, i)' <= 1 + Used'
  PROVE  Ticketed(i)'
  <1>1. PICK W \in SUBSET Tickets(Used) :
          /\ \A f \in Endpoints : told[f][i] <= Cardinality(W)
          /\ \A e \in Endpoints : Owed(e, i) <= Cardinality(Free(W, e, Used))
          /\ \A e \in Endpoints : Awaits(e, i) => Free(W, e, Used) = 0..Used
    BY DEF Ticketed
  <1>2. ASSUME NEW e \in Endpoints
        PROVE  /\ Owed(e, i)' <= Cardinality(Free(W, e, Used'))
               /\ Awaits(e, i)' => Free(W, e, Used') = 0..Used'
    <2>1. /\ Cardinality(Free(W, e, Used')) = Cardinality(Free(W, e, Used)) + (Used' - Used)
          /\ Cardinality(Free(W, e, Used)) \in Nat
          /\ Free(W, e, Used) = 0..Used => Free(W, e, Used') = 0..Used'
      BY MoreFree, FreeFinite
    <2>2. Owed(e, i) \in Int /\ Owed(e, i)' \in Int
      BY DEF Owed, One, Readers
    <2>3. CASE Owed(e, i)' <= Owed(e, i) + (Used' - Used)
      BY <1>1, <2>1, <2>2, <2>3
    <2>4. CASE Awaits(e, i) /\ Owed(e, i)' <= 1 + Used'
      <3>1. Free(W, e, Used') = 0..Used'
        BY <1>1, <2>1, <2>4
      <3>2. Cardinality(Free(W, e, Used')) = 1 + Used'
        BY <3>1, AllFree
      <3>3. QED
        BY <2>4, <3>1, <3>2
    <2>5. QED
      BY <1>1, <2>1, <2>3, <2>4
  <1>3. \A f \in Endpoints : told'[f][i] <= Cardinality(W)
    BY <1>1
  <1>4. W \in SUBSET Tickets(Used')
    BY <1>1, MoreTickets
  <1>5. QED
    BY <1>2, <1>3, <1>4 DEF Ticketed

(* Steps that tell it once more, out of the bucket of d. *)
LEMMA TicketSpent ==
  ASSUME NEW i \in Items, Ticketed(i), Used \in Nat, Used' \in {Used, Used + 1},
         \A f \in Endpoints : told[f][i] \in Nat /\ told'[f][i] \in Nat /\ told'[f][i] <= told[f][i] + 1,
         NEW d \in Endpoints, Owed(d, i) >= 1, ~Awaits(d, i),
         Owed(d, i)' <= Owed(d, i) - 1 + (Used' - Used),
         \A e \in Endpoints : Awaits(e, i)' => Awaits(e, i),
         \A e \in Endpoints \ {d} : Owed(e, i)' <= Owed(e, i) + (Used' - Used)
  PROVE  Ticketed(i)'
  <1>1. PICK W \in SUBSET Tickets(Used) :
          /\ \A f \in Endpoints : told[f][i] <= Cardinality(W)
          /\ \A e \in Endpoints : Owed(e, i) <= Cardinality(Free(W, e, Used))
          /\ \A e \in Endpoints : Awaits(e, i) => Free(W, e, Used) = 0..Used
    BY DEF Ticketed
  <1>2. PICK n \in Free(W, d, Used) : TRUE
    <2>1. Cardinality(Free(W, d, Used)) # 0
      BY <1>1, OwedType, FreeFinite
    <2>2. QED
      BY <2>1, FS_EmptySet
  <1> DEFINE V == W \cup {<<d, n>>}
  <1>3. /\ V \in SUBSET Tickets(Used) /\ Cardinality(V) = Cardinality(W) + 1
        /\ Cardinality(Free(V, d, Used)) = Cardinality(Free(W, d, Used)) - 1
        /\ \A e \in Endpoints \ {d} : Free(V, e, Used) = Free(W, e, Used)
    BY SpendOne
  <1> HIDE DEF V
  <1>4. \A f \in Endpoints : told'[f][i] <= Cardinality(V)
    <2>1. Cardinality(W) \in Nat /\ Cardinality(V) = Cardinality(W) + 1
      BY <1>3, TicketsCount
    <2>2. ASSUME NEW f \in Endpoints PROVE told'[f][i] <= Cardinality(V)
      <3>1. told[f][i] <= Cardinality(W)
        BY <1>1
      <3>2. told[f][i] \in Nat /\ told'[f][i] \in Nat /\ told'[f][i] <= told[f][i] + 1
        OBVIOUS
      <3>3. QED
        BY <2>1, <3>1, <3>2
    <2>3. QED
      BY <2>2
  <1>5. ASSUME NEW e \in Endpoints
        PROVE  /\ Owed(e, i)' <= Cardinality(Free(V, e, Used'))
               /\ Awaits(e, i)' => Free(V, e, Used') = 0..Used'
    <2>1. /\ Cardinality(Free(V, e, Used')) = Cardinality(Free(V, e, Used)) + (Used' - Used)
          /\ Cardinality(Free(V, e, Used)) \in Nat /\ Cardinality(Free(W, e, Used)) \in Nat
          /\ Free(V, e, Used) = 0..Used => Free(V, e, Used') = 0..Used'
      <3>1. V \in SUBSET Tickets(Used)
        BY <1>3
      <3>2. Cardinality(Free(V, e, Used)) \in Nat /\ Cardinality(Free(W, e, Used)) \in Nat
        BY FreeFinite
      <3>3. /\ Cardinality(Free(V, e, Used')) = Cardinality(Free(V, e, Used)) + (Used' - Used)
            /\ Free(V, e, Used) = 0..Used => Free(V, e, Used') = 0..Used'
        BY <3>1, MoreFree
      <3>4. QED
        BY <3>2, <3>3
    <2>2. Owed(e, i) \in Int /\ Owed(e, i)' \in Int
      BY DEF Owed, One, Readers
    <2>3. CASE e = d
      BY <1>1, <1>3, <2>1, <2>2, <2>3
    <2>4. CASE e # d
      BY <1>1, <1>3, <2>1, <2>2, <2>4
    <2>5. QED
      BY <2>3, <2>4
  <1>6. V \in SUBSET Tickets(Used')
    BY <1>3, MoreTickets
  <1>7. QED
    BY <1>4, <1>5, <1>6 DEF Ticketed
-----------------------------------------------------------------------------
BoundInv == Sorted /\ Mixed /\ \A i \in Items : Ticketed(i)

(* A step, and what MixedStep says of it. *)
BoundStep ==
  /\ ConservationInv /\ BoundInv /\ TypeOK'
  /\ Used \in Nat /\ Used' \in {Used, Used + 1}

(* Steps that neither tell nor count the item, nor touch a flush. *)
LEMMA QuietTickets ==
  ASSUME BoundStep, NEW i \in Items, UNCHANGED flush,
         \A e \in Endpoints : told'[e][i] = told[e][i] /\ (Awaits(e, i)' => Awaits(e, i)) /\ (Holds(e, i)' => Holds(e, i)),
         Readers' <= Readers \/ (UNCHANGED bucket /\ Used' = Used + 1)
  PROVE  Ticketed(i)'
  <1>1. ASSUME NEW e \in Endpoints PROVE Owed(e, i)' <= Owed(e, i) + (Used' - Used)
    <2>1. \A c \in Digested : Waits(c, e, i)' = Waits(c, e, i) /\ Sent(c, e, i)' = Sent(c, e, i)
      BY DEF Waits, Sent
    <2>2. Readers' <= Readers => Owed(e, i)' <= Owed(e, i)
      BY <2>1, OwedShrinks DEF BoundStep, BoundInv, Sorted
    <2>3. UNCHANGED bucket => Owed(e, i)' <= Owed(e, i) + 1
      BY OwedCadence
    <2>4. Owed(e, i) \in Int /\ Owed(e, i)' \in Int
      BY DEF Owed, One, Readers
    <2>5. QED
      BY <2>2, <2>3, <2>4 DEF BoundStep
  <1>2. QED
    BY <1>1, TicketsKept DEF BoundStep, BoundInv

LEMMA PersistTickets ==
  ASSUME BoundStep, Readers' <= Readers, NEW S \in SUBSET Items, Persist(S), NEW i \in Items
  PROVE  Ticketed(i)'
  <1>1. S \cap stored = {} /\ sync'.new = S /\ UNCHANGED <<bucket, flush, told>>
    BY DEF Persist
  <1>2. CASE i \notin S
    BY <1>1, <1>2, QuietTickets DEF Holds, HasBucket, Awaits
  <1>3. CASE i \in S
    <2>1. \A e \in Endpoints : ~Holds(e, i)' /\ \A c \in Digested : ~Waits(c, e, i)'
      BY <1>1, <1>3 DEF BoundStep, BoundInv, Sorted, ItemsKnown, Holds, HasBucket, Waits, Taken
    <2>2. \A e \in Endpoints : Owed(e, i)' = 0
      BY <2>1 DEF Owed, One, Digested
    <2>3. \A f \in Endpoints : told'[f][i] = 0
      BY <1>1, <1>3 DEF BoundStep, BoundInv, Sorted, ItemsKnown
    <2>4. \A e \in Endpoints : Free({}, e, Used') = 0..Used'
      BY DEF Free
    <2>5. \A e \in Endpoints : Cardinality(Free({}, e, Used')) \in Nat
      BY FreeFinite DEF BoundStep
    <2>6. Cardinality({}) = 0 /\ {} \in SUBSET Tickets(Used')
      BY FS_EmptySet
    <2>7. /\ \A f \in Endpoints : told'[f][i] <= Cardinality({})
          /\ \A e \in Endpoints : Owed(e, i)' <= Cardinality(Free({}, e, Used'))
      BY <2>2, <2>3, <2>5, <2>6
    <2>8. QED
      BY <2>4, <2>6, <2>7 DEF Ticketed
  <1>4. QED
    BY <1>2, <1>3

(* An immediate emission takes any ticket: nothing else is on its way. *)
LEMMA EmitNowTickets ==
  ASSUME BoundStep, Readers' <= Readers, EmitNow, NEW i \in Items
  PROVE  Ticketed(i)'
  <1>1. /\ sync.stage = "emit" /\ sync # NoSync /\ sync' = NoSync /\ UNCHANGED <<bucket, flush>>
        /\ Tells(sync.new) /\ ConservationInv
    BY EmitTells DEF EmitNow, NoSync, BoundStep, ConservationInv
  <1>2. CASE i \notin sync.new
    BY <1>1, <1>2, QuietTickets DEF Tells, Holds, HasBucket, Awaits
  <1>3. CASE i \in sync.new
    <2>1. \A e \in Endpoints : Awaits(e, i)
      BY <1>1, <1>3 DEF Awaits, Expects
    <2>2. \A e \in Endpoints : ~Holds(e, i)' /\ (\A c \in Digested : ~Waits(c, e, i)') /\ ~Awaits(e, i)'
      BY <1>1, <2>1 DEF BoundStep, BoundInv, Sorted, AwaitedFresh, Holds, HasBucket, Waits, Awaits
    <2>3. \A e \in Endpoints : Owed(e, i)' = 0
      BY <2>2 DEF Owed, One, Digested
    <2>4. PICK W \in SUBSET Tickets(Used) :
            /\ \A f \in Endpoints : told[f][i] <= Cardinality(W)
            /\ \A e \in Endpoints : Free(W, e, Used) = 0..Used
      BY <2>1 DEF BoundStep, BoundInv, Ticketed
    <2>5. W = {}
      BY <2>4 DEF Free, Tickets
    <2>6. \A f \in Endpoints : told[f][i] \in Nat /\ told[f][i] <= 0 /\ told'[f][i] <= told[f][i] + 1
      BY <1>1, <2>4, <2>5, FS_EmptySet DEF Tells
    <2>7. \A V : \A e \in Endpoints : Cardinality(Free(V, e, Used')) \in Nat
      BY FreeFinite DEF BoundStep
    <2>8. CASE Endpoints = {}
      BY <2>8 DEF Ticketed
    <2>9. ASSUME NEW d \in Endpoints PROVE Ticketed(i)'
      <3>1. {<<d, 0>>} \in SUBSET Tickets(Used')
        BY DEF Tickets, BoundStep
      <3>2. Cardinality({<<d, 0>>}) = 1
        BY FS_Singleton
      <3>3. \A f \in Endpoints : told'[f][i] <= 1
        <4>1. \A f \in Endpoints : told'[f][i] \in Nat
          BY DEF BoundStep, TypeOK
        <4>2. QED
          BY <2>6, <4>1
      <3>4. \A e \in Endpoints : Owed(e, i)' <= Cardinality(Free({<<d, 0>>}, e, Used'))
        BY <2>3, <2>7
      <3>5. QED
        BY <2>2, <3>1, <3>2, <3>3, <3>4 DEF Ticketed
    <2>10. QED
      BY <2>8, <2>9
  <1>4. QED
    BY <1>2, <1>3

(* Counting an item gives out the tickets of the endpoint. *)
LEMMA UpsertTickets ==
  ASSUME BoundStep, Mixed', Readers' <= Readers, NEW d \in Endpoints, BufferUpsert(d), NEW i \in Items
  PROVE  Ticketed(i)'
  <1>1. UNCHANGED <<flush, told>> /\ ConservationInv
    BY DEF BufferUpsert, BoundStep
  <1>2. \A e \in Endpoints : Awaits(e, i)' => Awaits(e, i)
    BY <1>1, SyncNarrows
  <1>3. CASE i \notin sync.new
    BY <1>1, <1>2, <1>3, UpsertHolds, QuietTickets
  <1>4. CASE i \in sync.new
    <2>1. Awaits(d, i) /\ ~Awaits(d, i)'
      BY <1>1, <1>4, UpsertHolds
    <2>2. \A c \in Digested : \A e \in Endpoints : Waits(c, e, i)' = Waits(c, e, i) /\ Sent(c, e, i)' = Sent(c, e, i)
      BY <1>1 DEF Waits, Sent
    <2>3. Holds(d, i)' /\ \A c \in Digested : ~Sent(c, d, i)'
      BY <1>1, <1>4, <2>1, <2>2, UpsertHolds DEF BoundStep, BoundInv, Sorted, AwaitedFresh
    <2>4. Owed(d, i)' <= 1 + Used'
      <3>1. Used' \in Nat /\ (OneCadence' \/ Used' >= 1)
        BY DEF Mixed, BoundStep
      <3>2. ~Sent("hourly", d, i)' /\ ~Sent("daily", d, i)' /\ Holds(d, i)'
        BY <2>3 DEF Digested
      <3>3. (OneCadence' => Owed(d, i)' = 1) /\ (~OneCadence' => Owed(d, i)' = 2)
        BY <3>2 DEF Owed, One, Readers
      <3>4. QED
        BY <3>1, <3>3
    <2>5. ASSUME NEW e \in Endpoints \ {d} PROVE Owed(e, i)' <= Owed(e, i) + (Used' - Used)
      <3>1. Holds(e, i)' <=> Holds(e, i)
        BY <1>1, <2>5, UpsertHolds
      <3>2. Owed(e, i)' <= Owed(e, i) /\ Owed(e, i) \in Int /\ Owed(e, i)' \in Int
        <4>1. Owed(e, i)' <= Owed(e, i)
          BY <2>2, <3>1, OwedShrinks DEF BoundStep, BoundInv, Sorted
        <4>2. QED
          BY <4>1 DEF Owed, One, Readers
      <3>3. QED
        BY <3>2 DEF BoundStep
    <2>6. QED
      BY <1>1, <1>2, <2>1, <2>4, <2>5, TicketsKept DEF BoundStep, BoundInv
  <1>5. QED
    BY <1>3, <1>4
-----------------------------------------------------------------------------
(* Steps of a flush by which no endpoint comes to owe more, or by a fault one. *)
LEMMA FlushTickets ==
  ASSUME BoundStep, NEW i \in Items, UNCHANGED sync, \A f \in Endpoints : told'[f][i] = told[f][i],
         \/ \A e \in Endpoints : Owed(e, i)' <= Owed(e, i)
         \/ Used' = Used + 1 /\ \A e \in Endpoints : Owed(e, i)' <= Owed(e, i) + 1
  PROVE  Ticketed(i)'
  <1>1. \A e \in Endpoints : Awaits(e, i)' => Awaits(e, i)
    BY DEF Awaits, Expects
  <1>2. ASSUME NEW e \in Endpoints PROVE Owed(e, i)' <= Owed(e, i) + (Used' - Used)
    <2>1. Owed(e, i) \in Int /\ Owed(e, i)' \in Int
      BY DEF Owed, One, Readers
    <2>2. QED
      BY <2>1 DEF BoundStep
  <1>3. QED
    BY <1>1, <1>2, TicketsKept DEF BoundStep, BoundInv

LEMMA FlushReadTickets ==
  ASSUME BoundStep, Readers' <= Readers, NEW c \in Digested, FlushRead(c), NEW i \in Items
  PROVE  Ticketed(i)'
  <1>1. ConservationInv /\ Sorted /\ UNCHANGED <<sync, told>>
    BY DEF BoundStep, BoundInv, FlushRead
  <1>2. \A e \in Endpoints : Owed(e, i)' <= Owed(e, i)
    <2> SUFFICES ASSUME NEW e \in Endpoints PROVE Owed(e, i)' <= Owed(e, i)
      OBVIOUS
    <2>1. /\ Holds(e, i)' = Holds(e, i)
          /\ \A d \in Digested : Sent(d, e, i)' = Sent(d, e, i) /\ (Waits(d, e, i)' => Waits(d, e, i) \/ Holds(e, i))
      BY <1>1, FlushReadSorted
    <2>2. QED
      BY <1>1, <2>1, OwedShrinks DEF Sorted
  <1>3. QED
    BY <1>1, <1>2, FlushTickets

(* The flush that has an item in hand is about to emit it, as is expected. *)
LEMMA OwedSome ==
  ASSUME OneEach, NEW e \in Endpoints, NEW i \in Items, NEW c \in Digested, Waits(c, e, i)
  PROVE  Owed(e, i) >= 1
  BY FlushesApart DEF Owed, One, Readers, Digested

LEMMA FlushEmitTickets ==
  ASSUME BoundStep, Readers' <= Readers, NEW c \in Digested, FlushEmit(c), NEW i \in Items
  PROVE  Ticketed(i)'
  <1>1. TypeOK /\ Sorted /\ OneEach /\ UNCHANGED <<sync, bucket>> /\ flush[c].emitted = {}
    BY DEF BoundStep, BoundInv, ConservationInv, Sorted, FlushEmit
  <1>2. PICK s \in flush[c].batch :
          /\ Emit(s.bucket.items)
          /\ flush' = [flush EXCEPT ![c].batch = @ \ {s}, ![c].emitted = {s}]
    BY DEF FlushEmit
  <1>3. /\ flush'[c].batch = flush[c].batch \ {s} /\ flush'[c].emitted = {s}
        /\ \A d \in Digested \ {c} : flush'[d] = flush[d]
    BY <1>1, <1>2 DEF TypeOK
  <1>4. Tells(s.bucket.items) /\ s.e \in Endpoints
    BY <1>1, <1>2, EmitTells, TakenShape DEF Taken
  <1>5. \A e \in Endpoints : /\ Holds(e, i)' = Holds(e, i)
                             /\ \A d \in Digested : Waits(d, e, i)' => Waits(d, e, i)
                             /\ \A d \in Digested \ {c} : Waits(d, e, i)' = Waits(d, e, i) /\ Sent(d, e, i)' = Sent(d, e, i)
                             /\ ~Sent(c, e, i)
    BY <1>1, <1>3 DEF Holds, HasBucket, Waits, Sent
  <1>6. \A e \in Endpoints : Owed(e, i)' <= Owed(e, i)
    BY <1>1, <1>5, OwedShrinks
  <1>7. CASE i \notin s.bucket.items
    BY <1>1, <1>4, <1>6, <1>7, FlushTickets DEF Tells
  <1>8. CASE i \in s.bucket.items
    <2>1. Waits(c, s.e, i) /\ Sent(c, s.e, i)'
      BY <1>3, <1>8 DEF Waits, Sent
    <2>2. ~Waits(c, s.e, i)'
      BY <1>1, <1>3 DEF Waits, OneEach, Taken
    <2>3. Owed(s.e, i) >= 1 /\ Owed(s.e, i)' <= Owed(s.e, i) - 1
      BY <1>1, <1>4, <1>5, <2>1, <2>2, OwedEmits
    <2>4. ~Awaits(s.e, i) /\ \A e \in Endpoints : Awaits(e, i)' => Awaits(e, i)
      BY <1>1, <1>4, <2>1 DEF Sorted, AwaitedFresh, Awaits, Expects
    <2>5. \A f \in Endpoints : told[f][i] \in Nat /\ told'[f][i] \in Nat /\ told'[f][i] <= told[f][i] + 1
      BY <1>4 DEF Tells, BoundStep, TypeOK
    <2>6. ASSUME NEW e \in Endpoints
          PROVE  /\ Owed(e, i)' <= Owed(e, i) + (Used' - Used)
                 /\ Owed(s.e, i)' <= Owed(s.e, i) - 1 + (Used' - Used)
      <3>1. Owed(e, i) \in Int /\ Owed(e, i)' \in Int /\ Owed(s.e, i) \in Int /\ Owed(s.e, i)' \in Int
        BY DEF Owed, One, Readers
      <3>2. QED
        BY <1>6, <2>3, <3>1 DEF BoundStep
    <2>7. QED
      BY <1>4, <2>3, <2>4, <2>5, <2>6, TicketSpent DEF BoundStep, BoundInv
  <1>9. QED
    BY <1>7, <1>8

LEMMA FlushGoneTickets ==
  ASSUME BoundStep, Readers' <= Readers, NEW c \in Digested, FlushDrop(c) \/ FlushDelete(c), NEW i \in Items
  PROVE  Ticketed(i)'
  <1>1. TypeOK /\ Sorted /\ OneEach /\ UNCHANGED <<sync, told>>
    BY DEF BoundStep, BoundInv, ConservationInv, Sorted, FlushDrop, FlushDelete
  <1>2. PICK s \in Taken(c) : bucket' = Deleted(s) /\ (FlushDelete(c) => s \in flush[c].emitted)
    BY DEF FlushDrop, FlushDelete, Taken
  <1>3. /\ \A d \in Digested \ {c} : flush'[d] = flush[d]
        /\ \A d \in Digested : flush'[d].batch \subseteq flush[d].batch
    BY <1>1, FlushTakes
  <1>4. ASSUME NEW e \in Endpoints PROVE Owed(e, i)' <= Owed(e, i)
    <2>1. \A d \in Digested : Waits(d, e, i)' => Waits(d, e, i)
      BY <1>3 DEF Waits
    <2>2. Holds(e, i)' => Holds(e, i)
      BY <1>1, <1>2, FlushDeletes DEF Holds
    <2>3. ASSUME Holds(e, i)', NEW d \in Digested, Sent(d, e, i) PROVE Sent(d, e, i)'
      <3>1. CASE d # c
        BY <1>3, <2>3, <3>1 DEF Sent
      <3>2. CASE d = c /\ FlushDrop(c)
        <4>1. flush'[c].emitted = flush[c].emitted
          BY <1>1, <3>2 DEF FlushDrop, TypeOK
        <4>2. QED
          BY <2>3, <3>2, <4>1 DEF Sent
      <3>3. CASE d = c /\ FlushDelete(c)
        <4>1. s.e = e /\ i \in s.bucket.items
          BY <1>1, <1>2, <2>3, <3>3 DEF Sent, OneEach
        <4>2. SameBucket(s)
          BY <1>1, <1>2, <2>2, <2>3, <4>1 DEF Sorted, SameAsHeld
        <4>3. ~HasBucket(e)'
          BY <1>1, <1>2, <4>1, <4>2, FlushDeletes
        <4>4. QED
          BY <2>3, <4>3 DEF Holds
      <3>4. QED
        BY <3>1, <3>2, <3>3
    <2>4. QED
      BY <1>1, <2>1, <2>2, <2>3, OwedShrinks
  <1>5. QED
    BY <1>1, <1>4, FlushTickets

LEMMA FlushFaultTickets ==
  ASSUME BoundStep, Readers' <= Readers, NEW c \in Digested, FlushError(c) \/ FlushCrash(c), NEW i \in Items
  PROVE  Ticketed(i)'
  <1>1. TypeOK /\ Sorted /\ OneEach /\ UNCHANGED <<sync, bucket>> /\ Disturb
    BY DEF BoundStep, BoundInv, ConservationInv, Sorted, FlushError, FlushCrash
  <1>2. Used' = Used + 1
    BY <1>1, UsedSteps
  <1>3. /\ \A d \in Digested \ {c} : flush'[d] = flush[d]
        /\ \A d \in Digested : flush'[d].batch \subseteq flush[d].batch
    BY <1>1, FlushTakes
  <1>4. \A e \in Endpoints : /\ Holds(e, i)' = Holds(e, i)
                             /\ \A d \in Digested : Waits(d, e, i)' => Waits(d, e, i)
                             /\ \A d \in Digested \ {c} : Sent(d, e, i)' = Sent(d, e, i)
    BY <1>1, <1>3 DEF Holds, HasBucket, Waits, Sent
  <1>5. \A e \in Endpoints : Owed(e, i)' <= Owed(e, i) + 1
    BY <1>1, <1>4, OwedFaults
  <1>6. CASE \A f \in Endpoints : told'[f][i] = told[f][i]
    BY <1>1, <1>2, <1>5, <1>6, FlushTickets
  <1>7. ASSUME NEW s \in flush[c].batch, flush[c].emitted = {}, Tells(s.bucket.items), i \in s.bucket.items
        PROVE  Ticketed(i)'
    <2>1. s.e \in Endpoints /\ Waits(c, s.e, i)
      BY <1>1, <1>7, TakenShape DEF Taken, Waits
    <2>2. Owed(s.e, i) >= 1
      BY <1>1, <2>1, OwedSome
    <2>3. \A e \in Endpoints : ~Sent(c, e, i)
      BY <1>7 DEF Sent
    <2>4. \A e \in Endpoints : Owed(e, i)' <= Owed(e, i)
      BY <1>1, <1>4, <2>3, OwedShrinks
    <2>5. ~Awaits(s.e, i) /\ \A e \in Endpoints : Awaits(e, i)' => Awaits(e, i)
      BY <1>1, <2>1 DEF Sorted, AwaitedFresh, Awaits, Expects
    <2>6. \A f \in Endpoints : told[f][i] \in Nat /\ told'[f][i] \in Nat /\ told'[f][i] <= told[f][i] + 1
      BY <1>7 DEF Tells, BoundStep, TypeOK
    <2>7. ASSUME NEW e \in Endpoints
          PROVE  /\ Owed(e, i)' <= Owed(e, i) + (Used' - Used)
                 /\ Owed(s.e, i)' <= Owed(s.e, i) - 1 + (Used' - Used)
      <3>1. Owed(e, i) \in Int /\ Owed(e, i)' \in Int /\ Owed(s.e, i) \in Int /\ Owed(s.e, i)' \in Int
        BY DEF Owed, One, Readers
      <3>2. Used' - Used = 1
        BY <1>2 DEF BoundStep
      <3>3. QED
        BY <2>1, <2>4, <3>1, <3>2
    <2>8. QED
      BY <2>1, <2>2, <2>5, <2>6, <2>7, TicketSpent DEF BoundStep, BoundInv
  <1>8. CASE FlushError(c)
    BY <1>6, <1>8 DEF FlushError
  <1>9. CASE FlushCrash(c)
    <2>1. CASE UNCHANGED told
      BY <1>6, <2>1
    <2>2. ASSUME NEW s \in flush[c].batch, flush[c].emitted = {}, NEW T, Tell(T, s.bucket.items)
          PROVE  Ticketed(i)'
      <3>1. Tells(s.bucket.items)
        BY <1>1, <2>2, TellTells
      <3>2. QED
        BY <1>6, <1>7, <2>2, <3>1 DEF Tells
    <2>3. QED
      BY <1>9, <2>1, <2>2 DEF FlushCrash
  <1>10. QED
    BY <1>8, <1>9

(* The other steps. *)
LEMMA OtherTickets ==
  ASSUME BoundStep, NEW i \in Items, Disturb => Used' = Used + 1,
         Readers' <= Readers \/ \E c \in Cadences : SetCadence(c),
         \/ FireError \/ Requests \/ UNCHANGED vars \/ \E e \in Endpoints : Age(e) \/ BufferRead(e)
         \/ \E c \in Cadences : Resolve(c)
  PROVE  Ticketed(i)'
  <1>1. ConservationInv /\ TypeOK /\ UNCHANGED <<flush, told>>
    BY DEF BoundStep, ConservationInv, FireError, Requests, SetCadence, CachesExpire, Update, Remove, Age, BufferRead,
       Resolve, vars
  <1>2. CASE \E c \in Cadences : SetCadence(c)
    BY <1>1, <1>2, QuietTickets DEF SetCadence, Holds, HasBucket, Awaits, Expects
  <1>3. \A e \in Endpoints : Awaits(e, i)' => Awaits(e, i)
    <2>1. CASE UNCHANGED sync \/ sync' = NoSync
      BY <2>1 DEF Awaits, Expects
    <2>2. CASE (\E e \in Endpoints : BufferRead(e)) \/ (\E c \in Cadences : Resolve(c))
      BY <1>1, <2>2, SyncNarrows
    <2>3. QED
      BY <2>1, <2>2 DEF FireError, Requests, SetCadence, CachesExpire, Update, Remove, Age, vars
  <1>4. \A e \in Endpoints : Holds(e, i)' => Holds(e, i)
    <2>1. CASE UNCHANGED bucket
      BY <2>1 DEF Holds, HasBucket
    <2>2. ASSUME NEW d \in Endpoints, Age(d) PROVE \A e \in Endpoints : Holds(e, i)' => Holds(e, i)
      <3>1. bucket[d] \in Buckets /\ HasBucket(d)
        BY <1>1, <2>2 DEF Age, HasBucket, TypeOK
      <3>2. bucket'[d].items = bucket[d].items /\ \A e \in Endpoints \ {d} : bucket'[e] = bucket[e]
        BY <1>1, <2>2, <3>1 DEF Age, TypeOK, Buckets
      <3>3. QED
        BY <3>1, <3>2 DEF Holds, HasBucket
    <2>3. ASSUME NEW d \in Endpoints, Remove(d) PROVE \A e \in Endpoints : Holds(e, i)' => Holds(e, i)
      BY <1>1, <2>3 DEF Remove, Holds, HasBucket, TypeOK
    <2>4. QED
      BY <2>1, <2>2, <2>3 DEF FireError, Requests, SetCadence, CachesExpire, Update, BufferRead, Resolve, vars
  <1>5. QED
    BY <1>1, <1>2, <1>3, <1>4, QuietTickets

(* Crashes and failed deletes repeat digests, but only so often: an item is   *)
(* told to an endpoint at most once per bucket, and once more per bucket for  *)
(* each disturbance, whatever the cadence was when: for any number of items   *)
(* and endpoints, any batch size and any bound on the disturbances.           *)
THEOREM DigestsLimited == Spec => []DigestsBounded
  <1>1. Init => BoundInv
    <2> SUFFICES ASSUME Init PROVE BoundInv
      OBVIOUS
    <2>1. /\ \A e \in Endpoints : ~HasBucket(e) /\ \A i \in Items : told[e][i] = 0
          /\ \A c \in Digested : flush[c] = NoFlush /\ Taken(c) = {}
          /\ sync = NoSync /\ Used = 0
      BY DigestAssumption DEF Init, HasBucket, NoFlush, Taken, Used
    <2>2. Sorted
      BY <2>1 DEF Sorted, ItemsKnown, AwaitedFresh, Awaits, OneEach, SameAsHeld, NoFlush
    <2>3. Mixed
      BY <2>1 DEF Init, Mixed, OneCadence, OnlyCadence, NoSync
    <2>4. ASSUME NEW i \in Items PROVE Ticketed(i)
      <3>1. \A e \in Endpoints : Owed(e, i) = 0 /\ ~Awaits(e, i)
        BY <2>1 DEF Owed, One, Holds, Waits, NoFlush, Awaits, Digested
      <3>2. \A e \in Endpoints : Cardinality(Free({}, e, Used)) \in Nat
        BY <2>1, FreeFinite
      <3>3. Cardinality({}) = 0 /\ {} \in SUBSET Tickets(Used)
        BY FS_EmptySet
      <3>4. QED
        BY <2>1, <3>1, <3>2, <3>3 DEF Ticketed
    <2>5. QED
      BY <2>2, <2>3, <2>4 DEF BoundInv
  <1>2. ASSUME ConservationInv, TypeOK', BoundInv, [Next]_vars PROVE BoundInv'
    <2>1. /\ TypeOK /\ Sorted /\ Mixed' /\ Used \in Nat /\ Used' \in {Used, Used + 1}
          /\ Readers' <= Readers \/ \E c \in Cadences : SetCadence(c)
      BY <1>2, MixedStep DEF ConservationInv, BoundInv
    <2>2. BoundStep /\ (Disturb => Used' = Used + 1)
      BY <1>2, <2>1, UsedSteps DEF BoundStep
    <2>3. Sorted'
      <3>1. CASE UNCHANGED vars
        BY <2>1, <3>1 DEF vars, Sorted, ItemsKnown, AwaitedFresh, OneEach, SameAsHeld, Awaits, Expects, Holds, Waits, Sent,
           Taken, SameBucket, HasBucket
      <3>2. QED
        BY <1>2, <2>1, <3>1, PersistSorted, UpsertSorted, FlushReadSorted, FlushStepSorted, OtherSorted
           DEF Next, Sync, Flush, FlushStep
    <2>4. ASSUME NEW i \in Items PROVE Ticketed(i)'
      <3>1. CASE \E c \in Cadences : SetCadence(c)
        BY <2>2, <3>1, OtherTickets DEF Requests
      <3>2. CASE ~\E c \in Cadences : SetCadence(c)
        BY <1>2, <2>1, <2>2, <3>2, PersistTickets, EmitNowTickets, UpsertTickets, FlushReadTickets, FlushEmitTickets,
           FlushGoneTickets, FlushFaultTickets, OtherTickets DEF Next, Sync, Flush, FlushStep
      <3>3. QED
        BY <3>1, <3>2
    <2>5. QED
      BY <2>1, <2>3, <2>4 DEF BoundInv
  <1>3. ASSUME TypeOK, BoundInv PROVE DigestsBounded
    <2> SUFFICES ASSUME NEW e \in Endpoints, NEW i \in Items
                 PROVE  told[e][i] <= Cardinality(Endpoints) * (1 + Used)
      BY DEF DigestsBounded
    <2>1. Used \in Nat
      BY <1>3, DigestAssumption DEF TypeOK, Used
    <2>2. PICK W \in SUBSET Tickets(Used) : told[e][i] <= Cardinality(W)
      BY <1>3 DEF BoundInv, Ticketed
    <2>3. Cardinality(W) \in Nat /\ Cardinality(W) <= Cardinality(Endpoints) * (1 + Used) /\ Cardinality(Endpoints) \in Nat
      BY <2>1, <2>2, TicketsCount
    <2>4. told[e][i] \in Nat
      BY <1>3 DEF TypeOK
    <2>5. Cardinality(Endpoints) * (1 + Used) \in Nat
      BY <2>1, <2>3
    <2>6. QED
      BY <2>2, <2>3, <2>4, <2>5
  <1>4. ConservationInv => TypeOK
    BY DEF ConservationInv
  <1>5. QED
    BY <1>1, <1>2, <1>3, <1>4, ConservationHolds, PTL DEF Spec
-----------------------------------------------------------------------------
At(k, stage) == Busy(k) /\ hand[k].at = stage

LEMMA VersionsNat == Versions \subseteq Nat
  BY ContentAssumption DEF Versions

(* What is in hand of a product, by its stage. *)
LEMMA InHand ==
  ASSUME StoreTypeOK, NEW k \in Products, Busy(k)
  PROVE  /\ hand[k] \in Hands
         /\ DOMAIN hand[k].got \subseteq Posts
         /\ hand[k].got \in [DOMAIN hand[k].got -> Versions]
         /\ hand[k].at \in {"fetched", "fold", "write"}
  <1>1. hand[k] \in Hands
    BY DEF StoreTypeOK, Busy
  <1>2. hand[k].got \in Fetched /\ hand[k].at \in {"fetched", "fold", "write"}
    BY <1>1 DEF Hands
  <1>3. PICK S \in SUBSET Posts : hand[k].got \in [S -> Versions]
    BY <1>2 DEF Fetched
  <1>4. QED
    BY <1>1, <1>2, <1>3

LEMMA InWrite ==
  ASSUME StoreTypeOK, NEW k \in Products, At(k, "write")
  PROVE  /\ k \in Feeds
         /\ hand[k] \in [at : {"write"}, got : Fetched, prev : ReadBack, added : BOOLEAN,
                         updated : BOOLEAN, alone : BOOLEAN, effect : BOOLEAN]
         /\ hand[k].prev \in [DOMAIN hand[k].got -> Documents]
  <1>1. k \in Feeds
    BY DEF StoreTypeOK, At, Products
  <1>2. hand[k] \in Hands
    BY InHand DEF At
  <1>3. hand[k] \in [at : {"write"}, got : Fetched, prev : ReadBack, added : BOOLEAN,
                     updated : BOOLEAN, alone : BOOLEAN, effect : BOOLEAN]
    BY <1>2 DEF At, Hands
  <1>4. PICK S \in SUBSET Posts : hand[k].prev \in [S -> Documents]
    BY <1>3 DEF ReadBack
  <1>5. DOMAIN hand[k].prev = DOMAIN hand[k].got
    BY DEF StoreTypeOK, At
  <1>6. QED
    BY <1>1, <1>3, <1>4, <1>5

LEMMA Notidle == \A h \in Hands : h # Idle
  BY DEF Hands, Idle

(* The merge is a document, and keeps a known number. *)
LEMMA MergeKeeps ==
  ASSUME NEW prev \in Documents, NEW metric \in Versions
  PROVE  /\ Merge(prev, metric) \in Documents
         /\ Merge(prev, metric).stored
         /\ Merge(prev, metric).deep = prev.deep
         /\ Merge(prev, metric).metric = Unknown => prev.metric = Unknown
  BY DEF Merge, Documents
-----------------------------------------------------------------------------
LEMMA FaultTyped ==
  ASSUME StoreTypeOK, Fault
  PROVE  spare' \in [syncs : 0..MaxSyncs, faults : 0..MaxFaults]
  BY ContentAssumption DEF StoreTypeOK, Fault

LEMMA FetchTyped ==
  ASSUME StoreTypeOK, NEW k \in Products, Fetch(k)
  PROVE  StoreTypeOK'
  <1>1. PICK S \in SUBSET Posts, moved \in SUBSET Posts :
          /\ moved \subseteq {p \in S : live[p] < Last[p]} /\ \A p \in S \ moved : live[p] > 0
          /\ live' = [p \in Posts |-> IF p \in moved THEN live[p] + 1 ELSE live[p]]
          /\ \E got \in [S -> Versions] :
               /\ \A p \in S : got[p] \in {live'[p], Unknown}
               /\ hand' = [hand EXCEPT ![k] = IF k = Deep THEN [at |-> "fold", got |-> got]
                                              ELSE [at |-> "fetched", got |-> got]]
    BY DEF Fetch, Stored
  <1>2. PICK got \in [S -> Versions] :
          /\ \A p \in S : got[p] \in {live'[p], Unknown}
          /\ hand' = [hand EXCEPT ![k] = IF k = Deep THEN [at |-> "fold", got |-> got]
                                         ELSE [at |-> "fetched", got |-> got]]
    BY <1>1
  <1>3. live' \in [Posts -> Versions] /\ \A p \in Posts : live[p] <= live'[p] /\ live[p] \in Nat /\ live'[p] \in Nat
    <2>1. \A p \in moved : live[p] + 1 \in Versions
      BY <1>1, ContentAssumption DEF StoreTypeOK, Versions
    <2>2. live \in [Posts -> Versions] /\ \A p \in Posts : live[p] \in Nat
      BY VersionsNat DEF StoreTypeOK
    <2>3. \A p \in Posts : live'[p] = IF p \in moved THEN live[p] + 1 ELSE live[p]
      BY <1>1
    <2>4. \A p \in Posts : live'[p] \in Versions
      BY <2>1, <2>2, <2>3
    <2>5. live' \in [Posts -> Versions]
      BY <1>1, <2>4
    <2>6. QED
      BY <2>2, <2>3, <2>5
  <1>4. spare' \in [syncs : 0..MaxSyncs, faults : 0..MaxFaults]
    BY ContentAssumption DEF StoreTypeOK, Fetch
  <1>5. got \in Fetched
    BY DEF Fetched
  <1>6. hand'[k] \in Hands /\ hand' = [hand EXCEPT ![k] = hand'[k]]
    BY <1>2, <1>5 DEF Hands, StoreTypeOK
  <1>7. \A q \in Products : Busy(q)' =>
          /\ q \in products' /\ (hand'[q].at = "fold" <=> q = Deep)
          /\ \A p \in DOMAIN hand'[q].got : hand'[q].got[p] <= live'[p]
          /\ hand'[q].at = "write" => DOMAIN hand'[q].prev = DOMAIN hand'[q].got
    <2> SUFFICES ASSUME NEW q \in Products, Busy(q)'
                 PROVE  /\ q \in products' /\ (hand'[q].at = "fold" <=> q = Deep)
                        /\ \A p \in DOMAIN hand'[q].got : hand'[q].got[p] <= live'[p]
                        /\ hand'[q].at = "write" => DOMAIN hand'[q].prev = DOMAIN hand'[q].got
      OBVIOUS
    <2>1. CASE q = k
      <3>1. hand'[q].got = got /\ hand'[q].at = IF k = Deep THEN "fold" ELSE "fetched"
        BY <1>2, <2>1 DEF StoreTypeOK
      <3>2. \A p \in S : got[p] <= live'[p]
        BY <1>2, <1>3 DEF Unknown
      <3>3. QED
        BY <2>1, <3>1, <3>2 DEF Fetch
    <2>2. CASE q # k
      <3>1. hand'[q] = hand[q] /\ Busy(q)
        BY <1>2, <2>2 DEF Busy, StoreTypeOK
      <3>2. \A p \in DOMAIN hand[q].got : p \in Posts /\ hand[q].got[p] \in Nat
        BY <3>1, InHand, VersionsNat
      <3>3. \A p \in DOMAIN hand[q].got : hand[q].got[p] <= live[p]
        BY <3>1 DEF StoreTypeOK
      <3>4. QED
        BY <3>1, <3>2, <3>3, <1>3 DEF Fetch, StoreTypeOK
    <2>3. QED
      BY <2>1, <2>2
  <1>8. QED
    BY <1>3, <1>4, <1>6, <1>7 DEF Fetch, StoreTypeOK, Stored

(* A step that ends or rewrites one product's sync and leaves live alone. *)
HandTyped(k, h) ==
  /\ h \in Hands \cup {Idle}
  /\ h # Idle =>
       /\ k \in products /\ (h.at = "fold" <=> k = Deep)
       /\ \A p \in DOMAIN h.got : h.got[p] <= live[p]
       /\ h.at = "write" => DOMAIN h.prev = DOMAIN h.got

LEMMA HandSet ==
  ASSUME StoreTypeOK, NEW k \in Products, NEW h, HandTyped(k, h),
         hand' = [hand EXCEPT ![k] = h], UNCHANGED <<products, live>>
  PROVE  /\ hand' \in [Products -> Hands \cup {Idle}]
         /\ \A q \in Products : Busy(q)' =>
              /\ q \in products' /\ (hand'[q].at = "fold" <=> q = Deep)
              /\ \A p \in DOMAIN hand'[q].got : hand'[q].got[p] <= live'[p]
              /\ hand'[q].at = "write" => DOMAIN hand'[q].prev = DOMAIN hand'[q].got
  <1>1. hand' \in [Products -> Hands \cup {Idle}] /\ hand'[k] = h
    BY DEF StoreTypeOK, HandTyped
  <1>2. ASSUME NEW q \in Products, Busy(q)'
        PROVE  /\ q \in products' /\ (hand'[q].at = "fold" <=> q = Deep)
               /\ \A p \in DOMAIN hand'[q].got : hand'[q].got[p] <= live'[p]
               /\ hand'[q].at = "write" => DOMAIN hand'[q].prev = DOMAIN hand'[q].got
    <2>1. CASE q = k
      BY <1>1, <1>2, <2>1 DEF HandTyped, Busy
    <2>2. CASE q # k
      <3>1. hand'[q] = hand[q] /\ Busy(q)
        BY <1>2, <2>2 DEF Busy, StoreTypeOK
      <3>2. QED
        BY <3>1 DEF StoreTypeOK
    <2>3. QED
      BY <2>1, <2>2
  <1>3. QED
    BY <1>1, <1>2

LEMMA LoadTyped ==
  ASSUME StoreTypeOK, NEW k \in Feeds, Load(k)
  PROVE  StoreTypeOK'
  <1> DEFINE got == hand[k].got
             prev == [p \in DOMAIN got |-> doc[p]]
             updated == \E p \in DOMAIN got : Changed(p, doc[p], got[p])
             h == [at |-> "write", got |-> got, prev |-> prev, added |-> FALSE,
                   updated |-> updated, alone |-> TRUE, effect |-> FALSE]
  <1>1. k \in Products /\ Busy(k)
    BY DEF Products, Load
  <1>2. hand' = [hand EXCEPT ![k] = h]
    BY DEF Load
  <1>3. got \in Fetched /\ DOMAIN got \subseteq Posts
    BY <1>1, InHand DEF Fetched
  <1>4. prev \in ReadBack
    BY <1>3 DEF StoreTypeOK, ReadBack
  <1>5. h \in Hands
    <2> HIDE DEF got, prev, updated
    <2>1. updated \in BOOLEAN
      BY DEF updated
    <2>2. QED
      BY <1>3, <1>4, <2>1 DEF Hands
  <1>6. HandTyped(k, h)
    BY <1>1, <1>5, ContentAssumption DEF HandTyped, StoreTypeOK
  <1>7. QED
    <2> HIDE DEF h
    <2>1. QED
      BY <1>1, <1>2, <1>6, HandSet DEF Load, StoreTypeOK, Stored

(* What a sync has left to write when it has written p. *)
LEMMA WriteTyped ==
  ASSUME StoreTypeOK, NEW k \in Feeds, NEW p \in Posts, Write(k, p)
  PROVE  StoreTypeOK'
  <1> DEFINE s == hand[k]
             kept == Merge(s.prev[p], s.got[p])
             h == [s EXCEPT !.got = Without(s.got, p), !.prev = Without(s.prev, p), !.added = @ \/ ~doc[p].stored,
                            !.alone = @ /\ doc[p] = s.prev[p],
                            !.effect = @ \/ ~doc[p].stored \/ (p \in Recent /\ doc[p].metric # kept.metric)]
  <1>1. k \in Products /\ Busy(k) /\ At(k, "write") /\ p \in DOMAIN s.got
    BY DEF Products, Write, At
  <1>2. s.got \in [DOMAIN s.got -> Versions] /\ DOMAIN s.got \subseteq Posts
    BY <1>1, InHand
  <1>3. s.prev \in [DOMAIN s.got -> Documents]
    BY <1>1, InWrite
  <1>4. s \in [at : {"write"}, got : Fetched, prev : ReadBack, added : BOOLEAN, updated : BOOLEAN,
               alone : BOOLEAN, effect : BOOLEAN]
    BY <1>1, InWrite
  <1>5. kept \in Documents /\ kept.stored
    <2>1. s.prev[p] \in Documents /\ s.got[p] \in Versions
      BY <1>1, <1>2, <1>3
    <2>2. QED
      BY <2>1, MergeKeeps
  <1>6. hand' = [hand EXCEPT ![k] = h]
    BY DEF Write
  <1>7. /\ Without(s.got, p) \in [DOMAIN s.got \ {p} -> Versions]
        /\ Without(s.prev, p) \in [DOMAIN s.got \ {p} -> Documents]
        /\ \A q \in DOMAIN s.got \ {p} : Without(s.got, p)[q] = s.got[q]
    <2>1. /\ Without(s.got, p) \in [DOMAIN s.got \ {p} -> Versions]
          /\ \A q \in DOMAIN s.got \ {p} : Without(s.got, p)[q] = s.got[q]
      BY <1>2 DEF Without
    <2>2. Without(s.prev, p) \in [DOMAIN s.got \ {p} -> Documents]
      BY <1>3 DEF Without
    <2>3. QED
      BY <2>1, <2>2
  <1>8. Without(s.got, p) \in Fetched /\ Without(s.prev, p) \in ReadBack
    BY <1>2, <1>7 DEF Fetched, ReadBack
  <1>9. h \in Hands /\ h.got = Without(s.got, p) /\ h.prev = Without(s.prev, p) /\ h.at = "write"
    <2> DEFINE a == s.added \/ ~doc[p].stored
               al == s.alone /\ doc[p] = s.prev[p]
               ef == s.effect \/ ~doc[p].stored \/ (p \in Recent /\ doc[p].metric # kept.metric)
    <2>1. a \in BOOLEAN /\ al \in BOOLEAN /\ ef \in BOOLEAN
      BY <1>4
    <2> HIDE DEF a, al, ef
    <2>2. h = [at |-> s.at, got |-> Without(s.got, p), prev |-> Without(s.prev, p), added |-> a,
               updated |-> s.updated, alone |-> al, effect |-> ef]
      <3>1. h = [s EXCEPT !.got = Without(s.got, p), !.prev = Without(s.prev, p), !.added = a,
                          !.alone = al, !.effect = ef]
        BY DEF a, al, ef
      <3> HIDE DEF h, s
      <3>2. QED
        BY <1>4, <3>1
    <2>3. s.updated \in BOOLEAN /\ s.at = "write"
      BY <1>4
    <2> HIDE DEF h, s
    <2>4. QED
      BY <1>8, <2>1, <2>2, <2>3 DEF Hands
  <1>10. HandTyped(k, h)
    <2>1. k \in products /\ k # Deep /\ \A q \in DOMAIN s.got : s.got[q] <= live[q]
      BY <1>1, ContentAssumption DEF StoreTypeOK
    <2> HIDE DEF h, s
    <2>2. QED
      BY <1>7, <1>9, <2>1 DEF HandTyped
  <1>11. /\ doc' \in [Posts -> Documents]
         /\ \A q \in Posts \ Stored' : doc'[q] = Absent
    <2>1. doc' = [doc EXCEPT ![p] = kept]
      BY DEF Write
    <2> HIDE DEF kept
    <2>2. QED
      BY <1>5, <2>1 DEF StoreTypeOK, Stored
  <1>12. /\ stale' \in [Feeds -> SUBSET Posts] /\ excused' \in [Feeds -> SUBSET Posts]
         /\ \A f \in Feeds : excused'[f] \subseteq stale'[f]
    <2> DEFINE news == ~doc[p].stored \/ (p \in Recent /\ doc[p].metric # kept.metric)
               alone == doc[p] = s.prev[p]
    <2>1. /\ stale' = [stale EXCEPT ![k] = IF news THEN @ \cup {p} ELSE @]
          /\ excused' = [excused EXCEPT ![k] = IF news /\ ~alone THEN @ \cup {p} ELSE @]
      BY DEF Write
    <2> HIDE DEF news, alone
    <2>2. QED
      BY <2>1 DEF StoreTypeOK
  <1>13. late' \subseteq Posts
    BY DEF Write, StoreTypeOK
  <1>14. QED
    <2> HIDE DEF h
    <2>1. QED
      BY <1>1, <1>6, <1>10, <1>11, <1>12, <1>13, HandSet DEF Write, StoreTypeOK

(* What is left of a fold when it has folded p. *)
LEMMA FoldTyped ==
  ASSUME StoreTypeOK, NEW p \in Posts, Fold(p)
  PROVE  StoreTypeOK'
  <1> DEFINE s == hand[Deep]
             h == Shortened(p)
  <1>1. Deep \in Products /\ Busy(Deep) /\ s.at = "fold" /\ s \in Hands
    BY InHand DEF Products, Fold, StoreTypeOK
  <1>2. s.got \in [DOMAIN s.got -> Versions] /\ DOMAIN s.got \subseteq Posts /\ p \in DOMAIN s.got
    BY <1>1, InHand DEF Fold
  <1>3. hand' = [hand EXCEPT ![Deep] = h]
    BY DEF Fold
  <1>4. /\ Without(s.got, p) \in [DOMAIN s.got \ {p} -> Versions]
        /\ \A q \in DOMAIN s.got \ {p} : Without(s.got, p)[q] = s.got[q]
    BY <1>2 DEF Without
  <1>5. s \in [at : {"fetched", "fold"}, got : Fetched] /\ Without(s.got, p) \in Fetched
    BY <1>1, <1>2, <1>4 DEF Hands, Fetched
  <1>6. h = IF DOMAIN s.got = {p} THEN Idle ELSE [at |-> "fold", got |-> Without(s.got, p)]
    BY <1>1, <1>5 DEF Shortened
  <1>7. HandTyped(Deep, h)
    <2>1. Deep \in products /\ \A q \in DOMAIN s.got : s.got[q] <= live[q]
      BY <1>1 DEF StoreTypeOK
    <2>2. [at |-> "fold", got |-> Without(s.got, p)] \in Hands
      BY <1>5 DEF Hands
    <2> HIDE DEF s, h
    <2>3. QED
      BY <1>4, <1>6, <2>1, <2>2 DEF HandTyped
  <1>8. doc' \in [Posts -> Documents] /\ \A q \in Posts \ Stored' : doc'[q] = Absent
    <2>1. doc[p] \in Documents /\ s.got[p] \in Versions
      BY <1>2 DEF StoreTypeOK
    <2>2. [doc[p] EXCEPT !.deep = s.got[p]] \in Documents
      BY <2>1 DEF Documents
    <2>3. [doc[p] EXCEPT !.deep = s.got[p]].stored = doc[p].stored
      BY <2>1 DEF Documents
    <2>4. doc' = IF doc[p].stored THEN [doc EXCEPT ![p] = [doc[p] EXCEPT !.deep = s.got[p]]] ELSE doc
      BY DEF Fold, StoreTypeOK
    <2> HIDE DEF s
    <2>5. QED
      BY <2>2, <2>3, <2>4 DEF StoreTypeOK, Stored
  <1>9. QED
    <2> HIDE DEF h
    <2>1. QED
      BY <1>1, <1>3, <1>7, <1>8, HandSet DEF Fold, StoreTypeOK

LEMMA AnnounceTyped ==
  ASSUME StoreTypeOK, NEW k \in Feeds, Announce(k)
  PROVE  /\ stale' \in [Feeds -> SUBSET Posts] /\ excused' \in [Feeds -> SUBSET Posts]
         /\ \A f \in Feeds : excused'[f] \subseteq stale'[f]
  BY DEF StoreTypeOK, Announce

LEMMA FireTyped ==
  ASSUME StoreTypeOK, NEW k \in Feeds, Fire(k)
  PROVE  StoreTypeOK'
  <1>1. k \in Products /\ HandTyped(k, Idle) /\ hand' = [hand EXCEPT ![k] = Idle]
    BY DEF Products, HandTyped, Fire
  <1>2. throttle' \in [Feeds -> BOOLEAN]
    BY DEF Fire, StoreTypeOK
  <1>3. /\ stale' \in [Feeds -> SUBSET Posts] /\ excused' \in [Feeds -> SUBSET Posts]
        /\ \A f \in Feeds : excused'[f] \subseteq stale'[f]
    <2>1. CASE Announce(k)
      BY <2>1, AnnounceTyped
    <2>2. CASE UNCHANGED <<stale, excused>>
      BY <2>2 DEF StoreTypeOK
    <2>3. CASE excused' = [excused EXCEPT ![k] = @ \cup stale[k]] /\ UNCHANGED stale
      BY <2>3 DEF StoreTypeOK
    <2>4. QED
      BY <2>1, <2>2, <2>3 DEF Fire
  <1>4. QED
    BY <1>1, <1>2, <1>3, HandSet DEF Fire, StoreTypeOK, Stored

LEMMA FailsTyped ==
  ASSUME StoreTypeOK, NEW k \in Products, Fails(k)
  PROVE  StoreTypeOK'
  <1>1. HandTyped(k, Idle) /\ hand' = [hand EXCEPT ![k] = Idle]
    BY DEF HandTyped, Fails
  <1>2. throttle' \in [Feeds -> BOOLEAN]
    <2>1. throttle' = throttle \/ throttle' = [throttle EXCEPT ![k] = TRUE]
      BY DEF Fails
    <2>2. QED
      BY <2>1 DEF StoreTypeOK
  <1>3. excused' \in [Feeds -> SUBSET Posts] /\ \A f \in Feeds : excused'[f] \subseteq stale'[f]
    BY DEF Fails, StoreTypeOK
  <1>4. QED
    BY <1>1, <1>2, <1>3, HandSet, FaultTyped DEF Fails, StoreTypeOK, Stored

(* An erase and what a client or the clock does touch no sync. *)
LEMMA RestTyped ==
  ASSUME StoreTypeOK,
         \/ \E k \in Feeds : Lapse(k) \/ ManualRefresh(k)
         \/ Purge \/ Drop \/ EraseFails
  PROVE  StoreTypeOK'
  <1>1. ASSUME NEW k \in Feeds, Lapse(k) PROVE StoreTypeOK'
    BY <1>1 DEF Lapse, StoreTypeOK, Stored, Busy
  <1>2. ASSUME NEW k \in Feeds, ManualRefresh(k) PROVE StoreTypeOK'
    BY <1>2, AnnounceTyped DEF ManualRefresh, StoreTypeOK, Stored, Busy
  <1>3. CASE Purge
    <2>1. \A p \in Posts : Absent \in Documents
      <3>1. \A p \in Posts : 0 \in Versions
        BY ContentAssumption DEF Versions
      <3>2. QED
        BY <3>1 DEF Absent, Documents, Unknown
    <2>2. QED
      BY <1>3, <2>1 DEF Purge, StoreTypeOK, Stored, Busy, Absent
  <1>4. CASE Drop
    BY <1>4 DEF Drop, StoreTypeOK, Stored, Busy
  <1>5. CASE EraseFails
    BY <1>5, FaultTyped DEF EraseFails, StoreTypeOK, Stored, Busy
  <1>6. QED
    BY <1>1, <1>2, <1>3, <1>4, <1>5

LEMMA StoreInitTyped == StoreInit => StoreTypeOK
  <1> SUFFICES ASSUME StoreInit PROVE StoreTypeOK
    OBVIOUS
  <1>1. \A p \in Posts : 0 \in Versions
    BY ContentAssumption DEF Versions
  <1>2. \A p \in Posts : Absent \in Documents
    BY <1>1 DEF Absent, Documents, Unknown
  <1>3. live \in [Posts -> Versions] /\ doc \in [Posts -> Documents]
    BY <1>1, <1>2 DEF StoreInit
  <1>4. \A k \in Products : ~Busy(k)
    BY DEF StoreInit, Busy
  <1>5. QED
    BY <1>3, <1>4, ContentAssumption DEF StoreInit, StoreTypeOK, Stored, Busy

LEMMA StoreStepTyped == StoreTypeOK /\ [StoreNext]_storeVars => StoreTypeOK'
  <1> SUFFICES ASSUME StoreTypeOK, [StoreNext]_storeVars PROVE StoreTypeOK'
    OBVIOUS
  <1>1. CASE UNCHANGED storeVars
    BY <1>1 DEF storeVars, StoreTypeOK, Stored, Busy
  <1>2. ASSUME NEW p \in Posts, Fold(p) PROVE StoreTypeOK'
    BY <1>2, FoldTyped
  <1>3. ASSUME NEW k \in Products, Fetch(k) \/ Fails(k) PROVE StoreTypeOK'
    BY <1>3, FetchTyped, FailsTyped
  <1>4. ASSUME NEW k \in Feeds, Load(k) \/ Fire(k) \/ \E p \in Posts : Write(k, p) PROVE StoreTypeOK'
    BY <1>4, LoadTyped, FireTyped, WriteTyped
  <1>5. QED
    BY <1>1, <1>2, <1>3, <1>4, RestTyped DEF StoreNext

(* The documents, the syncs in hand and the histories keep their types, what *)
(* a sync holds is no newer than what was fetched, and nothing is known of a *)
(* post that is not stored.                                                  *)
THEOREM StoreTyped == StoreSpec => []StoreTypeOK
  <1>1. QED
    BY StoreInitTyped, StoreStepTyped, PTL DEF StoreSpec
-----------------------------------------------------------------------------
(* What the steps of a sync do to what is in hand. *)
Others(k) == \A q \in Products \ {k} : hand'[q] = hand[q]

LEMMA FetchEffect ==
  ASSUME StoreTypeOK, NEW k \in Products, Fetch(k)
  PROVE  /\ Others(k)
         /\ hand'[k].at # "write"
         /\ \A p \in DOMAIN hand'[k].got : hand'[k].got[p] \in {live'[p], Unknown}
         /\ \A p \in Posts : live[p] <= live'[p] /\ live'[p] \in Nat /\ live[p] \in Nat
  <1>1. PICK S \in SUBSET Posts, moved \in SUBSET Posts :
          /\ live' = [p \in Posts |-> IF p \in moved THEN live[p] + 1 ELSE live[p]]
          /\ \E got \in [S -> Versions] :
               /\ \A p \in S : got[p] \in {live'[p], Unknown}
               /\ hand' = [hand EXCEPT ![k] = IF k = Deep THEN [at |-> "fold", got |-> got]
                                              ELSE [at |-> "fetched", got |-> got]]
    BY DEF Fetch, Stored
  <1>2. PICK got \in [S -> Versions] :
          /\ \A p \in S : got[p] \in {live'[p], Unknown}
          /\ hand' = [hand EXCEPT ![k] = IF k = Deep THEN [at |-> "fold", got |-> got]
                                         ELSE [at |-> "fetched", got |-> got]]
    BY <1>1
  <1>3. hand \in [Products -> Hands \cup {Idle}] /\ live \in [Posts -> Nat]
    BY VersionsNat DEF StoreTypeOK
  <1>4. hand'[k].got = got /\ hand'[k].at = IF k = Deep THEN "fold" ELSE "fetched"
    BY <1>2, <1>3
  <1>5. Others(k)
    BY <1>2, <1>3 DEF Others
  <1>6. \A p \in Posts : live[p] <= live'[p] /\ live'[p] \in Nat /\ live[p] \in Nat
    BY <1>1, <1>3
  <1>7. QED
    BY <1>2, <1>4, <1>5, <1>6

LEMMA LoadEffect ==
  ASSUME StoreTypeOK, NEW k \in Feeds, Load(k)
  PROVE  /\ Others(k) /\ k \in Products
         /\ DOMAIN hand'[k].got = DOMAIN hand[k].got
         /\ DOMAIN hand[k].got \subseteq Posts
         /\ hand'[k].got = hand[k].got
         /\ \A p \in DOMAIN hand[k].got : hand'[k].prev[p] = doc[p]
         /\ ~hand'[k].added
         /\ hand'[k].updated = \E p \in DOMAIN hand[k].got : Changed(p, doc[p], hand[k].got[p])
  <1>1. k \in Products /\ Busy(k) /\ hand \in [Products -> Hands \cup {Idle}]
    BY DEF Load, Products, StoreTypeOK
  <1>2. DOMAIN hand[k].got \subseteq Posts
    BY <1>1, InHand
  <1>3. hand' = [hand EXCEPT ![k] =
           [at |-> "write", got |-> hand[k].got, prev |-> [p \in DOMAIN hand[k].got |-> doc[p]],
            added |-> FALSE, updated |-> \E p \in DOMAIN hand[k].got : Changed(p, doc[p], hand[k].got[p]),
            alone |-> TRUE, effect |-> FALSE]]
    BY DEF Load
  <1>4. Others(k)
    BY <1>1, <1>3 DEF Others
  <1>5. hand'[k] =
           [at |-> "write", got |-> hand[k].got, prev |-> [p \in DOMAIN hand[k].got |-> doc[p]],
            added |-> FALSE, updated |-> \E p \in DOMAIN hand[k].got : Changed(p, doc[p], hand[k].got[p]),
            alone |-> TRUE, effect |-> FALSE]
    BY <1>1, <1>3
  <1>6. QED
    BY <1>1, <1>2, <1>4, <1>5

(* Whether a write of p is news, and whether it is of what was read. *)
News(k, p) == ~doc[p].stored \/ (p \in Recent /\ doc[p].metric # Merge(hand[k].prev[p], hand[k].got[p]).metric)
Alone(k, p) == doc[p] = hand[k].prev[p]

LEMMA WriteEffect ==
  ASSUME StoreTypeOK, NEW k \in Feeds, NEW p \in Posts, Write(k, p)
  PROVE  /\ Others(k) /\ k \in Products /\ At(k, "write") /\ At(k, "write")'
         /\ p \in DOMAIN hand[k].got /\ DOMAIN hand[k].got \subseteq Posts
         /\ DOMAIN hand'[k].got = DOMAIN hand[k].got \ {p}
         /\ \A q \in DOMAIN hand'[k].got : /\ hand'[k].got[q] = hand[k].got[q]
                                           /\ hand'[k].prev[q] = hand[k].prev[q]
         /\ hand'[k].added <=> hand[k].added \/ ~doc[p].stored
         /\ hand'[k].updated <=> hand[k].updated
         /\ hand'[k].alone <=> hand[k].alone /\ Alone(k, p)
         /\ hand'[k].effect <=> hand[k].effect \/ News(k, p)
         /\ hand[k].prev[p] \in Documents /\ hand[k].got[p] \in Versions
         /\ doc' = [doc EXCEPT ![p] = Merge(hand[k].prev[p], hand[k].got[p])]
         /\ stale' = [stale EXCEPT ![k] = IF News(k, p) THEN @ \cup {p} ELSE @]
         /\ excused' = [excused EXCEPT ![k] = IF News(k, p) /\ ~Alone(k, p) THEN @ \cup {p} ELSE @]
  <1> DEFINE s == hand[k]
  <1>1. k \in Products /\ At(k, "write") /\ Busy(k) /\ p \in DOMAIN s.got
    BY DEF Write, Products, At
  <1>2. /\ hand' = [hand EXCEPT ![k] =
             [s EXCEPT !.got = Without(s.got, p), !.prev = Without(s.prev, p), !.added = @ \/ ~doc[p].stored,
                       !.alone = @ /\ Alone(k, p), !.effect = @ \/ News(k, p)]]
        /\ doc' = [doc EXCEPT ![p] = Merge(s.prev[p], s.got[p])]
        /\ stale' = [stale EXCEPT ![k] = IF News(k, p) THEN @ \cup {p} ELSE @]
        /\ excused' = [excused EXCEPT ![k] = IF News(k, p) /\ ~Alone(k, p) THEN @ \cup {p} ELSE @]
    BY DEF Write, News, Alone
  <1>3. /\ s.got \in [DOMAIN s.got -> Versions] /\ DOMAIN s.got \subseteq Posts
        /\ s.prev \in [DOMAIN s.got -> Documents]
        /\ s \in [at : {"write"}, got : Fetched, prev : ReadBack, added : BOOLEAN, updated : BOOLEAN,
                  alone : BOOLEAN, effect : BOOLEAN]
        /\ hand \in [Products -> Hands \cup {Idle}]
    BY <1>1, InHand, InWrite DEF StoreTypeOK
  <1>4. Others(k)
    BY <1>1, <1>2, <1>3 DEF Others
  <1>5. /\ hand'[k].got = Without(s.got, p) /\ hand'[k].prev = Without(s.prev, p)
        /\ hand'[k].added = (s.added \/ ~doc[p].stored) /\ hand'[k].updated = s.updated
        /\ hand'[k].alone = (s.alone /\ Alone(k, p)) /\ hand'[k].effect = (s.effect \/ News(k, p))
        /\ hand'[k].at = "write"
    <2> DEFINE a == s.added \/ ~doc[p].stored
               al == s.alone /\ Alone(k, p)
               ef == s.effect \/ News(k, p)
    <2> HIDE DEF s
    <2>1. hand'[k] = [s EXCEPT !.got = Without(s.got, p), !.prev = Without(s.prev, p), !.added = a,
                               !.alone = al, !.effect = ef]
      BY <1>1, <1>2, <1>3
    <2> HIDE DEF a, al, ef
    <2>2. /\ hand'[k].got = Without(s.got, p) /\ hand'[k].prev = Without(s.prev, p)
          /\ hand'[k].added = a /\ hand'[k].updated = s.updated
          /\ hand'[k].alone = al /\ hand'[k].effect = ef /\ hand'[k].at = "write"
      BY <1>3, <2>1
    <2>3. QED
      BY <2>2 DEF a, al, ef
  <1>6. /\ DOMAIN hand'[k].got = DOMAIN s.got \ {p}
        /\ \A q \in DOMAIN hand'[k].got : /\ hand'[k].got[q] = s.got[q]
                                          /\ hand'[k].prev[q] = s.prev[q]
    BY <1>3, <1>5 DEF Without
  <1>7. At(k, "write")'
    BY <1>5 DEF At, Busy, Idle
  <1>8. QED
    BY <1>1, <1>2, <1>3, <1>4, <1>5, <1>6, <1>7

LEMMA FoldEffect ==
  ASSUME StoreTypeOK, NEW p \in Posts, Fold(p)
  PROVE  /\ Others(Deep) /\ p \in DOMAIN hand[Deep].got /\ Deep \in Products
         /\ DOMAIN hand[Deep].got \subseteq Posts
         /\ hand[Deep].got[p] \in Versions
         /\ Busy(Deep)' => /\ hand'[Deep].at = "fold" /\ DOMAIN hand'[Deep].got = DOMAIN hand[Deep].got \ {p}
                           /\ \A q \in DOMAIN hand'[Deep].got : hand'[Deep].got[q] = hand[Deep].got[q]
         /\ \A q \in Posts \ {p} : doc'[q] = doc[q]
         /\ ~doc[p].stored => doc'[p] = doc[p]
         /\ doc[p].stored => /\ doc'[p].stored /\ doc'[p].metric = doc[p].metric
                             /\ doc'[p].deep = hand[Deep].got[p]
  <1> DEFINE s == hand[Deep]
  <1>1. Deep \in Products /\ Busy(Deep) /\ s.at = "fold" /\ s \in Hands
    BY InHand DEF Products, Fold, StoreTypeOK
  <1>2. s.got \in [DOMAIN s.got -> Versions] /\ DOMAIN s.got \subseteq Posts /\ p \in DOMAIN s.got
    BY <1>1, InHand DEF Fold
  <1>3. s \in [at : {"fetched", "fold"}, got : Fetched] /\ hand \in [Products -> Hands \cup {Idle}]
    BY <1>1 DEF Hands, StoreTypeOK
  <1>4. hand' = [hand EXCEPT ![Deep] = Shortened(p)]
    BY DEF Fold
  <1>5. Others(Deep) /\ hand'[Deep] = Shortened(p)
    BY <1>1, <1>3, <1>4 DEF Others
  <1>6. Busy(Deep)' => hand'[Deep] = [at |-> "fold", got |-> Without(s.got, p)]
    BY <1>1, <1>3, <1>5 DEF Busy, Shortened
  <1>7. Busy(Deep)' => /\ hand'[Deep].at = "fold" /\ DOMAIN hand'[Deep].got = DOMAIN s.got \ {p}
                       /\ \A q \in DOMAIN hand'[Deep].got : hand'[Deep].got[q] = s.got[q]
    BY <1>2, <1>6 DEF Without
  <1>8. doc \in [Posts -> Documents] /\ doc[p] \in Documents
    BY DEF StoreTypeOK
  <1>9. CASE doc[p].stored
    <2>1. doc' = [doc EXCEPT ![p] = [doc[p] EXCEPT !.deep = s.got[p]]]
      BY <1>9, <1>8 DEF Fold
    <2>2. doc'[p] = [doc[p] EXCEPT !.deep = s.got[p]]
      BY <1>8, <2>1
    <2>3. /\ doc'[p].stored /\ doc'[p].metric = doc[p].metric /\ doc'[p].deep = s.got[p]
          /\ \A q \in Posts \ {p} : doc'[q] = doc[q]
      BY <1>8, <1>9, <2>1, <2>2 DEF Documents
    <2>4. QED
      BY <1>1, <1>2, <1>5, <1>7, <1>9, <2>3
  <1>10. CASE ~doc[p].stored
    BY <1>1, <1>2, <1>5, <1>7, <1>10 DEF Fold
  <1>11. QED
    BY <1>9, <1>10

LEMMA EndEffect ==
  ASSUME StoreTypeOK, NEW k \in Products, hand' = [hand EXCEPT ![k] = Idle]
  PROVE  Others(k) /\ ~Busy(k)'
  BY DEF StoreTypeOK, Others, Busy
-----------------------------------------------------------------------------
(* From the moment an erase is past the documents, what is stored is late. *)
LateInv == (~account \/ erase = "drop") => Stored \subseteq late

(* What is left of an erased account was written after its documents were     *)
(* purged, by syncs that began before its row was gone: for any number of     *)
(* syncs, erases and faults.                                                  *)
THEOREM ErasedForGood == StoreSpec => []ErasedStaysErased
  <1>1. StoreInit => LateInv
    BY DEF StoreInit, LateInv
  <1>2. StoreTypeOK /\ LateInv /\ [StoreNext]_storeVars => LateInv'
    <2> SUFFICES ASSUME StoreTypeOK, LateInv, [StoreNext]_storeVars PROVE LateInv'
      OBVIOUS
    <2>1. CASE UNCHANGED <<account, doc, erase, late>>
      BY <2>1 DEF LateInv, Stored
    <2>2. ASSUME NEW p \in Posts, Fold(p) PROVE LateInv'
      <3>1. Stored' \subseteq Stored
        BY <2>2, FoldEffect DEF Stored
      <3>2. QED
        BY <2>2, <3>1 DEF LateInv, Fold
    <2>3. ASSUME NEW k \in Feeds, NEW p \in Posts, Write(k, p) PROVE LateInv'
      <3>1. doc' = [doc EXCEPT ![p] = Merge(hand[k].prev[p], hand[k].got[p])]
        BY <2>3, WriteEffect
      <3>2. Stored' \subseteq Stored \cup {p}
        BY <3>1 DEF Stored, StoreTypeOK
      <3>3. QED
        BY <2>3, <3>2 DEF LateInv, Write
    <2>4. CASE Purge
      <3>1. Stored' = {}
        BY <2>4 DEF Purge, Stored, Absent
      <3>2. QED
        BY <3>1 DEF LateInv
    <2>5. CASE Drop
      BY <2>5 DEF Drop, LateInv, Stored
    <2>6. CASE EraseFails
      BY <2>6 DEF EraseFails, LateInv, StoreTypeOK
    <2>7. ASSUME NEW k \in Products, Fetch(k) \/ Fails(k) PROVE LateInv'
      BY <2>1, <2>7 DEF Fetch, Fails
    <2>8. ASSUME NEW k \in Feeds, Load(k) \/ Fire(k) \/ Lapse(k) \/ ManualRefresh(k) PROVE LateInv'
      BY <2>1, <2>8 DEF Load, Fire, Lapse, ManualRefresh
    <2>9. QED
      BY <2>1, <2>2, <2>3, <2>4, <2>5, <2>6, <2>7, <2>8 DEF StoreNext, storeVars
  <1>3. LateInv => ErasedStaysErased
    BY DEF LateInv, ErasedStaysErased
  <1>4. QED
    BY <1>1, <1>2, <1>3, StoreTyped, PTL DEF StoreSpec
-----------------------------------------------------------------------------
(* While a sync writes over nobody, an addition it counted had an effect, and *)
(* a change it found has had or will have one.                                *)
CauseAhead(k) ==
  At(k, "write") /\ hand[k].alone =>
    /\ hand[k].added => hand[k].effect
    /\ hand[k].updated => \/ hand[k].effect
                          \/ \E p \in DOMAIN hand[k].got : Changed(p, hand[k].prev[p], hand[k].got[p])

CauseInv == \A k \in Feeds : CauseAhead(k)

(* A change that a sync found, or may still find, it announces. *)
ChangeFound(k) ==
  At(k, "write") => \A p \in DOMAIN hand[k].got : Changed(p, hand[k].prev[p], hand[k].got[p]) => hand[k].updated

(* What is not announced yet is excused, or its product's sync has it counted. *)
Accounted(k) ==
  account => \/ stale[k] \subseteq excused[k]
             \/ At(k, "write") /\ (hand[k].added \/ hand[k].updated)

AnnounceInv == \A k \in Feeds : ChangeFound(k) /\ Accounted(k)

(* A write that is news and of what was read is an addition or a change. *)
LEMMA NewsIsChange ==
  ASSUME NEW k, NEW p, News(k, p), Alone(k, p), doc[p].stored
  PROVE  Changed(p, hand[k].prev[p], hand[k].got[p])
  BY DEF News, Alone, Changed

LEMMA ChangeIsNews ==
  ASSUME NEW k, NEW p, Alone(k, p), Changed(p, hand[k].prev[p], hand[k].got[p])
  PROVE  News(k, p)
  BY DEF News, Alone, Changed

(* A sync left alone keeps what is said of it. *)
LEMMA SameSync ==
  ASSUME NEW k \in Feeds, hand'[k] = hand[k]
  PROVE  /\ CauseAhead(k) => CauseAhead(k)'
         /\ ChangeFound(k) => ChangeFound(k)'
         /\ At(k, "write")' = At(k, "write")
  BY DEF CauseAhead, ChangeFound, At, Busy, Changed, Merge

LEMMA NotWriting ==
  ASSUME NEW k \in Feeds, ~At(k, "write")
  PROVE  CauseAhead(k) /\ ChangeFound(k)
  BY DEF CauseAhead, ChangeFound

(* A feed announces news only if its writes made some, for any number of      *)
(* products, posts and faults, unless it wrote over somebody else.            *)
THEOREM NewsCaused == StoreSpec => []NewsHasCause
  <1>1. StoreInit => CauseInv
    <2>1. StoreInit => \A k \in Feeds : ~At(k, "write")
      BY DEF StoreInit, At, Busy, Products
    <2>2. QED
      BY <2>1, NotWriting DEF CauseInv
  <1>2. StoreTypeOK /\ CauseInv /\ [StoreNext]_storeVars => CauseInv'
    <2> SUFFICES ASSUME StoreTypeOK, CauseInv, [StoreNext]_storeVars, NEW f \in Feeds
                 PROVE  CauseAhead(f)'
      BY DEF CauseInv
    <2> USE DEF Products
    <2>1. CASE hand'[f] = hand[f]
      BY <2>1, SameSync DEF CauseInv
    <2>2. CASE ~At(f, "write")'
      BY <2>2 DEF CauseAhead
    <2>3. ASSUME NEW k \in Products, Fetch(k) PROVE CauseAhead(f)'
      BY <2>1, <2>2, <2>3, FetchEffect DEF Others, At
    <2>4. ASSUME NEW k \in Products, Fails(k) PROVE CauseAhead(f)'
      BY <2>1, <2>2, <2>4, EndEffect DEF Others, At, Fails
    <2>5. ASSUME NEW k \in Feeds, Fire(k) PROVE CauseAhead(f)'
      BY <2>1, <2>2, <2>5, EndEffect DEF Others, At, Fire
    <2>6. ASSUME NEW p \in Posts, Fold(p) PROVE CauseAhead(f)'
      BY <2>1, <2>6, FoldEffect, ContentAssumption DEF Others
    <2>7. ASSUME NEW k \in Feeds, Load(k) PROVE CauseAhead(f)'
      <3>1. CASE f # k
        BY <2>1, <2>7, <3>1, LoadEffect DEF Others
      <3>2. CASE f = k
        <4>1. hand'[f].updated => \E p \in DOMAIN hand'[f].got : Changed(p, hand'[f].prev[p], hand'[f].got[p])
          BY <2>7, <3>2, LoadEffect
        <4>2. ~hand'[f].added
          BY <2>7, <3>2, LoadEffect
        <4>3. QED
          BY <4>1, <4>2 DEF CauseAhead, Changed, Merge
      <3>3. QED
        BY <3>1, <3>2
    <2>8. ASSUME NEW k \in Feeds, NEW p \in Posts, Write(k, p) PROVE CauseAhead(f)'
      <3>1. CASE f # k
        BY <2>1, <2>8, <3>1, WriteEffect DEF Others
      <3>2. CASE f = k
        <4> SUFFICES ASSUME At(f, "write")', hand'[f].alone
                     PROVE  /\ hand'[f].added => hand'[f].effect
                            /\ hand'[f].updated =>
                                 \/ hand'[f].effect
                                 \/ \E q \in DOMAIN hand'[f].got : Changed(q, hand'[f].prev[q], hand'[f].got[q])
          BY DEF CauseAhead, Changed, Merge
        <4>1. /\ At(f, "write") /\ hand[f].alone /\ Alone(f, p)
              /\ hand'[f].added <=> hand[f].added \/ ~doc[p].stored
              /\ hand'[f].updated <=> hand[f].updated
              /\ hand'[f].effect <=> hand[f].effect \/ News(f, p)
              /\ DOMAIN hand'[f].got = DOMAIN hand[f].got \ {p}
              /\ \A q \in DOMAIN hand'[f].got : /\ hand'[f].got[q] = hand[f].got[q]
                                                /\ hand'[f].prev[q] = hand[f].prev[q]
          BY <2>8, <3>2, WriteEffect
        <4>2. CauseAhead(f)
          BY DEF CauseInv
        <4>3. hand'[f].added => hand'[f].effect
          BY <4>1, <4>2 DEF CauseAhead, News
        <4>4. ASSUME hand'[f].updated, ~hand'[f].effect
              PROVE  \E q \in DOMAIN hand'[f].got : Changed(q, hand'[f].prev[q], hand'[f].got[q])
          <5>1. PICK q \in DOMAIN hand[f].got : Changed(q, hand[f].prev[q], hand[f].got[q])
            BY <4>1, <4>2, <4>4 DEF CauseAhead
          <5>2. q # p
            BY <4>1, <4>4, <5>1, ChangeIsNews
          <5>3. QED
            BY <4>1, <5>1, <5>2
        <4>5. QED
          BY <4>3, <4>4
      <3>3. QED
        BY <3>1, <3>2
    <2>9. CASE UNCHANGED hand
      BY <2>1, <2>9
    <2>10. ASSUME NEW k \in Feeds, Lapse(k) \/ ManualRefresh(k) PROVE CauseAhead(f)'
      BY <2>9, <2>10 DEF Lapse, ManualRefresh
    <2>11. CASE Purge \/ Drop \/ EraseFails
      BY <2>9, <2>11 DEF Purge, Drop, EraseFails
    <2>12. QED
      BY <2>3, <2>4, <2>5, <2>6, <2>7, <2>8, <2>9, <2>10, <2>11 DEF StoreNext, storeVars
  <1>3. CauseInv => NewsHasCause
    BY DEF CauseInv, CauseAhead, NewsHasCause, Written, At
  <1>4. QED
    BY <1>1, <1>2, <1>3, StoreTyped, PTL DEF StoreSpec

(* A step that leaves the history of a product and its sync. *)
LEMMA SameAccount ==
  ASSUME NEW k \in Feeds, hand'[k] = hand[k], stale'[k] = stale[k], excused[k] \subseteq excused'[k],
         account' => account
  PROVE  Accounted(k) => Accounted(k)'
  BY DEF Accounted, At, Busy

LEMMA Settled ==
  ASSUME NEW k \in Feeds, stale'[k] \subseteq excused'[k]
  PROVE  Accounted(k)'
  BY DEF Accounted

(* A sync that does not write has nothing to announce. *)
LEMMA NothingOpen ==
  ASSUME NEW k \in Feeds, Accounted(k), account, ~At(k, "write") \/ (~hand[k].added /\ ~hand[k].updated)
  PROVE  stale[k] \subseteq excused[k]
  BY DEF Accounted

LEMMA AnnounceSettles ==
  ASSUME NEW k \in Feeds, NEW f \in Feeds, Announce(k)
  PROVE  /\ f = k => stale'[f] = {}
         /\ f # k => stale'[f] = stale[f] /\ excused'[f] = excused[f]
  BY DEF Announce

LEMMA FireKeepsAccount ==
  ASSUME StoreTypeOK, AnnounceInv, NEW k \in Feeds, Fire(k), NEW f \in Feeds
  PROVE  Accounted(f)'
  <1>1. k \in Products /\ f \in Products /\ Others(k) /\ account' = account
    BY EndEffect DEF Products, Fire
  <1>2. Accounted(f) /\ Accounted(k)
    BY DEF AnnounceInv
  <1>3. CASE Announce(k)
    <2>1. CASE f = k
      BY <1>3, <2>1, AnnounceSettles, Settled
    <2>2. CASE f # k
      BY <1>1, <1>2, <1>3, <2>2, AnnounceSettles, SameAccount DEF Others
    <2>3. QED
      BY <2>1, <2>2
  <1>4. CASE /\ ~account \/ (~hand[k].added /\ ~hand[k].updated)
             /\ UNCHANGED <<stale, excused>>
    <2>1. CASE ~account
      BY <1>1, <1>3, <2>1, Zenon DEF Accounted
    <2>2. CASE account /\ f = k
      BY <1>2, <1>4, <2>2, NothingOpen, Settled
    <2>3. CASE f # k
      BY <1>1, <1>2, <1>4, <2>3, SameAccount DEF Others
    <2>4. QED
      BY <2>1, <2>2, <2>3
  <1>5. CASE excused' = [excused EXCEPT ![k] = @ \cup stale[k]] /\ UNCHANGED stale
    <2>1. /\ excused'[k] = excused[k] \cup stale[k]
          /\ f # k => excused'[f] = excused[f]
          /\ stale' = stale
      BY <1>5 DEF StoreTypeOK
    <2>2. CASE f = k
      <3>1. stale'[f] \subseteq excused'[f]
        BY <2>1, <2>2
      <3>2. QED
        BY <3>1, Settled
    <2>3. CASE f # k
      BY <1>1, <1>2, <1>5, <2>1, <2>3, SameAccount DEF Others
    <2>4. QED
      BY <2>2, <2>3
  <1>6. QED
    BY <1>3, <1>4, <1>5 DEF Fire

LEMMA WriteKeepsAccount ==
  ASSUME StoreTypeOK, AnnounceInv, NEW k \in Feeds, NEW p \in Posts, Write(k, p)
  PROVE  ChangeFound(k)' /\ Accounted(k)'
  <1>1. /\ At(k, "write") /\ At(k, "write")' /\ p \in DOMAIN hand[k].got
        /\ hand'[k].added <=> hand[k].added \/ ~doc[p].stored
        /\ hand'[k].updated <=> hand[k].updated
        /\ DOMAIN hand'[k].got = DOMAIN hand[k].got \ {p}
        /\ \A q \in DOMAIN hand'[k].got : /\ hand'[k].got[q] = hand[k].got[q]
                                          /\ hand'[k].prev[q] = hand[k].prev[q]
    BY WriteEffect
  <1>2. ChangeFound(k) /\ Accounted(k)
    BY DEF AnnounceInv
  <1>3. ChangeFound(k)'
    BY <1>1, <1>2 DEF ChangeFound, Changed, Merge
  <1>4. /\ stale'[k] = IF News(k, p) THEN stale[k] \cup {p} ELSE stale[k]
        /\ excused'[k] = IF News(k, p) /\ ~Alone(k, p) THEN excused[k] \cup {p} ELSE excused[k]
    <2>1. /\ stale' = [stale EXCEPT ![k] = IF News(k, p) THEN @ \cup {p} ELSE @]
          /\ excused' = [excused EXCEPT ![k] = IF News(k, p) /\ ~Alone(k, p) THEN @ \cup {p} ELSE @]
      BY WriteEffect
    <2>2. stale \in [Feeds -> SUBSET Posts] /\ excused \in [Feeds -> SUBSET Posts]
      BY DEF StoreTypeOK
    <2>3. QED
      BY <2>1, <2>2
  <1>5. account' = account
    BY DEF Write
  <1>6. CASE News(k, p) /\ Alone(k, p)
    <2>1. hand'[k].added \/ hand'[k].updated
      BY <1>1, <1>2, <1>6, NewsIsChange DEF ChangeFound
    <2>2. QED
      BY <1>1, <1>3, <2>1, Zenon DEF Accounted
  <1>7. CASE ~(News(k, p) /\ Alone(k, p))
    <2>1. stale[k] \subseteq excused[k] => stale'[k] \subseteq excused'[k]
      BY <1>4, <1>7
    <2>2. QED
      BY <1>1, <1>2, <1>3, <1>5, <2>1, Zenon DEF Accounted
  <1>8. QED
    BY <1>6, <1>7

(* What a sync changed is announced when it is over, for any number of        *)
(* products, posts, syncs and faults, but for the three excuses.              *)
THEOREM ChangesTold == StoreSpec => []ChangesAnnounced
  <1>1. StoreInit => AnnounceInv
    <2> SUFFICES ASSUME StoreInit, NEW k \in Feeds PROVE ChangeFound(k) /\ Accounted(k)
      BY DEF AnnounceInv
    <2>1. ~At(k, "write") /\ stale[k] = {}
      BY DEF StoreInit, At, Busy, Products
    <2>2. QED
      BY <2>1, NotWriting DEF Accounted
  <1>2. StoreTypeOK /\ AnnounceInv /\ [StoreNext]_storeVars => AnnounceInv'
    <2> SUFFICES ASSUME StoreTypeOK, AnnounceInv, [StoreNext]_storeVars, NEW f \in Feeds
                 PROVE  ChangeFound(f)' /\ Accounted(f)'
      BY DEF AnnounceInv
    <2>1. f \in Products /\ ChangeFound(f) /\ Accounted(f)
      BY DEF Products, AnnounceInv
    <2>2. CASE hand'[f] = hand[f] /\ stale'[f] = stale[f] /\ excused[f] \subseteq excused'[f] /\ account' = account
      BY <2>1, <2>2, SameSync, SameAccount
    <2>3. ASSUME NEW k \in Products, Fetch(k) PROVE ChangeFound(f)' /\ Accounted(f)'
      <3>1. CASE f # k
        BY <2>1, <2>2, <2>3, <3>1, FetchEffect DEF Others, Fetch
      <3>2. CASE f = k
        <4>1. account /\ ~At(f, "write") /\ UNCHANGED <<stale, excused>>
          BY <2>3, <3>2 DEF Fetch, At
        <4>2. ~At(f, "write")'
          BY <2>3, <3>2, FetchEffect DEF At
        <4>3. QED
          BY <2>1, <4>1, <4>2, NothingOpen, Settled DEF ChangeFound
      <3>3. QED
        BY <3>1, <3>2
    <2>4. ASSUME NEW k \in Products, Fails(k) PROVE ChangeFound(f)' /\ Accounted(f)'
      <3>1. excused'[f] = (IF f = k THEN excused[f] \cup stale[f] ELSE excused[f]) /\ UNCHANGED <<stale, account>>
        BY <2>4 DEF Fails
      <3>2. Others(k) /\ ~Busy(k)'
        BY <2>4, EndEffect DEF Fails
      <3>3. CASE f = k
        BY <3>1, <3>2, <3>3, Settled DEF ChangeFound, At
      <3>4. CASE f # k
        BY <2>1, <2>2, <3>1, <3>2, <3>4 DEF Others
      <3>5. QED
        BY <3>3, <3>4
    <2>5. ASSUME NEW k \in Feeds, Fire(k) PROVE ChangeFound(f)' /\ Accounted(f)'
      <3>1. Others(k) /\ ~Busy(k)'
        BY <2>5, EndEffect DEF Fire, Products
      <3>2. ChangeFound(f)'
        BY <2>1, <3>1, SameSync DEF Others, ChangeFound, At
      <3>3. QED
        BY <2>5, <3>2, FireKeepsAccount
    <2>6. ASSUME NEW p \in Posts, Fold(p) PROVE ChangeFound(f)' /\ Accounted(f)'
      <3>1. f # Deep
        BY ContentAssumption
      <3>2. QED
        BY <2>1, <2>2, <2>6, <3>1, FoldEffect DEF Others, Fold
    <2>7. ASSUME NEW k \in Feeds, Load(k) PROVE ChangeFound(f)' /\ Accounted(f)'
      <3>1. UNCHANGED <<stale, excused, account>> /\ Others(k)
        BY <2>7, LoadEffect DEF Load
      <3>2. CASE f # k
        BY <2>1, <2>2, <3>1, <3>2 DEF Others
      <3>3. CASE f = k
        <4>1. ChangeFound(f)'
          <5> SUFFICES ASSUME NEW p \in DOMAIN hand'[f].got, Changed(p, hand'[f].prev[p], hand'[f].got[p])
                       PROVE  hand'[f].updated
            BY DEF ChangeFound, Changed, Merge
          <5>1. QED
            BY <2>7, <3>3, LoadEffect
        <4>2. ~At(f, "write")
          BY <2>7, <3>3 DEF Load, At
        <4>3. Accounted(f)'
          BY <2>1, <3>1, <4>2 DEF Accounted
        <4>4. QED
          BY <4>1, <4>3
      <3>4. QED
        BY <3>2, <3>3
    <2>8. ASSUME NEW k \in Feeds, NEW p \in Posts, Write(k, p) PROVE ChangeFound(f)' /\ Accounted(f)'
      <3>1. CASE f = k
        BY <2>8, <3>1, WriteKeepsAccount
      <3>2. CASE f # k
        <4>1. stale'[f] = stale[f] /\ excused'[f] = excused[f] /\ Others(k)
          BY <2>8, <3>2, WriteEffect DEF StoreTypeOK
        <4>2. QED
          BY <2>1, <2>2, <2>8, <3>2, <4>1 DEF Others, Write
      <3>3. QED
        BY <3>1, <3>2
    <2>9. ASSUME NEW k \in Feeds, ManualRefresh(k) PROVE ChangeFound(f)' /\ Accounted(f)'
      <3>1. ChangeFound(f)'
        BY <2>1, <2>9, SameSync DEF ManualRefresh
      <3>2. CASE f = k
        BY <2>9, <3>1, <3>2, AnnounceSettles, Settled DEF ManualRefresh
      <3>3. CASE f # k
        BY <2>1, <2>2, <2>9, <3>3, AnnounceSettles DEF ManualRefresh
      <3>4. QED
        BY <3>2, <3>3
    <2>10. CASE Purge \/ Drop
      <3>1. stale'[f] = {} /\ UNCHANGED hand
        BY <2>10 DEF Purge, Drop
      <3>2. QED
        BY <2>1, <3>1, SameSync, Settled
    <2>11. CASE UNCHANGED <<hand, stale, excused, account>>
      BY <2>2, <2>11
    <2>12. ASSUME NEW k \in Feeds, Lapse(k) PROVE ChangeFound(f)' /\ Accounted(f)'
      BY <2>11, <2>12 DEF Lapse
    <2>13. CASE EraseFails
      BY <2>11, <2>13 DEF EraseFails
    <2>14. QED
      BY <2>3, <2>4, <2>5, <2>6, <2>7, <2>8, <2>9, <2>10, <2>11, <2>12, <2>13 DEF StoreNext, storeVars
  <1>3. AnnounceInv => ChangesAnnounced
    BY DEF AnnounceInv, Accounted, ChangesAnnounced, At
  <1>4. QED
    BY <1>1, <1>2, <1>3, StoreTyped, PTL DEF StoreSpec
-----------------------------------------------------------------------------
(* The deep analytics of a post only ever come from a fold, and a fold that   *)
(* has any has the newest there are: nothing stored or read is newer.         *)
Folding(p) == Busy(Deep) /\ p \in DOMAIN hand[Deep].got
Folds(p) == Folding(p) /\ hand[Deep].got[p] # Unknown
Reading(k, p) == At(k, "write") /\ p \in DOMAIN hand[k].got

StoredOlder(p) == doc[p].deep <= live[p] /\ (Folds(p) => doc[p].deep <= hand[Deep].got[p])
ReadOlder(k, p) ==
  Reading(k, p) =>
    hand[k].prev[p].deep <= live[p] /\ (Folds(p) => hand[k].prev[p].deep <= hand[Deep].got[p])

DeepInv == \A p \in Posts : StoredOlder(p) /\ \A k \in Feeds : ReadOlder(k, p)

LEMMA NumbersNat ==
  ASSUME StoreTypeOK, NEW p \in Posts
  PROVE  /\ doc[p].deep \in Nat /\ live[p] \in Nat
         /\ \A k \in Feeds : Reading(k, p) => hand[k].prev[p] \in Documents /\ hand[k].prev[p].deep \in Nat
         /\ Folding(p) => hand[Deep].got[p] \in Nat /\ hand[Deep].got[p] <= live[p]
  <1>1. \A d \in Documents : d.deep \in Nat
    BY VersionsNat DEF Documents
  <1>2. doc[p].deep \in Nat /\ live[p] \in Nat
    BY <1>1, VersionsNat DEF StoreTypeOK
  <1>3. ASSUME NEW k \in Feeds, Reading(k, p)
        PROVE  hand[k].prev[p] \in Documents /\ hand[k].prev[p].deep \in Nat
    <2>1. hand[k].prev[p] \in Documents
      BY <1>3, InWrite DEF Reading, Products
    <2>2. QED
      BY <1>1, <2>1
  <1>4. ASSUME Folding(p)
        PROVE  hand[Deep].got[p] \in Nat /\ hand[Deep].got[p] <= live[p]
    <2>1. Deep \in Products /\ Busy(Deep) /\ p \in DOMAIN hand[Deep].got
      BY <1>4 DEF Products, Folding
    <2>2. hand[Deep].got[p] \in Versions
      BY <2>1, InHand
    <2>3. hand[Deep].got[p] <= live[p]
      BY <2>1 DEF StoreTypeOK
    <2>4. QED
      BY <2>2, <2>3, VersionsNat
  <1>5. QED
    BY <1>2, <1>3, <1>4

LEMMA SameReading ==
  ASSUME StoreTypeOK, NEW c \in Products, Others(c), NEW p \in Posts, NEW k \in Products \ {c}
  PROVE  /\ Reading(k, p)' <=> Reading(k, p)
         /\ hand'[k] = hand[k]
         /\ k = Deep => (Folding(p)' <=> Folding(p))
  BY DEF Others, Reading, Folding, At, Busy

LEMMA FetchKeepsDeep ==
  ASSUME StoreTypeOK, DeepInv, NEW c \in Products, Fetch(c), NEW p \in Posts
  PROVE  StoredOlder(p)' /\ \A k \in Feeds : ReadOlder(k, p)'
  <1>1. /\ Others(c) /\ hand'[c].at # "write"
        /\ \A q \in DOMAIN hand'[c].got : hand'[c].got[q] \in {live'[q], Unknown}
        /\ live[p] <= live'[p] /\ live'[p] \in Nat /\ live[p] \in Nat
        /\ doc' = doc /\ Deep \in Products
    BY FetchEffect DEF Fetch, Products
  <1>2. Folds(p)' => IF c = Deep THEN hand'[Deep].got[p] = live'[p]
                     ELSE Folds(p) /\ hand'[Deep] = hand[Deep]
    BY <1>1, SameReading DEF Folding, Folds
  <1>3. StoredOlder(p) /\ doc[p].deep \in Nat
    BY NumbersNat DEF DeepInv
  <1>4. StoredOlder(p)'
    BY <1>1, <1>2, <1>3 DEF StoredOlder
  <1>5. ASSUME NEW k \in Feeds, Reading(k, p)'
        PROVE  hand'[k].prev[p].deep <= live'[p] /\ (Folds(p)' => hand'[k].prev[p].deep <= hand'[Deep].got[p])
    <2>1. k # c /\ k \in Products
      BY <1>1, <1>5 DEF Reading, At, Products
    <2>2. hand'[k] = hand[k] /\ Reading(k, p)
      BY <1>1, <1>5, <2>1, SameReading
    <2>3. ReadOlder(k, p) /\ hand[k].prev[p].deep \in Nat
      BY <2>2, NumbersNat DEF DeepInv
    <2>4. QED
      BY <1>1, <1>2, <2>2, <2>3 DEF ReadOlder
  <1>6. QED
    BY <1>4, <1>5 DEF ReadOlder

LEMMA LoadKeepsDeep ==
  ASSUME StoreTypeOK, DeepInv, NEW c \in Feeds, Load(c), NEW p \in Posts
  PROVE  StoredOlder(p)' /\ \A k \in Feeds : ReadOlder(k, p)'
  <1>1. /\ Others(c) /\ c \in Products /\ Deep \in Products /\ c # Deep
        /\ doc' = doc /\ live' = live
        /\ Reading(c, p)' => hand'[c].prev[p] = doc[p]
    BY LoadEffect, ContentAssumption DEF Load, Products, Reading
  <1>2. (Folds(p)' <=> Folds(p)) /\ hand'[Deep] = hand[Deep]
    BY <1>1, SameReading DEF Folds
  <1>3. StoredOlder(p) /\ StoredOlder(p)'
    BY <1>1, <1>2 DEF DeepInv, StoredOlder
  <1>4. ASSUME NEW k \in Feeds, Reading(k, p)'
        PROVE  hand'[k].prev[p].deep <= live'[p] /\ (Folds(p)' => hand'[k].prev[p].deep <= hand'[Deep].got[p])
    <2>1. CASE k = c
      BY <1>1, <1>3, <1>4, <2>1 DEF StoredOlder
    <2>2. CASE k # c
      <3>1. hand'[k] = hand[k] /\ Reading(k, p)
        BY <1>1, <1>4, <2>2, SameReading DEF Products
      <3>2. QED
        BY <1>1, <1>2, <3>1 DEF DeepInv, ReadOlder
    <2>3. QED
      BY <2>1, <2>2
  <1>5. QED
    BY <1>3, <1>4 DEF ReadOlder

LEMMA WriteKeepsDeep ==
  ASSUME StoreTypeOK, DeepInv, NEW c \in Feeds, NEW q \in Posts, Write(c, q), NEW p \in Posts
  PROVE  StoredOlder(p)' /\ \A k \in Feeds : ReadOlder(k, p)'
  <1>1. /\ Others(c) /\ c \in Products /\ Deep \in Products /\ c # Deep
        /\ Reading(c, q) /\ live' = live
        /\ Reading(c, p)' => Reading(c, p) /\ hand'[c].prev[p] = hand[c].prev[p]
        /\ doc' = [doc EXCEPT ![q] = Merge(hand[c].prev[q], hand[c].got[q])]
    <2>1. live' = live /\ c # Deep /\ Deep \in Products
      BY ContentAssumption DEF Write, Products
    <2>2. Others(c) /\ c \in Products /\ At(c, "write") /\ q \in DOMAIN hand[c].got
      BY WriteEffect
    <2>3. /\ DOMAIN hand'[c].got = DOMAIN hand[c].got \ {q}
          /\ \A x \in DOMAIN hand'[c].got : hand'[c].prev[x] = hand[c].prev[x]
          /\ doc' = [doc EXCEPT ![q] = Merge(hand[c].prev[q], hand[c].got[q])]
      BY WriteEffect
    <2>4. QED
      BY <2>1, <2>2, <2>3 DEF Reading
  <1>2. (Folds(p)' <=> Folds(p)) /\ hand'[Deep] = hand[Deep]
    BY <1>1, SameReading DEF Folds
  <1>3. doc'[p].deep = IF p = q THEN hand[c].prev[p].deep ELSE doc[p].deep
    <2>1. Merge(hand[c].prev[q], hand[c].got[q]).deep = hand[c].prev[q].deep
      BY DEF Merge
    <2>2. QED
      BY <1>1, <2>1 DEF StoreTypeOK
  <1>4. StoredOlder(p)'
    <2>1. StoredOlder(p) /\ ReadOlder(c, p)
      BY DEF DeepInv
    <2>2. QED
      BY <1>1, <1>2, <1>3, <2>1 DEF StoredOlder, ReadOlder
  <1>5. ASSUME NEW k \in Feeds, Reading(k, p)'
        PROVE  hand'[k].prev[p].deep <= live'[p] /\ (Folds(p)' => hand'[k].prev[p].deep <= hand'[Deep].got[p])
    <2>1. Reading(k, p) /\ hand'[k].prev[p] = hand[k].prev[p]
      <3>1. CASE k = c
        BY <1>1, <1>5, <3>1
      <3>2. CASE k # c
        BY <1>1, <1>5, <3>2, SameReading DEF Products
      <3>3. QED
        BY <3>1, <3>2
    <2>2. QED
      BY <1>1, <1>2, <2>1 DEF DeepInv, ReadOlder
  <1>6. QED
    BY <1>4, <1>5 DEF ReadOlder

LEMMA FoldKeepsDeep ==
  ASSUME StoreTypeOK, DeepInv, NEW q \in Posts, Fold(q), NEW p \in Posts
  PROVE  StoredOlder(p)' /\ \A k \in Feeds : ReadOlder(k, p)'
  <1>1. /\ Others(Deep) /\ Deep \in Products /\ Deep \notin Feeds
        /\ Folding(q) /\ live' = live
        /\ Folds(p)' => Folds(p) /\ p # q /\ hand'[Deep].got[p] = hand[Deep].got[p]
        /\ p # q => doc'[p] = doc[p]
        /\ doc'[q].deep = IF doc[q].stored THEN hand[Deep].got[q] ELSE doc[q].deep
    <2>1. Busy(Deep) /\ live' = live /\ Deep \notin Feeds
      BY ContentAssumption DEF Fold
    <2> HIDE DEF Fold
    <2>2. Others(Deep) /\ Deep \in Products /\ q \in DOMAIN hand[Deep].got
      BY FoldEffect
    <2>3. Busy(Deep)' => /\ DOMAIN hand'[Deep].got = DOMAIN hand[Deep].got \ {q}
                         /\ \A x \in DOMAIN hand'[Deep].got : hand'[Deep].got[x] = hand[Deep].got[x]
      BY FoldEffect
    <2>4. /\ p # q => doc'[p] = doc[p]
          /\ doc'[q].deep = IF doc[q].stored THEN hand[Deep].got[q] ELSE doc[q].deep
      BY FoldEffect
    <2>5. QED
      BY <2>1, <2>2, <2>3, <2>4 DEF Folding, Folds
  <1>2. StoredOlder(p)'
    <2>1. StoredOlder(p) /\ (Folding(p) => hand[Deep].got[p] <= live[p])
      BY NumbersNat DEF DeepInv
    <2>2. QED
      BY <1>1, <2>1 DEF StoredOlder
  <1>3. ASSUME NEW k \in Feeds, Reading(k, p)'
        PROVE  hand'[k].prev[p].deep <= live'[p] /\ (Folds(p)' => hand'[k].prev[p].deep <= hand'[Deep].got[p])
    <2>1. Reading(k, p) /\ hand'[k] = hand[k]
      BY <1>1, <1>3, SameReading DEF Products
    <2>2. QED
      BY <1>1, <2>1 DEF DeepInv, ReadOlder
  <1>4. QED
    BY <1>2, <1>3 DEF ReadOlder

(* A step that only ends syncs, or that empties the store. *)
LEMMA EndKeepsDeep ==
  ASSUME StoreTypeOK, DeepInv, live' = live, doc' = doc \/ doc' = [x \in Posts |-> Absent],
         NEW c \in Products, hand' = hand \/ hand' = [hand EXCEPT ![c] = Idle], NEW p \in Posts
  PROVE  StoredOlder(p)' /\ \A k \in Feeds : ReadOlder(k, p)'
  <1>1. doc'[p].deep = doc[p].deep \/ doc'[p].deep = 0
    BY DEF Absent, Unknown
  <1>2. \A k \in Products : Busy(k)' => Busy(k) /\ hand'[k] = hand[k]
    BY DEF StoreTypeOK, Busy
  <1>3. Folds(p)' => Folds(p) /\ hand'[Deep] = hand[Deep]
    BY <1>2 DEF Folding, Folds, Products
  <1>4. \A k \in Feeds : Reading(k, p)' => Reading(k, p) /\ hand'[k] = hand[k]
    BY <1>2 DEF Reading, At, Products
  <1>5. live[p] \in Nat /\ (Folds(p) => hand[Deep].got[p] \in Nat)
    BY NumbersNat DEF Folds
  <1>6. StoredOlder(p)'
    BY <1>1, <1>3, <1>5 DEF DeepInv, StoredOlder
  <1>7. QED
    BY <1>3, <1>4, <1>6 DEF DeepInv, ReadOlder

LEMMA DeepStep ==
  ASSUME StoreTypeOK, DeepInv, [StoreNext]_storeVars
  PROVE  DeepInv'
  <1> SUFFICES ASSUME NEW p \in Posts
               PROVE  StoredOlder(p)' /\ \A k \in Feeds : ReadOlder(k, p)'
    BY DEF DeepInv
  <1>1. Deep \in Products /\ Feeds \subseteq Products
    BY DEF Products
  <1>2. ASSUME NEW q \in Posts, Fold(q) PROVE StoredOlder(p)' /\ \A k \in Feeds : ReadOlder(k, p)'
    BY <1>2, FoldKeepsDeep
  <1>3. ASSUME NEW c \in Products, Fetch(c) PROVE StoredOlder(p)' /\ \A k \in Feeds : ReadOlder(k, p)'
    BY <1>3, FetchKeepsDeep
  <1>4. ASSUME NEW c \in Products, Fails(c) PROVE StoredOlder(p)' /\ \A k \in Feeds : ReadOlder(k, p)'
    BY <1>4, EndKeepsDeep DEF Fails
  <1>5. ASSUME NEW c \in Feeds, Load(c) PROVE StoredOlder(p)' /\ \A k \in Feeds : ReadOlder(k, p)'
    BY <1>5, LoadKeepsDeep
  <1>6. ASSUME NEW c \in Feeds, Fire(c) PROVE StoredOlder(p)' /\ \A k \in Feeds : ReadOlder(k, p)'
    BY <1>1, <1>6, EndKeepsDeep DEF Fire
  <1>7. ASSUME NEW c \in Feeds, NEW q \in Posts, Write(c, q)
        PROVE  StoredOlder(p)' /\ \A k \in Feeds : ReadOlder(k, p)'
    BY <1>7, WriteKeepsDeep
  <1>8. CASE UNCHANGED <<live, hand>> /\ (doc' = doc \/ doc' = [x \in Posts |-> Absent])
    BY <1>1, <1>8, EndKeepsDeep
  <1>9. ASSUME NEW c \in Feeds, Lapse(c) \/ ManualRefresh(c)
        PROVE  StoredOlder(p)' /\ \A k \in Feeds : ReadOlder(k, p)'
    BY <1>8, <1>9 DEF Lapse, ManualRefresh
  <1>10. CASE Purge \/ Drop \/ EraseFails
    BY <1>8, <1>10 DEF Purge, Drop, EraseFails
  <1>11. CASE UNCHANGED storeVars
    BY <1>8, <1>11 DEF storeVars
  <1>12. QED
    BY <1>2, <1>3, <1>4, <1>5, <1>6, <1>7, <1>9, <1>10, <1>11 DEF StoreNext

(* A number that was stored is lost only to a write over a document that has  *)
(* changed since it was read, or, of the deep analytics alone, to a fold that *)
(* came empty: a feed that missed a number keeps what was stored, and what a  *)
(* fold does bring is never older than what it replaces.                      *)
THEOREM KnownKept == StoreSpec => KeepsKnown
  <1>1. StoreInit => DeepInv
    <2> SUFFICES ASSUME StoreInit, NEW p \in Posts
                 PROVE  StoredOlder(p) /\ \A k \in Feeds : ReadOlder(k, p)
      BY DEF DeepInv
    <2>1. \A k \in Products : ~Busy(k)
      BY DEF StoreInit, Busy
    <2>2. doc[p].deep = 0 /\ live[p] = 0
      BY DEF StoreInit, Absent, Unknown
    <2>3. QED
      BY <2>1, <2>2 DEF StoredOlder, ReadOlder, Folds, Folding, Reading, At, Products
  <1>2. StoreTypeOK /\ DeepInv /\ [StoreNext]_storeVars => DeepInv'
    BY DeepStep
  <1>3. ASSUME StoreTypeOK, DeepInv, [StoreNext]_storeVars, NEW p \in Posts, doc[p].stored, doc'[p].stored
        PROVE  StepKeeps(p)
    <2>1. doc[p].deep \in Nat
      BY <1>3, NumbersNat
    <2>2. CASE doc'[p] = doc[p]
      BY <2>1, <2>2 DEF StepKeeps
    <2>3. ASSUME NEW q \in Posts, Fold(q), doc'[p] # doc[p] PROVE StepKeeps(p)
      <3>1. p = q
        <4>1. \A x \in Posts \ {q} : doc'[x] = doc[x]
          BY <1>3, <2>3, FoldEffect
        <4>2. QED
          BY <2>3, <4>1
      <3>2. doc'[p].metric = doc[p].metric /\ doc'[p].deep = hand[Deep].got[p] /\ Folding(p)
        <4>1. Busy(Deep)
          BY <2>3 DEF Fold
        <4>2. p \in DOMAIN hand[Deep].got /\ doc'[p].metric = doc[p].metric /\ doc'[p].deep = hand[Deep].got[p]
          BY <1>3, <2>3, <3>1, FoldEffect
        <4>3. QED
          BY <4>1, <4>2 DEF Folding
      <3>3. CASE hand[Deep].got[p] = Unknown
        BY <3>2, <3>3 DEF Folding, Empties, StepKeeps
      <3>4. CASE hand[Deep].got[p] # Unknown
        <4>1. doc[p].deep <= hand[Deep].got[p] /\ hand[Deep].got[p] \in Nat
          BY <1>3, <3>2, <3>4, NumbersNat DEF DeepInv, StoredOlder, Folds
        <4>2. QED
          BY <2>1, <3>2, <4>1 DEF StepKeeps
      <3>5. QED
        BY <3>3, <3>4
    <2>4. ASSUME NEW k \in Feeds, NEW q \in Posts, Write(k, q), doc'[p] # doc[p] PROVE StepKeeps(p)
      <3>1. /\ doc' = [doc EXCEPT ![q] = Merge(hand[k].prev[q], hand[k].got[q])]
            /\ At(k, "write") /\ q \in DOMAIN hand[k].got
            /\ hand[k].prev[q] \in Documents /\ hand[k].got[q] \in Versions
        BY <1>3, <2>4, WriteEffect
      <3>2. p = q
        BY <1>3, <2>4, <3>1 DEF StoreTypeOK
      <3>3. doc'[p] = Merge(hand[k].prev[p], hand[k].got[p])
        BY <1>3, <3>1, <3>2 DEF StoreTypeOK
      <3>4. CASE hand[k].prev[p] = doc[p]
        <4>1. doc'[p].deep = doc[p].deep /\ (doc'[p].metric = Unknown => doc[p].metric = Unknown)
          BY <3>1, <3>2, <3>3, <3>4, MergeKeeps
        <4>2. QED
          BY <2>1, <4>1 DEF StepKeeps
      <3>5. CASE hand[k].prev[p] # doc[p]
        BY <3>1, <3>2, <3>5 DEF Overwrites, At, StepKeeps
      <3>6. QED
        BY <3>4, <3>5
    <2>5. CASE Purge
      BY <1>3, <2>5 DEF Purge, Absent, StepKeeps
    <2>6. CASE doc' = doc
      BY <2>2, <2>6
    <2>7. QED
      BY <1>3, <2>2, <2>3, <2>4, <2>5, <2>6
         DEF StoreNext, storeVars, Fetch, Fails, Load, Fire, Lapse, ManualRefresh, Drop, EraseFails
  <1>4. StoreTypeOK /\ DeepInv /\ [StoreNext]_storeVars
        => [\A p \in Posts : StepKeeps(p)]_storeVars
    BY <1>3 DEF StepKeeps
  <1>5. QED
    BY <1>1, <1>2, <1>4, StoreTyped, PTL DEF StoreSpec, KeepsKnown
=============================================================================
