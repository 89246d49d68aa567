------------------------------- MODULE Digest -------------------------------
(***************************************************************************)
(* Digests: fire() counts the new items of a sync into one bucket per      *)
(* subscribed endpoint (pending_webhook_events), and the hourly and daily  *)
(* crons turn each old enough bucket into an emit() and delete it.         *)
(*                                                                         *)
(* One account and product, as buckets of others share nothing with these. *)
(* An item is new in one sync only, so a bucket's items_added is kept as   *)
(* the set of the items it counts.  emit() is WebhookDelivery's: here it   *)
(* creates a delivery for each subscribed endpoint, or swallows an error   *)
(* and creates only some.                                                  *)
(***************************************************************************)
EXTENDS Naturals, FiniteSets

CONSTANTS
  Items,           \* what the syncs find
  Endpoints,       \* the workspace's webhook endpoints
  SampleCap,       \* SAMPLE_ID_CAP
  BatchSize,       \* BATCH_SIZE of the flush
  MaxDisturbances  \* bound: faults, crashes and requests in a behaviour

ASSUME DigestAssumption ==
  /\ IsFiniteSet(Items) /\ IsFiniteSet(Endpoints)
  /\ SampleCap \in Nat \ {0}
  /\ BatchSize \in Nat \ {0}
  /\ MaxDisturbances \in Nat

VARIABLES
  cadence,    \* the workspace's cadence for the product
  recent,     \* the cadences a process may still have in its 60-second cache
  endpoint,   \* endpoints: subscribed, muted (inactive or without the event), removed
  bucket,     \* the pending_webhook_events row of each endpoint
  stored,     \* items persisted so far
  sync,       \* the sync in its fire(): the throttle lock allows one
  flush,      \* the hourly and the daily flush
  told,       \* deliveries that announced each item to each endpoint
  counted,    \* items counted into each endpoint's bucket so far
  atRisk,     \* of those, what was counted after a flush had read the bucket
  swallowed,  \* of those, what an emit() did not tell and hid the error
  loyal,      \* endpoints subscribed throughout
  left        \* disturbances that may still happen

vars == <<cadence, recent, endpoint, bucket, stored, sync, flush, told, counted,
          atRisk, swallowed, loyal, left>>

Digested == {"hourly", "daily"}
Cadences == Digested \cup {"immediate"}
NoBucket == [age |-> "none"]
Buckets == [age : {"new", "hour", "day"}, cadence : Digested, born : SUBSET Items,
            items : SUBSET Items, samples : SUBSET Items]
NoSync == [stage |-> "idle"]
Syncs == [stage : {"fire", "emit", "read", "upsert"}, new : SUBSET Items, cadence : Cadences,
          todo : SUBSET Endpoints, on : SUBSET Endpoints, seen : SUBSET Items]
Snapshots == [e : Endpoints, bucket : Buckets, wanted : BOOLEAN]
NoFlush == [batch |-> {}, emitted |-> {}]
HasBucket(e) == bucket[e] # NoBucket
Used == MaxDisturbances - left

TypeOK ==
  /\ cadence \in Cadences
  /\ recent \subseteq Cadences
  /\ endpoint \in [Endpoints -> {"subscribed", "muted", "removed"}]
  /\ bucket \in [Endpoints -> Buckets \cup {NoBucket}]
  /\ stored \subseteq Items
  /\ sync \in Syncs \cup {NoSync}
  /\ sync.stage \in {"read", "upsert"} => sync.cadence \in Digested
  /\ flush \in [Digested -> [batch : SUBSET Snapshots, emitted : SUBSET Snapshots]]
  /\ told \in [Endpoints -> [Items -> Nat]]
  /\ counted \in [Endpoints -> SUBSET Items]
  /\ atRisk \in [Endpoints -> SUBSET Items]
  /\ swallowed \in [Endpoints -> SUBSET Items]
  /\ loyal \subseteq Endpoints
  /\ left \in 0..MaxDisturbances

Init ==
  /\ cadence \in Digested
  /\ recent = {cadence}
  /\ endpoint = [e \in Endpoints |-> "subscribed"]
  /\ bucket = [e \in Endpoints |-> NoBucket]
  /\ stored = {}
  /\ sync = NoSync
  /\ flush = [c \in Digested |-> NoFlush]
  /\ told = [e \in Endpoints |-> [i \in Items |-> 0]]
  /\ counted = [e \in Endpoints |-> {}]
  /\ atRisk = [e \in Endpoints |-> {}]
  /\ swallowed = [e \in Endpoints |-> {}]
  /\ loyal = Endpoints
  /\ left = MaxDisturbances

(* A flush has read the bucket that is there now. *)
InFlush(e) ==
  \E c \in Digested : \E s \in flush[c].batch \cup flush[c].emitted :
    s.e = e /\ HasBucket(e) /\ bucket[e].born = s.bucket.born

Disturb == left > 0 /\ left' = left - 1

Subscribed == {e \in Endpoints : endpoint[e] = "subscribed"}
Smaller(m, n) == IF m < n THEN m ELSE n

(* What emit() does: deliveries of the items for the endpoints in T. *)
Tell(T, S) ==
  told' = [e \in Endpoints |-> [i \in Items |->
             told[e][i] + (IF e \in T /\ i \in S THEN 1 ELSE 0)]]

(* An emit() that fails half-way, and says nothing. *)
Swallow(T, S) ==
  /\ Disturb
  /\ T \subseteq Subscribed
  /\ T # Subscribed
  /\ Tell(T, S)
  /\ swallowed' = [e \in Endpoints |-> swallowed[e] \cup (IF e \in T THEN {} ELSE S)]

Emit(S) ==
  \/ Tell(Subscribed, S) /\ UNCHANGED <<swallowed, left>>
  \/ \E T \in SUBSET Subscribed : Swallow(T, S)

requestVars == <<cadence, recent, endpoint, loyal>>
-----------------------------------------------------------------------------
(* The sync: persist, then DataEventDispatcher.fire. *)

Persist(S) ==
  /\ sync = NoSync
  /\ S # {}
  /\ S \subseteq Items \ stored
  /\ stored' = stored \cup S
  /\ sync' = [stage |-> "fire", new |-> S, cadence |-> "immediate", todo |-> {},
              on |-> {}, seen |-> {}]
  /\ UNCHANGED <<requestVars, bucket, flush, told, counted, atRisk, swallowed, left>>

Buffering(c) == [sync EXCEPT !.stage = "read", !.cadence = c, !.todo = Subscribed]

Dispatched(c) ==
  CASE c = "immediate" -> [sync EXCEPT !.stage = "emit"]
    [] Subscribed = {} -> NoSync
    [] OTHER           -> Buffering(c)

(* resolveCadence, from the cache or the row, and the endpoints to buffer for. *)
Resolve(c) ==
  /\ sync.stage = "fire"
  /\ c \in recent
  /\ sync' = Dispatched(c)
  /\ UNCHANGED <<requestVars, bucket, stored, flush, told, counted, atRisk, swallowed, left>>

EmitNow ==
  /\ sync.stage = "emit"
  /\ Emit(sync.new)
  /\ sync' = NoSync
  /\ UNCHANGED <<requestVars, bucket, stored, flush, counted, atRisk>>

(* bufferOne reads the sample ids ... *)
BufferRead(e) ==
  /\ sync.stage = "read"
  /\ e \in sync.todo
  /\ sync' = [sync EXCEPT !.stage = "upsert", !.todo = @ \ {e}, !.on = {e},
                          !.seen = IF HasBucket(e) THEN bucket[e].samples ELSE {}]
  /\ UNCHANGED <<requestVars, bucket, stored, flush, told, counted, atRisk, swallowed, left>>

(* mergeCapped: the ids already there, and of the new ones those that fit. *)
Merged(seen, new) ==
  {S \in SUBSET (seen \cup new) :
     seen \subseteq S /\ Cardinality(S) = Smaller(SampleCap, Cardinality(seen \cup new))}

(* A mutant: a row created with the ids read from the one just flushed. *)
CreatedWithSeen(samples) == samples \in Merged(sync.seen, sync.new)
Created(samples) == samples \in Merged({}, sync.new)

(* A mutant: items_added set, not incremented. *)
Replaced(items) == sync.new
Incremented(items) == items \cup sync.new

(* ... and upserts the row: increments the count, writes the ids it merged. *)
BufferUpsert(e) ==
  /\ sync.stage = "upsert"
  /\ e \in sync.on
  /\ endpoint[e] # "removed"
  /\ \E samples \in SUBSET Items :
       IF HasBucket(e)
         THEN /\ samples \in Merged(sync.seen, sync.new)
              /\ bucket' = [bucket EXCEPT ![e].items = Incremented(@), ![e].samples = samples,
                                          ![e].cadence = sync.cadence]
         ELSE /\ Created(samples)
              /\ bucket' = [bucket EXCEPT ![e] =
                              [age |-> "new", cadence |-> sync.cadence, born |-> sync.new,
                               items |-> sync.new, samples |-> samples]]
  /\ counted' = [counted EXCEPT ![e] = @ \cup sync.new]
  /\ atRisk' = [atRisk EXCEPT ![e] = @ \cup (IF InFlush(e) THEN sync.new ELSE {})]
  /\ sync' = IF sync.todo = {} THEN NoSync ELSE [sync EXCEPT !.stage = "read", !.on = {}]
  /\ UNCHANGED <<requestVars, stored, flush, told, swallowed, left>>

(* A query throws, the endpoint of the row is gone, or the worker dies: the *)
(* sync fails, and its items are no longer new to the next one.             *)
FireError ==
  /\ sync # NoSync
  /\ \/ Disturb
     \/ \E e \in sync.on : endpoint[e] = "removed" /\ UNCHANGED left
  /\ sync' = NoSync
  /\ UNCHANGED <<requestVars, bucket, stored, flush, told, counted, atRisk, swallowed>>
-----------------------------------------------------------------------------
(* The crons: flush(cadence), each under its own lock. *)

(* firstSeenAt passes the cutoff of the hourly flush, then of the daily one. *)
Age(e) ==
  /\ HasBucket(e)
  /\ bucket[e].age # "day"
  /\ bucket' = [bucket EXCEPT ![e].age = IF @ = "new" THEN "hour" ELSE "day"]
  /\ UNCHANGED <<requestVars, stored, sync, flush, told, counted, atRisk, swallowed, left>>

OldEnough(c, age) == age = "day" \/ (age = "hour" /\ c = "hourly")

(* A mutant: the flush of what the workspace now wants at this cadence. *)
RipeIfWanted(c) ==
  {e \in Endpoints : HasBucket(e) /\ c = cadence /\ OldEnough(c, bucket[e].age)}
Ripe(c) ==
  {e \in Endpoints : /\ HasBucket(e)
                     /\ bucket[e].cadence = c
                     /\ OldEnough(c, bucket[e].age)}

Snapshot(e) == [e |-> e, bucket |-> bucket[e], wanted |-> e \in Subscribed]

(* findMany of a batch, with each row's endpoint. *)
FlushRead(c) ==
  /\ flush[c] = NoFlush
  /\ \E S \in SUBSET Ripe(c) :
       /\ S # {}
       /\ Cardinality(S) = Smaller(BatchSize, Cardinality(Ripe(c)))
       /\ flush' = [flush EXCEPT ![c].batch = {Snapshot(e) : e \in S}]
  /\ UNCHANGED <<requestVars, bucket, stored, sync, told, counted, atRisk, swallowed, left>>

(* A mutant: the row kept. *)
Kept(s) == bucket
(* delete({ where: { id } }) throws, and is caught, when the row is gone. *)
Deleted(s) ==
  [bucket EXCEPT ![s.e] = IF HasBucket(s.e) /\ @.born = s.bucket.born THEN NoBucket ELSE @]

(* Unsubscribed in the meantime: dropped silently. *)
FlushDrop(c) ==
  /\ \E s \in flush[c].batch :
       /\ ~s.wanted
       /\ flush' = [flush EXCEPT ![c].batch = @ \ {s}]
       /\ bucket' = Deleted(s)
  /\ UNCHANGED <<requestVars, stored, sync, told, counted, atRisk, swallowed, left>>

(* flushOne: emit() to the whole workspace, not to the bucket's endpoint ... *)
FlushEmit(c) ==
  /\ flush[c].emitted = {}
  /\ \E s \in flush[c].batch :
       /\ s.wanted
       /\ Emit(s.bucket.items)
       /\ flush' = [flush EXCEPT ![c].batch = @ \ {s}, ![c].emitted = {s}]
  /\ UNCHANGED <<requestVars, bucket, stored, sync, counted, atRisk>>

(* ... then the bucket is deleted, whatever it holds by now. *)
FlushDelete(c) ==
  /\ \E s \in flush[c].emitted : bucket' = Deleted(s)
  /\ flush' = [flush EXCEPT ![c].emitted = {}]
  /\ UNCHANGED <<requestVars, stored, sync, told, counted, atRisk, swallowed, left>>

(* A delete fails: the error is logged and the bucket stays. *)
FlushError(c) ==
  /\ Disturb
  /\ \E s \in flush[c].batch \cup flush[c].emitted :
       /\ s \in flush[c].emitted \/ ~s.wanted
       /\ flush' = [flush EXCEPT ![c].batch = @ \ {s}, ![c].emitted = {}]
  /\ UNCHANGED <<requestVars, bucket, stored, sync, told, counted, atRisk, swallowed>>

(* The process dies, between two steps or half-way through an emit(). *)
FlushCrash(c) ==
  /\ Disturb
  /\ flush[c] # NoFlush
  /\ flush' = [flush EXCEPT ![c] = NoFlush]
  /\ \/ UNCHANGED told
     \/ \E s \in flush[c].batch, T \in SUBSET Subscribed :
          s.wanted /\ flush[c].emitted = {} /\ Tell(T, s.bucket.items)
  /\ UNCHANGED <<requestVars, bucket, stored, sync, counted, atRisk, swallowed>>
-----------------------------------------------------------------------------
(* Requests. *)

SetCadence(c) ==
  /\ Disturb
  /\ cadence' = c
  /\ recent' = recent \cup {c}
  /\ UNCHANGED <<endpoint, loyal, bucket, stored, sync, flush, told, counted, atRisk, swallowed>>

CachesExpire ==
  /\ recent # {cadence}
  /\ recent' = {cadence}
  /\ UNCHANGED <<cadence, endpoint, loyal, bucket, stored, sync, flush, told, counted,
                 atRisk, swallowed, left>>

(* PATCH of active or events. *)
Update(e) ==
  /\ Disturb
  /\ endpoint[e] # "removed"
  /\ endpoint' = [endpoint EXCEPT ![e] = IF @ = "muted" THEN "subscribed" ELSE "muted"]
  /\ loyal' = loyal \ {e}
  /\ UNCHANGED <<cadence, recent, bucket, stored, sync, flush, told, counted, atRisk, swallowed>>

(* Its bucket goes with it (onDelete: Cascade). *)
Remove(e) ==
  /\ Disturb
  /\ endpoint[e] # "removed"
  /\ endpoint' = [endpoint EXCEPT ![e] = "removed"]
  /\ loyal' = loyal \ {e}
  /\ bucket' = [bucket EXCEPT ![e] = NoBucket]
  /\ UNCHANGED <<cadence, recent, stored, sync, flush, told, counted, atRisk, swallowed>>
-----------------------------------------------------------------------------
Sync ==
  \/ \E S \in SUBSET Items : Persist(S)
  \/ \E c \in Cadences : Resolve(c)
  \/ EmitNow
  \/ \E e \in Endpoints : BufferRead(e) \/ BufferUpsert(e)
  \/ FireError

FlushStep(c) == FlushDrop(c) \/ FlushEmit(c) \/ FlushDelete(c)

Flush(c) == FlushRead(c) \/ FlushStep(c) \/ FlushError(c) \/ FlushCrash(c)

Requests ==
  \/ \E c \in Cadences : SetCadence(c)
  \/ CachesExpire
  \/ \E e \in Endpoints : Update(e) \/ Remove(e)

Next ==
  \/ Sync
  \/ \E c \in Digested : Flush(c)
  \/ \E e \in Endpoints : Age(e)
  \/ Requests

Spec == Init /\ [][Next]_vars

(* Time passes, the crons fire again and a flush goes on. *)
Fairness ==
  /\ \A e \in Endpoints : WF_vars(Age(e))
  /\ \A c \in Digested : WF_vars(FlushRead(c)) /\ WF_vars(FlushStep(c))

FairSpec == Spec /\ Fairness
-----------------------------------------------------------------------------
(* No counted item of an endpoint that stays subscribed is lost between the   *)
(* bucket and the event: it waits in the bucket or was announced, unless it   *)
(* was counted after a flush had read the bucket, or emit() hid an error.     *)
ItemsConserved ==
  \A e \in loyal : \A i \in counted[e] \ (atRisk[e] \cup swallowed[e]) :
    told[e][i] > 0 \/ (HasBucket(e) /\ i \in bucket[e].items)

(* sample_ids are ids of the bucket's own items, as many as the cap allows:   *)
(* the ids read before the upsert are never those of a bucket flushed since.  *)
SamplesFaithful ==
  \A e \in Endpoints : HasBucket(e) =>
    /\ bucket[e].samples \subseteq bucket[e].items
    /\ Cardinality(bucket[e].samples) = Smaller(SampleCap, Cardinality(bucket[e].items))

(* Crashes and failed deletes repeat digests, but only so often: once per     *)
(* bucket, again for each of them.                                            *)
DigestsBounded ==
  \A e \in Endpoints, i \in Items : told[e][i] <= Cardinality(Endpoints) * (1 + Used)

(* Every bucket is flushed in the end, even if the cadence changes under it.  *)
BucketsDrain == \A e \in Endpoints : HasBucket(e) ~> ~HasBucket(e)
=============================================================================
