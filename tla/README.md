# Camaleonic Connect in TLA+

This directory holds the formal models of the connector: the TLA+ modules, the
TLC configurations that check them on small instances, and proofs that TLAPS
checks for every value of the constants. Source paths below are relative to
`src/poc/src/modules/` unless they start with `src/`.

## 1. The system

The connector keeps OAuth accounts of social platforms, polls them on a cadence
and tells the customers' backends what changed. MySQL (through Prisma) holds
the accounts, the `sync_jobs` rows and the webhook deliveries; Redis holds the
BullMQ queues and the locks; Mongo holds what was fetched. The same code runs
as an API, a scheduler and any number of worker processes.

| Component | State it keeps | Operations | Talks to |
|---|---|---|---|
| Scheduler (`sync/scheduler.service.ts`) | none but the cron lock; it reads and writes `sync_jobs` | `runTick` (backpressure, select due rows, Meta usage pre-flight, `queue.add`, mark `queued`), `sweepOrphans` every 20th tick | BullMQ `sync` queue |
| Sync worker (`sync/sync.worker.ts`) | the job in hand | `handle`: load account and token, throttle lock, fetch, persist, events, `scheduleNextRun`; the rate-limit, revoked-token and `bumpFailure` paths | Redis lock, adapters, emitters |
| Canonical persistence (`sync/canonical-write.service.ts`, `data-schema/coalesce-merge.ts`) | Mongo: a document per post, profile, audience, comment | read, merge and write back what a sync fetched; fold the deep analytics in; the delta that `fire` announces | worker, data API |
| Throttle lock (`sync/throttle-lock.service.ts`) | `throttle:{account}:{product}`, TTL 600 s | `acquire` (SET NX EX), `release` (DEL) | workers, operators |
| Cadence (`sync/cadence.service.ts`) | none | `resolveNextRunAt`: null when the tier is `paused` | worker, operators |
| Account connection (`accounts/accounts.service.ts`) | `accounts`, `oauth_tokens`, `sync_jobs` | `seedAccount`, `disconnectAccount`, each one transaction | everything above |
| Operator console (`admin/admin.service.ts`), manual refresh (`api/`) | same rows | pause, tier, unpause, cadence, re-enqueue, release a lock, refresh now, erase an account | sync queue, Mongo |
| Inbound webhooks (`webhooks/`) | `inbound_webhook_log`, which drops repetitions; account status (TikTok's revocations) | verify, record, find the accounts, push a `sync` job for each, disconnect, stamp | sync queue, platforms |
| Webhook retention (`webhooks/webhooks-retention.service.ts`) | the cron lock | the nightly sweep of five tables, in batches; dry run | deliveries, logs |
| Outbound webhooks (`outbound-webhooks/`) | `webhook_endpoints`, `webhook_deliveries`, BullMQ `delivery` queue | `emit`, `enqueue` (standard format), `handleDelivery`, `scheduleRetry`, `remove` | the customers' endpoints |
| Webhook operations (`admin-saas/`) | same rows | `retryDelivery` | delivery queue |
| Data events and digest (`outbound-webhooks/`) | `pending_webhook_events`, the refresh throttle key | `fire`, `bufferOne`, hourly and daily `flush` | `emit` |
| Token lifecycle (`token-refresh/`, `platforms/*`) | `oauth_tokens`, account status, token history | refresh cron, canary, health sweep, refresh on use | platforms, `accounts` |
| Rate bucket (`src/poc/src/shared/redis/rate-bucket.service.ts`) | one token bucket per key | `acquire` of several buckets at once, `getState`, `reset` | adapters |
| Meta usage gates (`platforms/shared/meta-graph/`) | a usage hash for the app and for each asset, with a TTL; `api_call_log` | `observe`, `checkGate`, the scheduler's pre-flight, the operator's replay | Graph and Threads clients, scheduler |
| Cron lock (`src/poc/src/shared/redis/cron-lock.ts`) | a Redis key per cron | `runWithLock` | every cron |
| MCP OAuth (`mcp/oauth/`) | authorization codes, token pairs | mint, exchange, refresh, revoke | MCP clients |
| Connect tool, dashboards, data API, MCP tools, API keys, SDK tokens, mappers | CRUD rows or nothing | requests, reads, pure mappings | the above |

**What is hard.** Nothing serialises the scheduler, the workers, the operators
and the webhooks against each other except the throttle lock, and that lock has
a fixed TTL and no owner. A handler awaits between reading a row and writing
it. The same row can have several jobs at once (a poll, a webhook, a manual
refresh, a stalled job given back by BullMQ, a duplicate after the orphan
sweep). Rows and jobs live in different stores, so every pair of writes may be
cut by a crash or half fail. Retries are added under ids that BullMQ remembers
for a while and silently ignores when they repeat.

**What makes it correct.**

- Sync: one worker per row at a time; a failed sync does not keep its row
  throttled; a live row is synced again and again whatever crashed before; rows
  do not stay `queued`; a paused, dead or disconnected account comes to rest
  and stays parked; an unpaused one is scheduled; rows that keep failing trip
  the breaker.
- Posts: a number once known is not lost to a feed that missed it (to a deep report that
  came empty it is, see section 3); what changed is announced and nothing else is; an
  erased account leaves nothing of what it had.
- Delivery: what is reported delivered was accepted; the number of posts stays
  bounded; a created delivery is settled in the end; a delivered one is final.
- Digest: every item is announced, once per endpoint; buckets are kept until
  their event is queued; every bucket is flushed in the end.
- Tokens: no overlap of refreshes loses the pair the platform will accept next;
  a disconnect is not undone; a dead grant is noticed; a healthy account is not
  left `needs_reauth`.
- Rate bucket: never more than capacity plus refill is granted in any window;
  a denied acquire takes from no bucket; the wait it reports is enough.
- Meta gates: a gate that closes stops every call but those already asking or past it;
  a replay restores what the log says last; the other platforms' jobs are not starved.
- Inbound: an event adds one job per account however often it is delivered; a
  fault costs the event it befalls and no other of its request.
- Cron lock and retention: runs overlap only where a lock lapsed under one of
  them; a sweep ends, leaves nothing it owed, and takes no open delivery.
- MCP OAuth: a code is exchanged once; a session that is over stays over, and
  ends for a reason.

`PROJECT.json` lists the hazards at their lines, with the property that covers
each, or why none does.

## 2. Modules

| Module | What it is |
|---|---|
| `SyncJobs` | scheduler, `sync` queue, workers, throttle lock, breaker, and the requests that race with them |
| `ExclusiveSync` | what the throttle lock promises: the abstract specification `SyncJobs` implements |
| `MCSyncJobs` | constants for TLC |
| `SyncJobsProofs` | type correctness, and the lock's theorems: mutual exclusion, no unjustified lock, refinement |
| `WebhookDelivery` | the emitters, the `delivery` queue and its worker, retries, manual retries |
| `MCWebhookDelivery` | constants for TLC |
| `WebhookProofs` | type correctness with the bound on attempts, that what is delivered was accepted, the bound on posts, and that no delivery is forgotten |
| `Digest` | `fire` for new items, the buckets it counts them into, the hourly and the daily flush |
| `MCDigest` | constants for TLC |
| `TokenLifecycle` | one account's rotating tokens: refresh on use, refresh cron, canary, reconnect and disconnect |
| `MCTokenLifecycle` | constants for TLC |
| `TokenProofs` | type correctness, finality of a disconnect, conservation of pairs |
| `RateBucket` | the Lua script over several buckets, late scripts, TTL and resets |
| `MCRateBucket` | constants for TLC |
| `MetaGate` | the mirror of Meta's usage headers, the gate and the pre-flight that read it, the replay |
| `MCMetaGate` | constants for TLC |
| `LimitProofs` | of `RateBucket`: type correctness, the bound on grants, conservation of tokens, sufficiency of the wait; of `MetaGate`: type correctness, what a shut gate lets past, what a replay restores |
| `CronSweep` | the cron lock and the retention sweep it guards, beside the worker and the operator |
| `MCCronSweep` | constants for TLC |
| `CronProofs` | type correctness, who overlaps with whom, what is swept and what stays |
| `ContentStore` | what syncs do with posts: read, merge, write back, announce, beside an erase |
| `MCContentStore` | constants for TLC |
| `EventProofs` | of `Digest`: type correctness, conservation of counted items, sample ids, the bound on digests; of `ContentStore`: type correctness, what is kept, announced and erased |
| `InboundWebhooks` | the platforms' webhooks from the recorded row to its last stamp |
| `MCInboundWebhooks` | constants for TLC |
| `InboundProofs` | type correctness, one job per event and account, losses only by faults |
| `McpOAuth` | codes and refresh tokens of the MCP server |
| `MCMcpOAuth` | constants for TLC |
| `McpProofs` | type correctness with the single exchange, and how sessions end |

### SyncJobs

`rows[r]` is the `sync_jobs` row of an (account, product): its status, its
`nextRunAt` reduced to what the guards ask of it (null, in the future, due) and
its failure count, which saturates one above the breaker's threshold because it
is only compared with it. `account[a]` has status, whether `syncTier` is
`paused`, and whether a token row exists. `waiting` counts the waiting BullMQ
jobs of each row and kind. `named` and `fresh` stand for the job id
`{id}-{updatedAt}`: `named` are the rows whose current `updatedAt` is already
the id of a job, so that `queue.add` would do nothing, and `fresh` the rows that
have not been rewritten since the running tick read them. `lock` is the Redis
key with, for the properties only, the reason it is there; no guard reads the
reason.

A worker runs `handle` as one action per stretch between two awaits where
someone can interfere:

    Take, LoadAccount, LoadToken, (MarkSkipped | MarkFailed | Acquire),
    (MarkThrottled | Fetched, ResolveNext, CommitSuccess)
    Throw, then MarkRateLimited | RevokeAccount, MarkRevoked
                | BumpRead, BumpWrite, (TripBreaker)
    Abort: the process dies, or a write outside the try throws

`LoadAccount` and `LoadToken` are two steps because Prisma runs `include` as two
queries. The tick is `TickFind`, then `EnqueueAdd` and `EnqueueMark` row by row,
with `EnqueueError` for the error the loop logs. The sweep is an action of its
own, since it happens in every 20th tick only. Reseed, disconnect, pause and so
on are one action per request; `SetSyncTier` and `ChangeCadence` leave their
rows in `resched`, and `RescheduleJob` takes them one at a time, as their loops
do, whatever the account's status (that is what the code does).

Left out: what is fetched, how long an interval is, the tiers other than
`paused`, BullMQ priorities, account deletion, and the branch of a platform without an
adapter (`sync/sync.worker.ts:275-286`), since `platforms/platforms.module.ts` registers
one for every platform there is. Ticks do not overlap: the cron
lock is taken to do its job. `CronSweep` shows when it does not, see there.

### ExclusiveSync

Two variables, the workers syncing each row and the rows in cooldown, and three
actions: `Start` when nobody syncs the row and it is not cooling, `End` with or
without a cooldown, `Cool`. The mapping takes `busy` from the workers between a
won `acquire` and the write or release that ends it, and `cooling` from the
locks that outlive their sync.

### WebhookDelivery

`row[d]` is the `webhook_deliveries` row of one endpoint, `jobs[d][id]` the
state of each BullMQ job it may have. Ids matter, because an `add` under an id
BullMQ still knows does nothing: 0 is `{id}`, n is `{id}-r{n}`, and the ids from
`MaxAttempts` on are the operator's `{id}-admin-{ms}`. A slot of the worker runs
`Take`, `Load`, a post (`Accepted`, `Refused`, `Unreachable`) or `Reject`, then
`MarkDelivered`, or `Abandon`, or `MarkFailed` and `AddRetry`, then `Return`.
Errors follow the code's try and catch: what throws inside the try runs
`scheduleRetry` once more, what throws outside it or in the catch fails the job.
`emitter` is the emit in progress; the two formats differ in what an error does
to the endpoints that are left. `RetryRead`, `RetryWrite` and `RetryAdd` are the
operator's `retryDelivery`, cut at its awaits.

Left out: payloads, signatures, headers, delays other than their order, test
sends and the `active` flag, which only `emit` reads.

### Digest

One account and product: the buckets of others share nothing with these.
`bucket[e]` is the `pending_webhook_events` row of an endpoint. An item is new
in one sync only, so `items_added` is kept as the set of the items it counts,
and the set a row was created with, `born`, serves as its id: the flush deletes
by id, and a row created after that is another one. `firstSeenAt` is reduced to
the cutoffs it has passed. `recent` holds the cadences some process may have in
its 60-second cache, so that `fire` may act on any of them.

`sync` is the sync in its `fire()`; the throttle lock admits one per row.
`Persist` stores items first, then `Resolve` reads the cadence and picks
`EmitNow`, nothing, or the buffer, which takes each endpoint in turn with
`BufferRead` (the sample ids) and `BufferUpsert` (the count and the ids), in any
order and with anything in between. `flush[c]` is the run of a cron, from
`FlushRead` to `FlushDrop` or `FlushEmit` and `FlushDelete` for each row it has
read; `FlushError` and `FlushCrash` leave it half done. `SetCadence`, `Update`
and `Remove` are the requests. `emit` is reduced to what `WebhookDelivery` says
of it: a delivery for each subscribed endpoint, or, when it swallows an error,
for some of them.

`told`, `counted`, `atRisk`, `swallowed` and `loyal` are history for the
properties; no guard reads them.

Left out: the refresh path of `fire` with its throttle (no new items, no
bucket), test mode, account deletion, the cap of 100 batches in one flush (the
next cron goes on), the unique-key race of two upserts of one row, which the
throttle lock prevents.

### TokenLifecycle

One account on Twitch or TikTok, whose refresh tokens rotate: each works once
and is answered with a new pair. Pair n is the n-th the platform issued;
`stored` is the pair in the `oauth_tokens` row, `accepted` the pairs whose
refresh token the platform still takes, `revoked` those the user has withdrawn.
`age` is what the three guards on `expiresAt` ask of it: `due` within the cron's
90 minutes, `late` within the 5 of `ensureFresh`, `expired` for the platform.

`agent[u]` is whoever may be refreshing. A worker runs `Load` (the token it is
given), `EnsureFresh` (the row again, if it is late a refresh), the call, and
`MarkRevoked` when the platform rejects its token. The cron's row runs
`CronScan`, the refresh, and `CronFlag` when it is refused. The refresh is the
same for both, as both call `refresh()`: at `exchange` the platform grants,
refuses or is out of order (`Granted`, `Refused`, `Outage`), at `store` the row
is updated, if it is still there (`Store`, `StoreError`). What follows differs:
`ensureFresh` swallows every error and goes on with the token it had, the cron
flags on a permanent one. `canary` is a probe from the scan to the write, with
the status the scan has read. Several workers are several products: the throttle
lock is per product, so nothing keeps them from refreshing together.

The platform is assumed to keep earlier pairs when the user authorizes again.
`Load` is one step: a status read before and a token read after some change
are those of a sync that loaded before it, or after it.

Left out: platforms without a rotating refresh token, rows without a refresh
token or without an expiry, the health sweep (it writes a recommendation and
nothing else), the token history (append-only, best effort), the events. The
crons do not overlap with themselves.

### RateBucket

`bucket[k]` is the hash under a Redis key: tokens, `last_refill_ts` and when it
was last touched, for the TTL. A key is a scope, with the UTC date for a daily
counter. A process sends a script with its own `Date.now()` (`Send`), Redis runs
it later, at most `MaxDelay` ticks, as `Grant` or `Deny`: both write every bucket
of the call back, the second with nothing taken. `Level` is the refill the
script and `getState` compute. `Tick` lets untouched hashes lapse, `Reset` is the
operator's. `window` is history: from an arbitrary moment (`Watch`) it adds up
what one key grants, the time its callers' clocks ran and its resets.

Left out: `hits` and `denies`, which nobody decides on; what a caller does with
its wait. Tokens are integers: the code's are doubles, but every capacity and
refill is a rational, and the models count in a unit that divides them.

### MetaGate

`mirror[k]` is the Redis hash of the app or of an asset: the usage, reduced to
the two thresholds the code compares it with (75% in the gate, 90% in the
pre-flight), the minutes to wait, and its age in ticks for wait and TTL. The fetchers send
their calls in batches with `Promise.all`
(`platforms/facebook/fetcher/facebook-content.fetcher.ts:299`, Instagram's and
Threads' alike), so a job has any number of calls in flight: `running` are the jobs
whose sync is under way, and `call[c]` is one of the calls, of any job. A Meta
call runs `Read` key by key as `checkGate` does (the asset, then the app, against
the clock of its start) and then goes out; a Threads call observes and asks nobody.
`Answer` brings headers (`x-app-usage`, the assets', or both), or none, or a
failure; `Observe` writes one hash per step; `Observed` sends the log row off,
which `Logged` inserts in any order. A call that fails may reject its batch and
with it the run; the others of the batch are then left behind and go on, as their
promises do, one that pages to its next page too (`GoesOn`).
`due` has for each due row those that came due before it, so that `Enqueue`, the
tick, takes the rows with fewer than `Budget` before them, the Meta rows among them
deferred while the app is at the ceiling. `Replay` reads the logged rows, oldest
first, and `ReplayWrites` them row by row, one hash at a time. Every failing Redis
call is swallowed as in the code: a failing read opens the gate.

Left out: `snapshot()` and the operator's pre-check, which only display; the two
usage figures no gate reads; the retries of a denied call (the run ends).

### CronSweep

`run[a]` is the a-th run that got the lock, in that order, with the replica it is
of: all runs of a replica carry one token (`instanceToken`), which is made when the
process starts.
`Fire` is SET NX, `Lapse` the TTL, `Release` the compare-and-delete, which may
fail. In between a run takes table after table: `Find` reads a batch of ids,
`Delete` deletes them by id, and a short batch ends the table. Meanwhile the
worker settles deliveries (`Settle`), the operator retries them (`RetryReads`,
`Retry`), and rows expire (`Age`). `owed` is history: the rows that were there
to sweep when the table's turn came, without those retried since.

The five tables are swept by two shapes of loop; the instance has one log and
the deliveries. Left out: the report and its log line.

### InboundWebhooks

A request is a sequence of events, taken in order by a handler: `Record` inserts
the row whose unique key drops a repetition, `Find` reads the accounts, `Enqueue`
adds a job for each that is enrolled (nothing when the id is in the queue),
`Disconnect` is TikTok's revocation, `Resolve` stamps the row. What differs
between the three handlers is kept: TikTok's reads accounts whatever their
status, Meta's stamps an event that enqueued nothing as skipped and then as
processed. `RecordFails` is the swallowed error, `Fails` the 500, `Crash` the end
of the process. `added`, `owed` and `struck` are history.

Left out: signatures and what a rejected request logs, the subscription
challenge, the choice of a product by field, deauthorisations signed by Meta, and the
retention that deletes the rows in the end: `EnqueuedOnce` is about redeliveries within it.

### ContentStore

`doc[p]` is the stored document of a post: whether it is there, its numbers and its
deep analytics (one of their parts), each a version; 0 is the null of a partial fetch,
or the empty part that a report makes whose call failed softly. A sync of a feed is
`Fetch`, `Load` (the read, and the operations made of it), one `Write` for each post in
any order, as the bulk write is unordered, and `Fire`; the deep analytics are `Fetch`
and one `Fold` per post. A product has one sync at a time, which is what the throttle
lock is for (`SyncMutex`, with its provisos); the products of an account have a lock
each and share its documents. `Fails` is a failing call or the end of the process at
any point, a bulk write cut in the middle included. `Purge` and `Drop` are
`eraseAccount`. `stale`, `excused` and `late` are history. Announcing is reduced to
its effect, that consumers read the posts again; how an announcement gets there is the
matter of `Digest` and `WebhookDelivery`.

`live` moves only when a fetch looks at it: nobody else sees the platform's numbers.

Left out: profiles, audiences and ads (one product each), comments (written like
posts, never refreshed), the cap on sample ids, the cached interval and window.

### McpOAuth

`code[c]` is the authorization code of a session, `pair[p]` a row of token pairs.
A request at the token endpoint is `Consume` (one `findOneAndUpdate`) and then
`Refuse` or `Accept`, or `ReadRefresh` and `Rotate`, and in both cases `Issue`;
`Crash` ends it anywhere. `Revoke`, `ExpireCode` and `ExpirePair` come at any
time. `reason` is history.

Left out: registration, the authorize redirect, access tokens (they are read
only), the connection tokens of the earlier phase, the tools.

## 3. Runs

| Run | Checks | Result |
|---|---|---|
| `SyncJobsSafety` | `TypeOK`, `SyncMutex`, `LockJustified`, `ImplementsExclusive` | hold |
| `SyncJobsLive` | `QueuedResolves`, `LiveRowKeepsSyncing`, `StoppedQuiesces`, `BreakerTrips` | hold |
| `WebhookDelivery` | `DeliveredWasAccepted`, `BoundedPosts`, `NoSilentLoss` | hold |
| `WebhookReplay` | `DeliveredIsFinal` | violated |
| `Digest` | `ItemsConserved`, `SamplesFaithful`, `DigestsBounded`, `BucketsDrain` | hold |
| `TokenLifecycle` | `PairKept`, `DisconnectForgets`, `DeadIsFlagged`, `FalseFlagHeals` | hold |
| `RateBucket` | `TypeOK`, `GrantsBounded`, `NothingLost`, `WaitSuffices` | hold |
| `MetaGate` | `GateTypeOK`, `OnlyChecksUnderWay`, `ReplayRestores`, `OthersRun` | hold |
| `CronSweep` | `InTimeAlone`, `SweptClean`, `OpenStays`, `SweepEnds` | hold |
| `ContentStore` | `StoreTypeOK`, `KeepsKnown`, `ChangesAnnounced`, `NewsHasCause`, `ErasedStaysErased` | hold |
| `InboundWebhooks` | `EnqueuedOnce`, `LostOnlyByFault` | hold |
| `McpOAuth` | `TypeOK`, `EndsForAReason` | hold |

The type invariants of the modules whose runs do not list one are proved (section 5).

**SyncJobsSafety.** One row, two workers, polls and webhooks, two disturbances
out of every request, error and crash. Two jobs of a row can run at once, which
is what the lock is for, and two disturbances are enough for a duplicate and a
crash or a failing DEL. Two provisos are constants: `SlowSyncs = FALSE` (a sync
ends within 600 s) and `ForcedRelease = FALSE` (nobody deletes a lock by hand).
`LockJustified` does not need them, as its theorem shows.

**SyncJobsLive.** One worker, so that a job in hand delays every other, with
both provisos dropped: the liveness of the pipeline does not depend on the
lock's being exclusive. `BackpressureMax = 2` is reached by the two kinds of
jobs of the row, so the run includes ticks that back off.

**WebhookReplay** is a finding of `PROJECT.json`: with no fault at all, the
operator's retry reads the row, the worker marks it delivered, the retry sets it back
to pending. The event is posted again, which `docs/06-event-catalog.md:158` says never
happens.

**WebhookDelivery.** One delivery, two slots, three attempts in place of seven
(a first, a middle and a last one), one disturbance: a failing Redis or MySQL
call, a crash that BullMQ recovers, one that it does not, or a manual retry.
One delivery is enough because deliveries share nothing but the slots and the
emitter. With *two* disturbances `NoSilentLoss` and `BoundedPosts` fail: a crash
that gives a job back and a manual retry make two chains of jobs for one
delivery, both write `attempts` from what each has read, and then both add a
retry under the same id, of which BullMQ drops the second. So the bound of one
is what the code guarantees and not only what is cheap to check: the theorem
`PostsBounded` has the bound in every behaviour up to its second disturbance.
`SlowAttempts = FALSE` says that an attempt (10 s at most) does not outlast a
retry delay (a minute at least).

**Digest.** Two items and two endpoints, so that a second sync can add to a
bucket that a flush has read, and a bucket can fan out. Batches of one make a
flush read twice, a sample cap of one makes the cap bite. One disturbance: a
fault, a crash or a request; the safety properties also hold with two. The two
exceptions of `ItemsConserved` are real losses: what `fire` counts between a
flush's read and its delete goes with the row, and an `emit` that swallowed an
error is followed by the delete all the same, although the comment at
`webhooks-digest.service.ts:15` says the row is kept until the event is queued.
The property says that these are the only two. `DigestsBounded` allows each
endpoint's bucket to reach all the others, once, and again for each fault.

**TokenLifecycle.** One worker and the cron, which are the two callers of
`refresh()` that treat a refusal differently; three pairs, so that a refresh and
a reconnect can both come on top of the first; two disturbances (a fault, a
crash, a reconnect, a disconnect or a withdrawal), so that each may meet a
fault. The safety properties also hold with two workers and one disturbance.
`PairKept` names the exception that is there: an error or a crash between the
exchange and the update. `FalseFlagHeals` is about a flagged account whose
access token still works, in the model as long as it does: the property is
satisfied when it expires first. That is the code's own limit, see the false flag
below.

**RateBucket.** An app-wide bucket and a daily counter that one kind of call pays
together, two clients, scripts up to a tick late, one reset, four moments on four
dates. That is enough for a script that arrives with yesterday's date or after a
younger one, for a denial by the first and by the second bucket, and for a TTL
that lapses under the observer. The theorems hold for any of these constants.

**MetaGate.** One Facebook job and one Threads job with two calls in flight between
them, one asset, a budget of one row, two responses with headers (of the app alone, or
of both), one replay, one fault, a TTL of two ticks. So two calls of one job ask
together, the answer of one lands between the reads of the other, a call outlives its
run, and a replay of the older row races the younger response. A budget of one makes a deferred Meta
row block the Threads row; `OthersRun` shows that the TTL ends that.

**CronSweep.** Two replicas, three runs, a log row and three deliveries in
batches of two, one change by others and one fault. Three runs are the fewest in
which one run outlives its lock, its replica takes a second lock, and the first
release frees that one for a third run: the exception that `InTimeAlone` names.
Three deliveries are a full batch and a short one.

**ContentStore.** Two posts, one too old for a refresh, with two versions of the
numbers of the other; three syncs, of two feeds or of a feed and the deep analytics,
and one fault; feeds are interchangeable. Three syncs store a post, change it, and
change it again or fold over it; that is enough for a write that overwrites another
product's, for two feeds that both insert a post, for a change that the throttle
refuses after one it let pass, and for an erase under a sync, which may fail and be
repeated. The exceptions of the properties all occur: see the divergences below.

**InboundWebhooks.** A Meta request of two events (two accounts of two tenants
share one; the other's product has no sync job) and one request each of Threads
and TikTok's two kinds; three deliveries to two handlers, one user's change of an
account and one fault. So one request is repeated while it is in hand, or twice
after its job is gone.

**McpOAuth.** Two sessions, four pairs, two requests at a time: two exchanges of
one code, two refreshes with one token, and a revocation of what is rotating.
That a session that is over stays over (`OverStaysOver`) is proved (section 5) and
not run.

Deadlock is not checked in any run, as all these systems may come to rest: a
disconnected account with no jobs, a settled delivery, items all announced, an
empty table.

**Divergences met while modelling, without a run.** Each is a behaviour of the
modelled code that a doc (under `src/docs/`) or a comment denies; the property that
holds names it as its exception where there is one.

- A sync longer than the throttle lock's 600 s loses the lock and a second worker
  syncs the same row, which `docs/rate-limiting.md:349` excludes. It is the
  proviso `SlowSyncs` of `SyncMutex`.
- In a dry run nothing is deleted, so a SQL table with a full batch of expired rows is
  read for ever (`webhooks/webhooks-retention.service.ts:203`), although a dry run is
  how the first one is meant to be (`:22-24`). The Mongo tables are counted instead,
  with a comment that says why (`:268-269`). `SweepEnds` is violated with
  `DryRun = TRUE`; the run has it `FALSE`.
- A write of posts that read before the deep fold, and writes after it, puts back what
  it read, so that `coalesceMerge`'s last known good (`data-schema/coalesce-merge.ts:7`)
  is not what was last known; likewise of two feeds that insert the same post, the
  second replaces what the first knew. The exception `Overwrites` of `KeepsKnown`.
- A deep report whose call fails softly (a 5xx, a network error) is recorded as null
  (`platforms/youtube/fetcher/youtube-engagement-deep.fetcher.ts:286-301`), which the
  mapper turns into an empty part of `doc.insights`, and `foldDeep` sets the field whole
  (`sync/canonical-write.service.ts:408`). So one failing report empties what an earlier
  one had filled, where the comment (`:386-387`) says that a populated doc is never
  overwritten with empties. The exception `Empties` of `KeepsKnown`; that a fold never
  brings an older report back, nor touches a post's own numbers, still holds.
- A change of numbers that the refresh throttle refuses is stored, so that no later sync
  finds it: if the numbers then stay as they are it is never announced, and consumers
  keep the old ones, which the refresh was introduced to end
  (`src/docs/superpowers/plans/2026-06-12-engagement-refresh-webhook.md:5`). The
  exception of `ChangesAnnounced`, as are an announcement that a crash or a failing
  call takes between the write and `fire`, and the throttle it may have taken.
- A sync in hand during an erase inserts its posts after it. The account's row is gone,
  so a second erase finds no account: what `admin/admin.controller.ts:633` calls
  irreversible and everywhere leaves documents that nothing deletes. The same goes for a
  sync that starts between the purge and the end of the row, which it still finds.
  `late` of `ErasedStaysErased` has both.
- `persist` returns `writeContents` without awaiting it inside its `try`
  (`sync/canonical-write.service.ts:135`), so an error of posts or comments is not
  swallowed as its header says (`:15-16`): the sync fails and is retried.
- A sync in flight during a disconnect writes `nextRunAt` back on the parked row
  (`accounts/accounts.service.ts:607` parks it for good). The scheduler's filter
  on the account's status still keeps it from being enqueued: `StoppedQuiesces`.
- `sync/sync.worker.ts:674`: `resolveNextRunAt` reads `paused`, the operator
  unpauses and reschedules, then the worker stores null. The row of a healthy
  account is never picked again, against `docs/08-operations/runbook.md:150`.
- `emit` swallows the error of `queue.add` after the row was created, and nothing
  looks for it again; `docs/06-event-catalog.md:6` promises at least once.
  `NoSilentLoss` has it as its exception.
- With two endpoints each one's bucket is flushed by an `emit` to both, so both
  get the digest twice; `docs/webhooks.md:110` speaks of a single delivery.
  `DigestsBounded` counts them.
- A sync and the cron present the same refresh token; the cron comes second, is
  refused, and flags the account although the sync has stored a good pair.
  `platforms/shared/token-refresh-error.ts:6-9` takes a refusal as proof that the
  grant is dead. `FalseFlagHeals` says when it is put right.
- LinkedIn's strategy refills its daily quota continuously from a full bucket, so
  that a day may pay twice the quota that its header comment names
  (`linkedin.rate-limit.strategy.ts:1-4`): capacity plus refill, as
  `GrantsBounded` has it.
- The script's `now` is the caller's `Date.now()`, where `docs/rate-limiting.md:345`
  has the workers use `redis.TIME()`. A caller whose clock is behind gets no refill
  but sets `last_refill_ts` back, so that the next caller is refilled for the same span
  again; `GrantsBounded` counts such a span twice.
- A replay overwrites what a live response has just reported
  (`admin/admin.service.ts:234-236` calls it safe to repeat): the keys in
  `replay.live` of `ReplayRestores`.
- The cron lock's token is per replica, where `cron-lock.ts:34-35` says unique per
  attempt: the relics of `InTimeAlone`.
- A retry of an abandoned delivery between the sweep's read and its delete deletes
  a pending row, which `webhooks-retention.service.ts:14-16` excludes: the
  exception of `OpenStays`.
- The pre-flight defers at 90% (`sync/scheduler.service.ts:62-63`) what the gate
  denies from 75%: in between, jobs are enqueued to be denied.
- Meta's handler stamps an event that names no product as processed
  (`webhooks/webhooks-ingest.controller.ts:214-222`), unlike Threads'; and it
  looks at the first change of an entry only (`:129`).
- A revocation that comes while a refresh is in hand is overtaken by the pair the
  refresh issues (`mcp/oauth/oauth-store.service.ts:208`).

Hazards seen in the code and covered by no property: `getWaitingCount` leaves
prioritized jobs out, and every sync job has a priority
(`sync/scheduler.service.ts:185`); a revoked token relabels a disconnected account
(`sync/sync.worker.ts:462`); a failing create makes
`emit` give up the endpoints it has not reached, and an inactive endpoint keeps
its retries (`outbound-webhooks/outbound-webhooks.service.ts:437`, `:448`); a
stalled job and a manual retry make two chains of one delivery (`:505`); the first
endpoint of the loop consumes the first-emit marker
(`outbound-webhooks/standard-webhook-emitter.service.ts:75`).

**Bounds.** `MaxWaiting` caps the jobs of one kind a row has waiting,
`MaxDisturbances` the requests and faults of a behaviour, and `MaxFailures = 2`
the breaker, so that it trips after a failure that did not trip it.
Everything else (ticks, polls, syncs, failures of the platform) is unbounded:
an ordinary failed fetch is not a disturbance.

## 4. Fairness

`SyncJobs`: the tick's timer, the workers and the clock go on (weak fairness of
`EnqueueAdd`, `EnqueueMark`, `RescheduleJob`, `BecomeDue`, `LockExpires` and of
each worker's steps). Choosing a due row, sweeping it and taking its job are
strongly fair per row: `findMany` orders by `nextRunAt` and BullMQ is first in,
first out within a priority, so what keeps coming up is served in turn. Nothing
forces a request, a webhook, a success, a failure or a crash.

`WebhookDelivery`: the emit, each slot and a running `retryDelivery` go on
(weak), a delay ends (weak), and a waiting job is taken (strong: BullMQ is first
in, first out). No fairness makes a post succeed, BullMQ forget an id or a
fault happen.

`Digest`: firstSeenAt ages, the crons fire again (the read of a batch) and a
running flush goes on, all weakly fair. No sync is obliged to happen, a fault
neither.

`TokenLifecycle`: the cron fires again and finishes its row, the canary probes a
flagged account again and finishes, and a fresh token comes within the cron's
lead (weak). The platform's definitive answers, to the cron's refresh token and
to the canary's probe, are strongly fair: an outage does not last for ever. That
a sweep reaches the account at all is an assumption: both crons take 500 rows,
and rows that keep failing stay at the head of their order. No sync, no
request and no expiry is obliged to happen.

`MetaGate`: the tick fires again and time passes, both weakly fair. No run, call,
report, replay or insert of a log row is obliged to happen or to go on.

`CronSweep`: each run's own steps go on (weak), which its loop justifies; others'
changes, lapses and faults happen or not. `SweepEnds` rests on nothing else.

`RateBucket`, `ContentStore`, `InboundWebhooks` and `McpOAuth` have safety
properties only.

## 5. Proofs

| Module | Theorem | Says |
|---|---|---|
| `SyncJobsProofs` | `TypeCorrect` | `Spec => []TypeOK` |
| | `LocksJustified` | `Spec => []LockJustified`, with no proviso |
| | `MutexInvariant` | the inductive invariant of the lock |
| | `MutualExclusion` | `Spec => []SyncMutex`, if `~SlowSyncs` and `~ForcedRelease` |
| | `Refinement` | `Spec => ImplementsExclusive`, under the same provisos |
| `WebhookProofs` | `DeliveryTyped` | `Spec => []TypeOK`, of `WebhookDelivery` |
| | `AttemptsBounded` | attempts stay within `MaxAttempts` plus the manual retries |
| | `DeliveredOnceAccepted` | `Spec => []DeliveredWasAccepted` |
| | `PostsBounded` | `Spec => [](Used <= 1 => BoundedPosts)`, if `~SlowAttempts`; `Used` counts the disturbances so far |
| | `PostsBoundedOnce` | `Spec => []BoundedPosts`, if moreover `MaxDisturbances <= 1` |
| | `NoneForgotten` | until the second disturbance, a row that is not settled and whose last job no fault has taken has something on its way to post it, if `~SlowAttempts` |
| `EventProofs` | `DigestTyped` | `Spec => []TypeOK`, of `Digest` |
| | `CountedItemsConserved` | `Spec => []ItemsConserved`, for any number of faults and requests |
| | `SamplesTrue` | `Spec => []SamplesFaithful` |
| | `DigestsLimited` | `Spec => []DigestsBounded`, for any items, endpoints, batches, faults and requests |
| | `StoreTyped` | `StoreSpec => []StoreTypeOK`, of `ContentStore` |
| | `KnownKept` | `StoreSpec => KeepsKnown`, with its exceptions: a write over a changed document, a fold that came empty |
| | `ChangesTold` | `StoreSpec => []ChangesAnnounced` |
| | `NewsCaused` | `StoreSpec => []NewsHasCause` |
| | `ErasedForGood` | `StoreSpec => []ErasedStaysErased` |
| `TokenProofs` | `TokenTyped` | `Spec => []TypeOK`, of `TokenLifecycle` |
| | `DisconnectIsFinal` | `Spec => []DisconnectForgets` |
| | `NoPairLost` | `Spec => []PairKept`, for any number of workers, pairs, faults and requests |
| `LimitProofs` | `TypeCorrect` | `Spec => []TypeOK`, of `RateBucket`: no bucket above capacity or below 0 |
| | `GrantsAreBounded` | `Spec => []GrantsBounded`: capacity plus refill, from any moment on |
| | `NothingIsLost` | `Spec => []NothingLost`: what is not granted is still there |
| | `DenialsWaitEnough` | `Spec => []WaitSuffices`: after the wait that a denial reports its cost is there |
| | `GateTyped` | `GateSpec => []GateTypeOK`, of `MetaGate` |
| | `Overshoot` | `GateSpec => OnlyChecksUnderWay`, for any jobs, calls in flight, assets, replays and faults |
| | `ReplayTrue` | `GateSpec => ReplayRestores`, likewise |
| `CronProofs` | `SweepTyped` | `Spec => []TypeOK`, of `CronSweep` |
| | `InTimeRunsAlone` | `Spec => []InTimeAlone` |
| | `OpenRowsStay` | `Spec => OpenStays` |
| | `TablesSweptClean` | `Spec => SweptClean`, if `~DryRun` |
| `InboundProofs` | `TypeCorrect` | `Spec => []TypeOK`, of `InboundWebhooks` |
| | `OneJobPerEvent` | `Spec => []EnqueuedOnce` |
| | `LossesAreFaults` | `Spec => []LostOnlyByFault`, for any requests and faults |
| `McpProofs` | `TypeCorrect` | `Spec => []TypeOK`, of `McpOAuth`, with the single exchange of a code |
| | `SessionsStayOver` | `Spec => OverStaysOver` |
| | `SessionsEndForAReason` | `Spec => []EndsForAReason` |

**Assumptions.** Those on the constants, named in the modules, which TLC evaluates
in the runs: `KindsAssumption`, `FlagsAssumption` and `BoundsAssumption` of
`SyncJobs`, `DeliveryAssumption`, `DigestAssumption` (finitely many items and
endpoints), `TokenAssumption`, `RateAssumption` and `TtlAssumption` (a hash outlives the
time it takes to fill, and a daily one its date), `GateAssumption`,
`SweepAssumption` (finitely many rows), `ContentAssumption`, `InboundAssumption`,
`OAuthAssumption`. Nothing is assumed of how
many accounts, workers, endpoints, clients, replicas, runs, sessions or requests
there are.

*Type correctness* goes action by action; lemmas state once what a rewrite of
rows, a write to the accounts and a worker's change of stage keep in type.

*The lock.* Most of the forty actions touch neither a lock nor a worker in its
critical stretch. The lemma `LockSteps` reduces every step of `Next` to one of
a few ways in which `lock` and the critical workers can change: a worker wins a
free lock, a worker leaves its critical stretch and frees, cools or orphans its
lock, a lock disappears, or nothing changes. Each theorem then has to look at
those only. `SyncMutex` alone is not inductive, since from two rows' worth of
arbitrary locks a second worker could acquire; the invariant `MutexInv` adds
that a row being synced has its lock in state `running`, so that `acquire`
fails. It is there that the provisos are used: an expired or deleted lock breaks
that conjunct and nothing else. The refinement maps the same few steps to
`Start`, `End`, `Cool` or a stutter.

*Attempts.* The code writes `attempts` from what a slot has read, and several slots
may work on one delivery, so that the bound cannot be shown of the row alone.
`AttemptsInv` has it strictly for rows that are not settled and for what every slot
has seen, so that seen + 1 fits; a manual retry raises the bound by the one attempt
it may add. `DeliveredWasAccepted` then needs `MarksAccepted`: only a post that the
endpoint has accepted is on its way to be marked.

*Posts.* What may still lead to a post of a delivery is a token (`Toks`): a slot at
work on it, a job that waits, a manual retry, an emit to come. `PostsInv` has at most
one before the first disturbance (`Calm`), and then that post and attempt keep step. A
crash or a manual retry makes a second token, and `Shaken` lists what the delivery can
look like then: not created yet, gone, with two tokens whose posts the row still counts
(`Fresh`), with one uncounted post and one token left (`Spent`), or with two slots that
have posted the same attempt (`Twin`). These would both go on, but for the ids: they add
their retries under one, and the second finds the job of the first, as its delay
outlasts the second's attempt (`OutlastingStep`, where `~SlowAttempts` is used). `Held`,
a slot's job is active and no other slot's, keeps one job from two slots. `StepFollow`
says of every step what it does to the tokens of a delivery, `Undisturbed` or
`Disturbed`, so that the shapes are looked at without the actions.

*No delivery forgotten.* The last token of a delivery must not vanish, and it would if
the job it is to become had an id that BullMQ still knows, since `add` then does nothing
and reports nothing. `Numbered` says that the ids to come are unused: all of them before the row is created, those above
the attempts counted, and those of manual retries after the last one. For a slot with a
retry to add, `Owing` says that its id is unused too, unless it is the one of a twin whose
delayed job is still to run. This rests on the shapes of the paragraph above: slots that
have yet to report are at the same attempt (`SameAttempt`), and a slot that takes up a
delivery after the disturbance reads what the row counts. `Remembered` then follows step
by step: each token that goes settles the row, is taken by a fault, or hands on to another
(`SlotHandsOn`, `OtherHandsOn`). This is the safety half of `NoSilentLoss`.

*Conservation.* `ItemsConserved` is not inductive: a delete would lose a bucket
whose contents nobody announced. `Conserved` adds what the flush relies on.
`EmittedTold`: what it emitted was announced or swallowed. `GainsAtRisk`: what
the row holds beyond what was read is at risk. `LoyalWanted`: a row is dropped
only for an endpoint that unsubscribed. That a delete by id spares a bucket
created later is `BornFresh`, which rests on items being new once
(`BornStored`). Most steps count nothing and lose nothing; the lemma `Retreat`
treats them at once, and leaves a lemma each for the sync's steps and for the
read and the emit of a flush.

*Samples.* The row a sync read may be gone when it writes its sample ids. `ReadIsCurrent`
says that it is gone or as it was: a flush may take it away, but only this sync could
have put another in its place.

*Digests.* A bound on what was told says nothing of what will be. `Owed` counts the
emissions of an item still to come out of a bucket: one for each flush that may take the
row up or has (`Readers`: one while nobody has changed the cadence, two after). A crash,
an error or a change of cadence may add one. `Ticketed` gives each endpoint one ticket
and another per disturbance; emissions take tickets of the endpoint whose bucket they
come from, and what is owed fits in the rest.

*Posts in the store.* An erase that is past the documents leaves only what syncs write
after it (`LateInv`). `ChangesAnnounced` takes that the sync in hand has found what it is
about to overwrite (`ChangeFound`), and that what is not announced yet is excused or
counted by that sync (`Accounted`); `NewsHasCause` that a sync that overwrites nobody
has had an effect, or will have, for what it counts (`CauseInv`). `KeepsKnown` takes that
deep analytics come from folds only, each with the newest there are or with nothing, so
that nothing stored or read is newer than a fold in hand that has any (`DeepInv`).

*Pairs.* `PairKept` says that a used refresh token in the row has its successor
on the way. The successor gets there only if nobody can spend it first and
nobody else holds it, which is `HeldAlone`; that a newly issued pair is in
nobody's hands takes `IssuedOnly`. The lemma `Quiet` covers the steps that touch
neither row nor platform; `IssueConserves` is the exchange, with its answer
received or lost; `StoreConserves` the update, by whoever comes, in any order.

*Tokens in buckets.* That what was granted from a moment on stays within `Due`
(capacity plus refill, and a full bucket for each reset) is not inductive, since it
says nothing of what the bucket may grant next. `Covered` is: granted plus the level
now is within `Due`. A hash that lapses comes back full, which only adds what had
been refilled anyway (`LapseHarmless`, by `TtlAssumption`), unless its key is that of
a past date (`Retired`), which no script will name again; `InTime`, how late a script
may be, says why. A script takes its charge, and nothing else, from what its buckets
hold, at its stamp and at any other time (`WriteLevel`).

*The gates.* `GateParted` splits the type invariant, which is large, by variables.
`OnlyChecksUnderWay` rests on the order of a check's reads: one that has come to the app
has found the asset open since it began (`Passed`). `StepChecks` says what a step may do
to a check, another call's step included. `ReplayRestores` is about a whole replay;
`RestoreInv` has it of the rows behind the replay, `Behind`, for the entry of each key
that is the last so far.

*The sweep.* `Good` says of a run that it owes no open row and that a short batch is
all it still owes of the table: a batch below the limit is all that matched, by the
cardinalities in `BatchHolds`, the one place where rows have to be finite. `LockHeld`
says that a run in its time without the lock is of a replica that has a relic: a run
that outlived its lock, whose release may free its sibling's. Every step but a new
run's start moves at most one run and lets rows leave, open or be marked; `StepFollows`
says so once, and the lemmas after it look at that.

*Inbound events.* The row's unique key lets one handler past it for an event
(`Single`), and that handler is done with an account whose job was added (`Done`), so
that a second job would need a second handler. For losses, `owed` is held between two
sets: whom it holds are there (`Fit`), and once the row is taken they are what its
handler has still to do (`Taken`), so that nobody is owed when it ends without a fault
(`Paid`). `Passed` has every event that a handler went past recorded or struck, which
carries this from an event to the request.

*Sessions.* Pairs and requests in hand belong to codes that were spent, and a code is
spent by one request (`ExchangedOnce`, a part of `TypeOK`). A dead pair stays dead, and
a session without a live pair or a request in hand cannot get one again. Each step
that ends a pair or a request has a successor or leaves a reason (`RequestServes`,
`PairServes`).

**Checked by TLC only**: liveness, since fairness and ENABLED are outside TLAPS:
`QueuedResolves`, `LiveRowKeepsSyncing`, `StoppedQuiesces`, `BreakerTrips`,
`NoSilentLoss`, `BucketsDrain`, `DeadIsFlagged`, `FalseFlagHeals`, `OthersRun` and
`SweepEnds`. Of `NoSilentLoss`, `NoneForgotten` proves the safety half: there is always
something left that fairness can move. Every other property of a run that holds is a theorem.

## 6. Not modelled

- Platform adapters: HTTP clients of remote APIs. Their outcomes are choices among
  the worker's error classes; their rate limits and refreshes are in `RateBucket`,
  `MetaGate` and `TokenLifecycle`.
- Mappers, the data schema, the data API: pure mappings and reads, but for the merge of
  documents, which is in `ContentStore`. Of the canonical persistence, profiles,
  audiences, ads and comments.
- API keys, SDK tokens, workspaces, endpoint registration, MCP tools and connection
  tokens: inserts and updates of single rows behind guards.
- The token health sweep and the token history: a recommendation that no guard reads,
  and an append-only log written at best effort.
- The token lifecycle emitter: it picks an event's name and calls `emit`.
- The web front ends, the connect tool's pages, demos and scripts, more than half of
  the repository's lines: user interfaces that keep no state but the requests modelled.
- Configuration, encryption, metrics, logging.

`PROJECT.json` has them all with the reason.

## 7. Plan

Done, in this order: `SyncJobs` with `ExclusiveSync`, `WebhookDelivery`, `Digest`,
`TokenLifecycle`, `RateBucket`, `MetaGate`, `CronSweep`, `InboundWebhooks`,
`McpOAuth` and `ContentStore`, with their runs, and the proofs of all their safety
properties.

What is left:

1. Compositions: the account's status as `TokenLifecycle` writes it, in `SyncJobs`
   (which takes those writes as unconditional requests); `Digest` over
   `WebhookDelivery` in place of a reduced `emit`; `CronSweep`'s lock under the
   tick, which would let ticks overlap.
2. `ContentStore` under `Digest`: what `fire` counts into a bucket there is announced
   at once here.
