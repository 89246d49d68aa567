------------------------------ MODULE MetaGate ------------------------------
(***************************************************************************)
(* The mirror of Meta's usage headers and the gates that read it: every    *)
(* Graph or Threads response is observed into Redis (a hash for the app    *)
(* and one for each asset, with a TTL), checkGate() denies a Graph call    *)
(* while a hash is at 75% or within its estimated time to regain access,   *)
(* the scheduler's pre-flight defers Meta jobs while the app is at 90%,    *)
(* and an operator may replay logged headers into the mirror.              *)
(*                                                                         *)
(* A sync job has several calls in flight at once: its fetchers send them  *)
(* in batches with Promise.all, and a batch that one call rejects leaves   *)
(* the others behind.  The hashes are read and written one await at a      *)
(* time.  A wait and the TTL are counted in ticks; a hash keeps the ticks  *)
(* since its lastSeenAt.                                                   *)
(***************************************************************************)
EXTENDS Integers, Sequences, FiniteSets

CONSTANTS
  Meta,         \* sync jobs of Facebook and Instagram
  Threads,      \* sync jobs of Threads
  Calls,        \* the calls that may be in flight at once
  Assets, AssetOf,   \* AssetOf[j]: the asset a Meta job calls for
  App,          \* the app's key
  Waits,        \* estimated times to regain access
  Reports,      \* usage headers Meta may send
  Life,         \* STATE_TTL_SECONDS
  Budget,       \* enqueueBudget of the scheduler's tick
  MaxReports,   \* bound: responses with usage headers
  MaxReplays,   \* bound: replays by an operator
  MaxFaults     \* bound: failing Redis or database calls

(* Usage levels: below the gate's threshold, above it, above the pre-flight's. *)
Calm == 0
Busy == 1   \* GATE_THRESHOLD_PCT
Full == 2   \* PREFLIGHT_APP_PCT_CEIL
Levels == {Calm, Busy, Full}
Absent == -1   \* a response without x-app-usage

Jobs == Meta \cup Threads
Hubs == Assets \cup {App}
Entries == [key : Hubs, pct : Levels, wait : Waits]
AssetEntries == [key : Assets, pct : Levels, wait : Waits]

ASSUME GateAssumption ==
  /\ AssetOf \in [Meta -> Assets]
  /\ App \notin Assets
  /\ Waits \subseteq Nat /\ 0 \in Waits
  /\ Reports \subseteq [app : Levels \cup {Absent}, assets : Seq(AssetEntries)]
  /\ Life \in Nat \ {0} /\ Budget \in Nat \ {0}
  /\ MaxReports \in Nat /\ MaxReplays \in Nat /\ MaxFaults \in Nat

VARIABLES
  mirror,    \* the hash of each key
  running,   \* the jobs whose sync is under way
  call,      \* what each call is doing
  due,       \* the idle rows whose nextRunAt has passed, each with those that came before it
  unlogged,  \* headers whose api_call_log row is still being inserted
  log,       \* api_call_log, oldest first
  replay,    \* the replay in progress, if any
  slipped,   \* history: the keys that have been shut ever since the check of a call began
  allowed    \* reports, replays and faults still allowed

gateVars == <<mirror, running, call, due, unlogged, log, replay, slipped, allowed>>

Unseen == [age |-> -1]
Usages == [pct : Levels, wait : Waits, age : 0..Life - 1]
Rows == Seq(Entries) \ {<<>>}
AtRest == [at |-> "idle"]
Waiting(j) == [at |-> "calling", of |-> j]
NoReplay == [rows |-> <<>>]
Replays == [rows : Seq(Rows) \ {<<>>}, turn : Nat \ {0}, part : Nat \ {0}, live : SUBSET Hubs]
Checks == [at : {"checking"}, of : Meta, n : 1..2, late : 0..Life - 1]
Observations == [at : {"observing"}, of : Jobs, todo : Seq(Entries), row : Rows]

(* A gate's view of a hash, by a clock read `late` ticks ago. *)
WaitsFor(h, late) == h.wait > 0 /\ h.wait > h.age - late
Closes(h, late) == h # Unseen /\ (WaitsFor(h, late) \/ h.pct >= Busy)
Shut(k) == Closes(mirror[k], 0)

(* The keys a Graph call of a job consults, in order. *)
GateKeys(j) == <<AssetOf[j], App>>

(* What observe() writes for a response's headers, in order: the app's usage, *)
(* which never names a wait, then that of each asset, as far as they are there. *)
AppPart(r) == IF r.app = Absent THEN <<>> ELSE <<[key |-> App, pct |-> r.app, wait |-> 0]>>
EntriesOf(r) == AppPart(r) \o r.assets

(* Mutant: newest first. *)
NewestFirst(rows, n) == rows[Len(rows) + 1 - n]

(* The rows are replayed oldest first. *)
RowAt(rows, n) == rows[n]

Observing == {c \in Calls : call[c].at = "observing"}

GateTypeOK ==
  /\ mirror \in [Hubs -> Usages \cup {Unseen}]
  /\ running \subseteq Jobs
  /\ call \in [Calls -> {AtRest} \cup {Waiting(j) : j \in Jobs} \cup Checks \cup Observations]
  /\ \A j \in DOMAIN due :
       /\ j \in Jobs \ running /\ j \notin due[j] /\ due[j] \subseteq DOMAIN due
       /\ \A i \in DOMAIN due \ {j} :
            (i \in due[j] /\ due[i] \subseteq due[j]) \/ (j \in due[i] /\ due[j] \subseteq due[i])
  /\ unlogged \in Seq(Rows) /\ log \in Seq(Rows)
  /\ replay \in Replays \cup {NoReplay}
  /\ replay # NoReplay => replay.turn <= Len(replay.rows) /\ replay.part <= Len(RowAt(replay.rows, replay.turn))
  /\ slipped \in [Calls -> SUBSET Hubs] /\ \A c \in Calls : \A k \in slipped[c] : Shut(k)
  /\ IsFiniteSet(Observing)
  /\ Len(unlogged) + Len(log) + Cardinality(Observing) + allowed.reports <= MaxReports
  /\ allowed \in [reports : 0..MaxReports, replays : 0..MaxReplays, faults : 0..MaxFaults]
-----------------------------------------------------------------------------
GateInit ==
  /\ mirror = [k \in Hubs |-> Unseen]
  /\ running = {}
  /\ call = [c \in Calls |-> AtRest]
  /\ due = [j \in {} |-> {}]
  /\ unlogged = <<>> /\ log = <<>>
  /\ replay = NoReplay
  /\ slipped = [c \in Calls |-> {}]
  /\ allowed = [reports |-> MaxReports, replays |-> MaxReplays, faults |-> MaxFaults]

(* History: after a step, forget the keys that are open again. *)
StillShut(K, m) == {k \in K : Closes(m[k], 0)}
Tracked(m) == slipped' = [c \in Calls |-> StillShut(slipped[c], m)]

Fault == allowed.faults > 0 /\ allowed' = [allowed EXCEPT !.faults = @ - 1]

(* nextRunAt has passed, whatever an outcome made of it. *)
FallDue(j) ==
  /\ j \notin running /\ j \notin DOMAIN due
  /\ due' = [i \in DOMAIN due \cup {j} |-> IF i = j THEN DOMAIN due ELSE due[i]]
  /\ UNCHANGED <<mirror, running, call, unlogged, log, replay, slipped, allowed>>

(* The tick takes the oldest rows within its budget and leaves the Meta jobs *)
(* among them while the app's usage is at the pre-flight's ceiling.          *)
Deferred == mirror[App] # Unseen /\ (mirror[App].pct = Full \/ WaitsFor(mirror[App], 0))
Taken == {j \in DOMAIN due : Cardinality(due[j]) < Budget}
Enqueued == IF Deferred THEN Taken \ Meta ELSE Taken

(* Mutant: the rows are not marked as queued. *)
EnqueueUnmarked ==
  /\ Enqueued # {}
  /\ running' = running \cup Enqueued
  /\ UNCHANGED <<mirror, call, due, unlogged, log, replay, slipped, allowed>>

Enqueue ==
  /\ Enqueued # {}
  /\ due' = [j \in DOMAIN due \ Enqueued |-> due[j] \ Enqueued]
  /\ running' = running \cup Enqueued
  /\ UNCHANGED <<mirror, call, unlogged, log, replay, slipped, allowed>>

(* A call of j starts: a Graph client asks the gate, a Threads client observes *)
(* but never asks.                                                             *)
Starts(c, j) ==
  IF j \in Meta
  THEN /\ call' = [call EXCEPT ![c] = [at |-> "checking", of |-> j, n |-> 1, late |-> 0]]
       /\ slipped' = [slipped EXCEPT ![c] = StillShut({AssetOf[j], App}, mirror)]
  ELSE call' = [call EXCEPT ![c] = Waiting(j)] /\ UNCHANGED slipped

(* A run makes a call, whatever others of its own are in flight: those of its *)
(* batch, or those that an earlier run left behind.                           *)
Launch(c) ==
  /\ call[c] = AtRest
  /\ \E j \in running : Starts(c, j)
  /\ UNCHANGED <<mirror, running, due, unlogged, log, replay, allowed>>

(* The run of a job ends. *)
Ends(j) ==
  /\ j \in running
  /\ running' = running \ {j}
  /\ UNCHANGED <<mirror, call, due, unlogged, log, replay, slipped, allowed>>

(* A call is over.  Its failure rejects the batch and ends the run, if it is  *)
(* not swallowed and the run did not end before; the other calls go on.       *)
Rests(c) ==
  /\ call' = [call EXCEPT ![c] = AtRest]
  /\ slipped' = [slipped EXCEPT ![c] = {}]
  /\ running' \in {running, running \ {call[c].of}}

(* The response is dealt with: the next page may follow, even when the run    *)
(* that asked for it is over.                                                 *)
GoesOn(c) == Rests(c) \/ (Starts(c, call[c].of) /\ UNCHANGED running)

(* checkGate() reads one key after another, with the clock of its start. *)
Begins(c) ==
  /\ call' = [call EXCEPT ![c] = Waiting(call[c].of)]
  /\ slipped' = [slipped EXCEPT ![c] = {}]
  /\ UNCHANGED running

(* Mutant: only a wait denies. *)
DeniedByWait(c) ==
  LET h == mirror[GateKeys(call[c].of)[call[c].n]] IN h # Unseen /\ WaitsFor(h, call[c].late)

Denied(c) == Closes(mirror[GateKeys(call[c].of)[call[c].n]], call[c].late)

Read(c) ==
  /\ call[c].at = "checking"
  /\ \/ Denied(c) /\ Rests(c)
     \/ /\ ~Denied(c) /\ call[c].n < Len(GateKeys(call[c].of))
        /\ call' = [call EXCEPT ![c].n = @ + 1]
        /\ UNCHANGED <<running, slipped>>
     \/ ~Denied(c) /\ call[c].n = Len(GateKeys(call[c].of)) /\ Begins(c)
  /\ UNCHANGED <<mirror, due, unlogged, log, replay, allowed>>

(* A failing read lets the call through, the other keys unread. *)
ReadFails(c) ==
  /\ call[c].at = "checking"
  /\ Fault
  /\ Begins(c)
  /\ UNCHANGED <<mirror, due, unlogged, log, replay>>

(* The response arrives, or the request fails; without usage headers there is *)
(* nothing to observe.                                                        *)
Answer(c) ==
  /\ call[c].at = "calling"
  /\ \/ /\ allowed.reports > 0
        /\ allowed' = [allowed EXCEPT !.reports = @ - 1]
        /\ \E r \in Reports :
             /\ EntriesOf(r) # <<>>
             /\ call' = [call EXCEPT ![c] = [at |-> "observing", of |-> call[c].of,
                                        todo |-> EntriesOf(r), row |-> EntriesOf(r)]]
        /\ UNCHANGED <<running, slipped>>
     \/ GoesOn(c) /\ UNCHANGED allowed
  /\ UNCHANGED <<mirror, due, unlogged, log, replay>>

Hash(e) == [pct |-> e.pct, wait |-> e.wait, age |-> 0]

(* observe() writes the next hash, and renews its TTL. *)
Observe(c) ==
  /\ call[c].at = "observing" /\ call[c].todo # <<>>
  /\ LET e == Head(call[c].todo)
     IN  /\ mirror' = [mirror EXCEPT ![e.key] = Hash(e)]
         /\ replay' = IF replay = NoReplay THEN replay ELSE [replay EXCEPT !.live = @ \cup {e.key}]
  /\ call' = [call EXCEPT ![c].todo = Tail(@)]
  /\ Tracked(mirror')
  /\ UNCHANGED <<running, due, unlogged, log, allowed>>

(* A failing write is swallowed and ends the observation. *)
ObserveFails(c) ==
  /\ call[c].at = "observing" /\ call[c].todo # <<>>
  /\ Fault
  /\ call' = [call EXCEPT ![c].todo = <<>>]
  /\ UNCHANGED <<mirror, running, due, unlogged, log, replay, slipped>>

(* The call is logged without waiting for the insert. *)
Observed(c) ==
  /\ call[c].at = "observing" /\ call[c].todo = <<>>
  /\ unlogged' = Append(unlogged, call[c].row)
  /\ GoesOn(c)
  /\ UNCHANGED <<mirror, due, log, replay, allowed>>

(* The inserts end in any order. *)
Without(s, n) == [i \in 1..Len(s) - 1 |-> IF i < n THEN s[i] ELSE s[i + 1]]

Logged ==
  /\ \E n \in DOMAIN unlogged : unlogged' = Without(unlogged, n) /\ log' = Append(log, unlogged[n])
  /\ UNCHANGED <<mirror, running, call, due, replay, slipped, allowed>>

(* The insert fails. *)
LogLost ==
  /\ \E n \in DOMAIN unlogged : unlogged' = Without(unlogged, n)
  /\ Fault
  /\ UNCHANGED <<mirror, running, call, due, log, replay, slipped>>

(* An operator replays the rows of the last hours. *)
Replay ==
  /\ replay = NoReplay /\ allowed.replays > 0
  /\ allowed' = [allowed EXCEPT !.replays = @ - 1]
  /\ \E n \in DOMAIN log :
       replay' = [rows |-> SubSeq(log, n, Len(log)), turn |-> 1, part |-> 1, live |-> {}]
  /\ UNCHANGED <<mirror, running, call, due, unlogged, log, slipped>>

Turn == RowAt(replay.rows, replay.turn)

(* The replay goes on to its next row, or is over. *)
NextRow == IF replay.turn = Len(replay.rows) THEN NoReplay
           ELSE [replay EXCEPT !.turn = @ + 1, !.part = 1]

ReplayWrites ==
  /\ replay # NoReplay
  /\ mirror' = [mirror EXCEPT ![Turn[replay.part].key] = Hash(Turn[replay.part])]
  /\ replay' = IF replay.part < Len(Turn) THEN [replay EXCEPT !.part = @ + 1] ELSE NextRow
  /\ Tracked(mirror')
  /\ UNCHANGED <<running, call, due, unlogged, log, allowed>>

(* A failing write ends the row; the keys it names are nobody's promise. *)
ReplayFails ==
  /\ replay # NoReplay
  /\ Fault
  /\ replay' = IF NextRow = NoReplay THEN NoReplay
               ELSE [NextRow EXCEPT !.live = @ \cup {Turn[i].key : i \in replay.part..Len(Turn)}]
  /\ UNCHANGED <<mirror, running, call, due, unlogged, log, slipped>>

(* Mutant: hashes do not expire. *)
AgedForEver(h) == IF h = Unseen \/ h.age + 1 = Life THEN h ELSE [h EXCEPT !.age = @ + 1]

(* Time passes: waits and TTLs run down. *)
Aged(h) ==
  IF h = Unseen \/ h.age + 1 = Life THEN Unseen ELSE [h EXCEPT !.age = @ + 1]

Ages ==
  /\ mirror' = [k \in Hubs |-> Aged(mirror[k])]
  /\ call' = [c \in Calls |-> IF call[c].at = "checking" /\ call[c].late < Life - 1
                              THEN [call[c] EXCEPT !.late = @ + 1] ELSE call[c]]
  /\ Tracked(mirror')
  /\ UNCHANGED <<running, due, unlogged, log, replay, allowed>>

Call(c) == Read(c) \/ Answer(c) \/ Observe(c) \/ Observed(c)
Faulty(c) == ReadFails(c) \/ ObserveFails(c)

GateNext ==
  \/ \E j \in Jobs : FallDue(j) \/ Ends(j)
  \/ \E c \in Calls : Launch(c) \/ Call(c) \/ Faulty(c)
  \/ Enqueue \/ Logged \/ LogLost \/ Replay \/ ReplayWrites \/ ReplayFails \/ Ages

Fairness == WF_gateVars(Enqueue) /\ WF_gateVars(Ages)

GateSpec == GateInit /\ [][GateNext]_gateVars /\ Fairness
-----------------------------------------------------------------------------
(* However the reads of the checks interleave with observations and with one  *)
(* another, no call begins that had a key of its own shut throughout its      *)
(* check.  So once a key shuts, only the calls whose checks were under way    *)
(* then can slip through, each once: a job overshoots by its batch at most.   *)
(* A failing read may let another one through.                                *)
OnlyChecksUnderWay ==
  [][\A c \in Calls :
       call[c].at = "checking" /\ call'[c].at = "calling" /\ allowed' = allowed =>
         slipped[c] = {}]_gateVars

ReplayEnds == replay # NoReplay /\ replay' = NoReplay /\ allowed' = allowed

(* Row i of a replay names k in its part m, and nothing later does. *)
LastOf(rows, k, i, m) ==
  /\ i \in DOMAIN rows /\ m \in DOMAIN rows[i] /\ rows[i][m].key = k
  /\ \A x \in DOMAIN rows : \A y \in DOMAIN rows[x] : rows[x][y].key = k => x < i \/ (x = i /\ y <= m)

(* A replay leaves in each key it names, and nobody wrote meanwhile, what its *)
(* latest row says: the order in which rows and their hashes are written.     *)
ReplayRestores ==
  [][ReplayEnds => \A i \in DOMAIN replay.rows : \A m \in DOMAIN replay.rows[i] :
       LET e == replay.rows[i][m]
       IN  LastOf(replay.rows, e.key, i, m) /\ e.key \notin replay.live /\ mirror'[e.key] # Unseen
             => mirror'[e.key].pct = e.pct]_gateVars

(* A due job of another platform is taken in the end: the Meta jobs that the  *)
(* pre-flight defers keep their nextRunAt and fill the tick's budget, and     *)
(* nothing but the TTL reopens the app's key when no call is made.            *)
OthersRun == \A o \in Threads : o \in DOMAIN due ~> o \notin DOMAIN due
=============================================================================
