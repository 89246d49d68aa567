-------------------------- MODULE InboundWebhooks --------------------------
(***************************************************************************)
(* The ingest of the platforms' webhooks.  A platform delivers a request   *)
(* at least once: Meta's holds several entries, those of Threads and       *)
(* TikTok one event.  A handler takes its events in order: it records the  *)
(* event under a unique id, which drops repetitions, finds the accounts    *)
(* the event names, enqueues a sync job for each enrolled one (or, when a  *)
(* user revoked TikTok's authorization, disconnects them all), and stamps  *)
(* the event's row.  Signatures and the choice of the product are left     *)
(* out: an event names the accounts that share its canonical id.           *)
(***************************************************************************)
EXTENDS Integers, Sequences, FiniteSets

CONSTANTS
  Events, Kind,     \* "meta", "threads", "removal" or "other" (of TikTok)
  Accounts,
  Named,            \* the accounts with the canonical id of each event
  Enrolled,         \* those with a sync job for its product
  Requests,         \* sequences of events
  Handlers,         \* requests in hand at a time
  MaxSends,         \* bound: requests delivered
  MaxTurns,         \* bound: accounts disconnected or reconnected by users
  MaxFaults         \* bound: failing calls and crashes

Kinds == {"meta", "threads", "removal", "other"}

ASSUME InboundAssumption ==
  /\ Kind \in [Events -> Kinds]
  /\ Named \in [Events -> SUBSET Accounts] /\ Enrolled \in [Events -> SUBSET Accounts]
  /\ Requests \subseteq Seq(Events) \ {<<>>}
  /\ MaxSends \in Nat /\ MaxTurns \in Nat /\ MaxFaults \in Nat

VARIABLES
  row,       \* inbound_webhook_log: the row of each event
  status,    \* of each account
  jobs,      \* ids of the webhook jobs in the queue
  handler,   \* what each handler does
  sent,      \* requests delivered
  acked,     \* requests answered 200
  added,     \* history: jobs added for each event and account
  owed,      \* history: accounts of an event it has yet to reach
  struck,    \* history: events a fault befell
  left       \* deliveries, turns and faults still allowed

vars == <<row, status, jobs, handler, sent, acked, added, owed, struck, left>>

Rows == {"none", "recorded", "skipped", "processed"}
Idle == [at |-> "idle"]
Work == [at : {"record", "find", "each"}, req : Requests, n : Nat, todo : SUBSET Accounts, enqueued : BOOLEAN]
Busy(h) == handler[h] # Idle
Event(h) == handler[h].req[handler[h].n]

(* BullMQ's id of the job for an event and an account. *)
(* Mutant: without the account. *)
EventJob(e, a) == <<e>>

JobId(e, a) == <<e, a>>

TypeOK ==
  /\ row \in [Events -> Rows]
  /\ status \in [Accounts -> {"active", "disconnected"}]
  /\ jobs \subseteq Events \X Accounts
  /\ handler \in [Handlers -> Work \cup {Idle}]
  /\ \A h \in Handlers : Busy(h) =>
       /\ handler[h].req \in sent /\ handler[h].n \in DOMAIN handler[h].req
       /\ handler[h].todo \subseteq Named[Event(h)]
       /\ handler[h].at # "record" => row[Event(h)] # "none"
  /\ sent \subseteq Requests /\ acked \subseteq sent
  /\ added \in [Events -> [Accounts -> Nat]]
  /\ \A e \in Events, a \in Accounts : added[e][a] > 0 => a \in Enrolled[e]
  /\ owed \in [Events -> SUBSET Accounts] /\ struck \subseteq Events
  /\ left \in [sends : 0..MaxSends, turns : 0..MaxTurns, faults : 0..MaxFaults]
-----------------------------------------------------------------------------
Init ==
  /\ row = [e \in Events |-> "none"]
  /\ status \in [Accounts -> {"active", "disconnected"}]
  /\ jobs = {}
  /\ handler = [h \in Handlers |-> Idle]
  /\ sent = {} /\ acked = {}
  /\ added = [e \in Events |-> [a \in Accounts |-> 0]]
  /\ owed = [e \in Events |-> {}] /\ struck = {}
  /\ left = [sends |-> MaxSends, turns |-> MaxTurns, faults |-> MaxFaults]

Active(e) == {a \in Named[e] : status[a] = "active"}

(* Whom an event must reach, as things are. *)
Reach(e) ==
  CASE Kind[e] = "removal" -> Active(e)
    [] Kind[e] = "other" -> {}
    [] OTHER -> Active(e) \cap Enrolled[e]

Has(r, e) == \E n \in DOMAIN r : r[n] = e

(* A platform sends a request, again if it was not answered 200, or for no *)
(* reason it tells.                                                        *)
Deliver(r) ==
  /\ left.sends > 0 /\ left' = [left EXCEPT !.sends = @ - 1]
  /\ \E h \in Handlers :
       /\ ~Busy(h)
       /\ handler' = [handler EXCEPT ![h] = [at |-> "record", req |-> r, n |-> 1, todo |-> {}, enqueued |-> FALSE]]
  /\ sent' = sent \cup {r}
  /\ owed' = [e \in Events |-> IF Has(r, e) /\ \A q \in sent : ~Has(q, e) THEN Reach(e) ELSE owed[e]]
  /\ UNCHANGED <<row, status, jobs, acked, added, struck>>

(* The handler goes on to the request's next entry, or answers 200. *)
Proceed(h) ==
  LET s == handler[h]
  IN  IF s.n = Len(s.req)
      THEN handler' = [handler EXCEPT ![h] = Idle] /\ acked' = acked \cup {s.req}
      ELSE /\ handler' = [handler EXCEPT ![h] = [s EXCEPT !.at = "record", !.n = @ + 1, !.todo = {}, !.enqueued = FALSE]]
           /\ UNCHANGED acked

(* Mutant: an event is a repetition once it is processed. *)
Finished(e) == row[e] \in {"skipped", "processed"}

(* The row's unique key. *)
Repeated(e) == row[e] # "none"

Record(h) ==
  /\ Busy(h) /\ handler[h].at = "record"
  /\ \/ Repeated(Event(h)) /\ Proceed(h) /\ UNCHANGED row
     \/ /\ ~Repeated(Event(h))
        /\ row' = [row EXCEPT ![Event(h)] = "recorded"]
        /\ handler' = [handler EXCEPT ![h].at = "find"]
        /\ UNCHANGED acked
  /\ UNCHANGED <<status, jobs, sent, added, owed, struck, left>>

(* The accounts as findMany reads them; TikTok's, whatever their status. *)
Find(h) ==
  /\ Busy(h) /\ handler[h].at = "find"
  /\ LET e == Event(h)
         found == IF Kind[e] \in {"removal", "other"} THEN Named[e] ELSE Active(e)
     IN  IF found = {} THEN Proceed(h)
         ELSE /\ handler' = [handler EXCEPT ![h].at = "each", ![h].todo = IF Kind[e] = "other" THEN {} ELSE Active(e)]
              /\ UNCHANGED acked
  /\ UNCHANGED <<row, status, jobs, sent, added, owed, struck, left>>

HasJob(e, a) == a \in Enrolled[e]

(* queue.add does nothing when the id is there. *)
Enqueue(h) ==
  /\ Busy(h) /\ handler[h].at = "each" /\ Kind[Event(h)] \in {"meta", "threads"}
  /\ LET e == Event(h)
     IN  \E a \in handler[h].todo :
           LET adds == HasJob(e, a) /\ JobId(e, a) \notin jobs
           IN  /\ handler' = [handler EXCEPT ![h].todo = @ \ {a}, ![h].enqueued = @ \/ HasJob(e, a)]
               /\ jobs' = IF adds THEN jobs \cup {JobId(e, a)} ELSE jobs
               /\ added' = IF adds THEN [added EXCEPT ![e][a] = @ + 1] ELSE added
               /\ owed' = IF adds THEN [owed EXCEPT ![e] = @ \ {a}] ELSE owed
  /\ UNCHANGED <<row, status, sent, acked, struck, left>>

(* An account leaves: no event need reach it any more. *)
Leaves(a) ==
  /\ status' = [status EXCEPT ![a] = "disconnected"]
  /\ owed' = [e \in Events |-> owed[e] \ {a}]

(* The status is the one found; the row is disconnected whatever it is now. *)
Disconnect(h) ==
  /\ Busy(h) /\ handler[h].at = "each" /\ Kind[Event(h)] = "removal"
  /\ \E a \in handler[h].todo : Leaves(a) /\ handler' = [handler EXCEPT ![h].todo = @ \ {a}]
  /\ UNCHANGED <<row, jobs, sent, acked, added, struck, left>>

(* markResolved(): an event that enqueued nothing is stamped as not processed, *)
(* and Meta's then as processed all the same.                                  *)
Resolve(h) ==
  /\ Busy(h) /\ handler[h].at = "each" /\ handler[h].todo = {}
  /\ LET e == Event(h)
         nothing == Kind[e] = "other" \/ (Kind[e] \in {"meta", "threads"} /\ ~handler[h].enqueued)
     IN  \/ /\ nothing /\ row[e] # "skipped"
            /\ row' = [row EXCEPT ![e] = "skipped"]
            /\ IF Kind[e] = "meta" THEN UNCHANGED <<handler, acked>> ELSE Proceed(h)
         \/ /\ ~nothing \/ (Kind[e] = "meta" /\ row[e] = "skipped")
            /\ row' = [row EXCEPT ![e] = "processed"]
            /\ Proceed(h)
  /\ UNCHANGED <<status, jobs, sent, added, owed, struck, left>>

Fault == left.faults > 0 /\ left' = [left EXCEPT !.faults = @ - 1]

(* record() swallows every error: the event counts as a repetition. *)
RecordFails(h) ==
  /\ Busy(h) /\ handler[h].at = "record" /\ ~Repeated(Event(h))
  /\ Fault
  /\ Proceed(h)
  /\ struck' = struck \cup {Event(h)}
  /\ UNCHANGED <<row, status, jobs, sent, added, owed>>

(* Any other failing call answers 500, and the rest of the request is left. *)
Fails(h) ==
  /\ Busy(h) /\ handler[h].at # "record"
  /\ Fault
  /\ handler' = [handler EXCEPT ![h] = Idle]
  /\ struck' = struck \cup {Event(h)}
  /\ UNCHANGED <<row, status, jobs, sent, acked, added, owed>>

(* The api process stops. *)
Crash ==
  /\ \E h \in Handlers : Busy(h)
  /\ Fault
  /\ handler' = [h \in Handlers |-> Idle]
  /\ struck' = struck \cup {Event(h) : h \in {h \in Handlers : Busy(h) /\ handler[h].at # "record"}}
  /\ UNCHANGED <<row, status, jobs, sent, acked, added, owed>>

(* A finished job leaves the queue, and its id is free again. *)
JobGone ==
  /\ \E j \in jobs : jobs' = jobs \ {j}
  /\ UNCHANGED <<row, status, handler, sent, acked, added, owed, struck, left>>

(* Users disconnect and reconnect their accounts. *)
Turn(a) ==
  /\ left.turns > 0 /\ left' = [left EXCEPT !.turns = @ - 1]
  /\ \/ status[a] = "active" /\ Leaves(a)
     \/ /\ status[a] = "disconnected" /\ status' = [status EXCEPT ![a] = "active"]
        /\ UNCHANGED owed
  /\ UNCHANGED <<row, jobs, handler, sent, acked, added, struck>>

Handle(h) == Record(h) \/ Find(h) \/ Enqueue(h) \/ Disconnect(h) \/ Resolve(h)

Next ==
  \/ \E r \in Requests : Deliver(r)
  \/ \E h \in Handlers : Handle(h) \/ RecordFails(h) \/ Fails(h)
  \/ Crash \/ JobGone
  \/ \E a \in Accounts : Turn(a)

Spec == Init /\ [][Next]_vars
-----------------------------------------------------------------------------
(* However often and however concurrently a request is delivered, an event     *)
(* adds one job for an account, also when the job has left the queue meanwhile: *)
(* of the two that drop repetitions, the row and the job's id, the row does it. *)
EnqueuedOnce == \A e \in Events, a \in Accounts : added[e][a] <= 1

(* A fault costs the event it befalls, and no other of its request: when a     *)
(* request is answered 200, and no handler is at work on one of its events,    *)
(* that event has reached every account that was there for it all along.       *)
InHand(e) == \E h \in Handlers : Busy(h) /\ Event(h) = e

LostOnlyByFault ==
  \A r \in acked : \A n \in DOMAIN r :
    ~InHand(r[n]) /\ r[n] \notin struck => row[r[n]] # "none" /\ owed[r[n]] = {}
=============================================================================
