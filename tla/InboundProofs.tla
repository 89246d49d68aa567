--------------------------- MODULE InboundProofs ---------------------------
(* Proofs about InboundWebhooks: its type invariant, that an event adds one  *)
(* job for an account, and that a fault costs no event but the one it befalls.*)
EXTENDS InboundWebhooks, TLAPS

(* A handler's work past the row that drops repetitions, and its event. *)
Past(x) == x # Idle /\ x.at # "record"
EventOf(x) == x.req[x.n]
AtWork(h, e) == Past(handler[h]) /\ EventOf(handler[h]) = e

Types ==
  /\ row \in [Events -> Rows]
  /\ status \in [Accounts -> {"active", "disconnected"}]
  /\ jobs \subseteq Events \X Accounts
  /\ handler \in [Handlers -> Work \cup {Idle}]
  /\ sent \subseteq Requests /\ acked \subseteq sent
  /\ added \in [Events -> [Accounts -> Nat]]
  /\ owed \in [Events -> SUBSET Accounts] /\ struck \subseteq Events
  /\ left \in [sends : 0..MaxSends, turns : 0..MaxTurns, faults : 0..MaxFaults]

Fits ==
  /\ \A h \in Handlers : Busy(h) =>
       /\ handler[h].req \in sent /\ handler[h].n \in DOMAIN handler[h].req
       /\ handler[h].todo \subseteq Named[EventOf(handler[h])]
       /\ handler[h].at # "record" => row[EventOf(handler[h])] # "none"
  /\ \A e \in Events, a \in Accounts : added[e][a] > 0 => a \in Enrolled[e]

LEMMA TypeOKParts == TypeOK <=> Types /\ Fits
  BY DEF TypeOK, Types, Fits, Event, EventOf

LEMMA WorkIsBusy == \A w \in Work : w # Idle
  BY DEF Work, Idle

LEMMA WorkTyped ==
  ASSUME TypeOK, NEW h \in Handlers, Busy(h)
  PROVE  /\ handler[h] \in Work /\ handler[h].req \in Requests /\ handler[h].req \in Seq(Events)
         /\ handler[h].n \in 1..Len(handler[h].req) /\ handler[h].n \in Nat
         /\ Event(h) = EventOf(handler[h]) /\ Event(h) \in Events
         /\ handler[h].todo \subseteq Named[Event(h)] /\ handler[h].todo \subseteq Accounts
         /\ handler[h].enqueued \in BOOLEAN
  BY InboundAssumption DEF TypeOK, Busy, Work, Event, EventOf

LEMMA KindsNamed ==
  ASSUME NEW e \in Events
  PROVE  /\ Kind[e] \in Kinds /\ Named[e] \subseteq Accounts /\ Enrolled[e] \subseteq Accounts
         /\ Active(e) \subseteq Named[e] /\ Reach(e) \subseteq Active(e)
         /\ Kind[e] = "other" => Reach(e) = {}
         /\ Kind[e] \in {"meta", "threads"} => Reach(e) \subseteq Enrolled[e]
  BY InboundAssumption DEF Kinds, Active, Reach

(* What Proceed does: the request is answered, or its next event comes up. *)
Answers(h) == handler'[h] = Idle /\ handler[h].n = Len(handler[h].req) /\ acked' = acked \cup {handler[h].req}
GoesOn(h) ==
  /\ handler'[h] \in Work /\ handler'[h].at = "record" /\ handler'[h].req = handler[h].req
  /\ handler'[h].n = handler[h].n + 1 /\ handler[h].n < Len(handler[h].req) /\ handler'[h].todo = {}
  /\ acked' = acked
Others(h) == \A k \in Handlers \ {h} : handler'[k] = handler[k]

LEMMA Proceeds ==
  ASSUME TypeOK, NEW h \in Handlers, Busy(h), Proceed(h)
  PROVE  /\ handler' \in [Handlers -> Work \cup {Idle}]
         /\ Others(h) /\ (Answers(h) \/ GoesOn(h))
  <1>1. handler \in [Handlers -> Work \cup {Idle}]
    BY DEF TypeOK
  <1>2. CASE handler[h].n = Len(handler[h].req)
    BY <1>1, <1>2 DEF Proceed, Answers, Others
  <1>3. CASE handler[h].n # Len(handler[h].req)
    <2>1. /\ handler' = [handler EXCEPT ![h] = [handler[h] EXCEPT !.at = "record", !.n = @ + 1, !.todo = {}, !.enqueued = FALSE]]
          /\ acked' = acked
      BY <1>3 DEF Proceed
    <2>2. /\ handler'[h] = [handler[h] EXCEPT !.at = "record", !.n = handler[h].n + 1, !.todo = {}, !.enqueued = FALSE]
          /\ Others(h)
      BY <1>1, <2>1 DEF Others
    <2>3. /\ handler'[h] \in Work /\ handler'[h].at = "record" /\ handler'[h].req = handler[h].req
          /\ handler'[h].n = handler[h].n + 1 /\ handler'[h].todo = {}
      <3>1. handler[h] \in Work /\ handler[h].n + 1 \in Nat /\ handler[h].req \in Requests
        BY WorkTyped
      <3>2. handler'[h] = [at |-> "record", req |-> handler[h].req, n |-> handler[h].n + 1, todo |-> {}, enqueued |-> FALSE]
        BY <2>2, <3>1 DEF Work
      <3> QED
        BY <2>2, <3>1, <3>2 DEF Work
    <2>4. handler[h].n < Len(handler[h].req)
      BY <1>3, WorkTyped
    <2>5. handler' \in [Handlers -> Work \cup {Idle}]
      BY <1>1, <2>1, <2>2, <2>3
    <2> QED
      BY <2>1, <2>2, <2>3, <2>4, <2>5 DEF GoesOn
  <1> QED
    BY <1>2, <1>3
-----------------------------------------------------------------------------
LEMMA TypeInit == Init => TypeOK
  BY InboundAssumption DEF Init, TypeOK, Rows, Idle, Busy

(* Rows and faults are never taken back. *)
Onward == /\ \A e \in Events : row[e] # "none" => row'[e] # "none"
          /\ struck \subseteq struck' /\ sent \subseteq sent'

(* What becomes of a handler's work on an event: it stays with the event, and *)
(* with accounts it had still to do, or it ends.                              *)
Follows(h) ==
  Past(handler'[h]) =>
    /\ Past(handler[h]) /\ EventOf(handler'[h]) = EventOf(handler[h])
    /\ handler[h].at = "each" => handler'[h].at = "each" /\ handler'[h].todo \subseteq handler[h].todo

(* Or it begins. *)
Begins(h) ==
  /\ Busy(h) /\ handler[h].at = "record" /\ row[Event(h)] = "none"
  /\ row' = [row EXCEPT ![Event(h)] = "recorded"]
  /\ handler'[h] \in Work /\ handler'[h].at = "find" /\ handler'[h].req = handler[h].req
  /\ handler'[h].n = handler[h].n /\ handler'[h].todo = handler[h].todo
  /\ Others(h)
  /\ UNCHANGED <<status, jobs, sent, acked, added, owed, struck, left>>

LEMMA ProceedFollows ==
  ASSUME TypeOK, NEW h \in Handlers, Busy(h), Proceed(h)
  PROVE  \A k \in Handlers : Follows(k)
  <1>1. ~Past(handler'[h])
    BY Proceeds DEF Answers, GoesOn, Past
  <1>2. \A k \in Handlers \ {h} : Follows(k)
    BY Proceeds DEF Others, Follows
  <1> QED
    BY <1>1, <1>2 DEF Follows

(* A handler's new work. *)
LEMMA Rewritten ==
  ASSUME TypeOK, NEW h \in Handlers, NEW w \in Work \cup {Idle}, handler' = [handler EXCEPT ![h] = w]
  PROVE  handler' \in [Handlers -> Work \cup {Idle}] /\ handler'[h] = w /\ Others(h)
  BY DEF TypeOK, Others

LEMMA RecordSteps ==
  ASSUME TypeOK, NEW h \in Handlers, Record(h)
  PROVE  \/ Busy(h) /\ Proceed(h) /\ row[Event(h)] # "none" /\ row' = row
         \/ Begins(h) /\ handler' \in [Handlers -> Work \cup {Idle}]
  <1>1. CASE Repeated(Event(h)) /\ Proceed(h) /\ UNCHANGED row
    BY <1>1 DEF Record, Repeated
  <1>2. CASE /\ ~Repeated(Event(h))
             /\ row' = [row EXCEPT ![Event(h)] = "recorded"]
             /\ handler' = [handler EXCEPT ![h].at = "find"] /\ UNCHANGED acked
    <2> DEFINE w == [handler[h] EXCEPT !.at = "find"]
    <2>1. Busy(h) /\ handler[h].at = "record"
      BY DEF Record
    <2>2. handler[h] \in Work
      BY <2>1, WorkTyped
    <2>3. /\ w \in Work /\ w.at = "find" /\ w.req = handler[h].req /\ w.n = handler[h].n
          /\ w.todo = handler[h].todo
      BY <2>2 DEF Work
    <2>4. handler' = [handler EXCEPT ![h] = w]
      BY <1>2
    <2> HIDE DEF w
    <2>5. handler' \in [Handlers -> Work \cup {Idle}] /\ handler'[h] = w /\ Others(h)
      BY <2>3, <2>4, Rewritten
    <2> QED
      BY <1>2, <2>1, <2>3, <2>5 DEF Record, Begins, Repeated
  <1> QED
    BY <1>1, <1>2 DEF Record

(* What a handler finds to do. *)
Targets(h) == IF Kind[Event(h)] = "other" THEN {} ELSE Active(Event(h))
Finds(h) ==
  /\ handler'[h] \in Work /\ handler'[h].at = "each" /\ handler'[h].todo = Targets(h)
  /\ handler'[h].req = handler[h].req /\ handler'[h].n = handler[h].n
  /\ acked' = acked

LEMMA FindSteps ==
  ASSUME TypeOK, NEW h \in Handlers, Find(h)
  PROVE  /\ Busy(h) /\ handler[h].at = "find"
         /\ \/ Proceed(h) /\ Reach(Event(h)) = {}
            \/ Finds(h) /\ Others(h) /\ handler' \in [Handlers -> Work \cup {Idle}]
  <1>1. Busy(h) /\ handler[h].at = "find"
    BY DEF Find
  <1>2. /\ handler[h] \in Work /\ Event(h) \in Events
        /\ Active(Event(h)) \in SUBSET Accounts /\ Reach(Event(h)) \subseteq Active(Event(h))
        /\ Active(Event(h)) \subseteq Named[Event(h)]
    BY <1>1, WorkTyped, KindsNamed
  <1>3. CASE Proceed(h) /\ (IF Kind[Event(h)] \in {"removal", "other"} THEN Named[Event(h)] ELSE Active(Event(h))) = {}
    BY <1>1, <1>2, <1>3
  <1>4. CASE /\ handler' = [handler EXCEPT ![h].at = "each", ![h].todo = Targets(h)]
             /\ UNCHANGED acked
    <2> DEFINE w == [handler[h] EXCEPT !.at = "each", !.todo = Targets(h)]
    <2>1. Targets(h) \in SUBSET Accounts
      BY <1>2 DEF Targets
    <2>2. /\ w \in Work /\ w.at = "each" /\ w.req = handler[h].req /\ w.n = handler[h].n
          /\ w.todo = Targets(h)
      <3> HIDE DEF Targets
      <3> QED BY <1>2, <2>1 DEF Work
    <2>3. handler' = [handler EXCEPT ![h] = w]
      BY <1>4
    <2> HIDE DEF w
    <2>4. handler' \in [Handlers -> Work \cup {Idle}] /\ handler'[h] = w /\ Others(h)
      BY <2>2, <2>3, Rewritten
    <2> QED
      BY <1>1, <1>4, <2>2, <2>4 DEF Finds
  <1> QED
    BY <1>3, <1>4 DEF Find, Targets

(* An account is done. *)
Does(h, a) ==
  /\ handler'[h] \in Work /\ handler'[h].at = "each" /\ handler'[h].todo = handler[h].todo \ {a}
  /\ handler'[h].req = handler[h].req /\ handler'[h].n = handler[h].n
  /\ Others(h) /\ handler' \in [Handlers -> Work \cup {Idle}]

Adds(e, a) == HasJob(e, a) /\ JobId(e, a) \notin jobs

LEMMA EnqueueSteps ==
  ASSUME TypeOK, NEW h \in Handlers, Enqueue(h)
  PROVE  /\ Busy(h) /\ handler[h].at = "each" /\ Kind[Event(h)] \in {"meta", "threads"}
         /\ \E a \in handler[h].todo :
              /\ Does(h, a)
              /\ \/ /\ Adds(Event(h), a)
                    /\ jobs' = jobs \cup {JobId(Event(h), a)}
                    /\ added' = [added EXCEPT ![Event(h)][a] = @ + 1]
                    /\ owed' = [owed EXCEPT ![Event(h)] = @ \ {a}]
                 \/ ~Adds(Event(h), a) /\ UNCHANGED <<jobs, added, owed>>
  <1>1. Busy(h) /\ handler[h].at = "each" /\ Kind[Event(h)] \in {"meta", "threads"}
    BY DEF Enqueue
  <1>2. PICK a \in handler[h].todo :
          /\ handler' = [handler EXCEPT ![h].todo = @ \ {a}, ![h].enqueued = @ \/ HasJob(Event(h), a)]
          /\ jobs' = IF Adds(Event(h), a) THEN jobs \cup {JobId(Event(h), a)} ELSE jobs
          /\ added' = IF Adds(Event(h), a) THEN [added EXCEPT ![Event(h)][a] = @ + 1] ELSE added
          /\ owed' = IF Adds(Event(h), a) THEN [owed EXCEPT ![Event(h)] = @ \ {a}] ELSE owed
    BY DEF Enqueue, Adds
  <1>3. Does(h, a)
    <2> DEFINE w == [handler[h] EXCEPT !.todo = @ \ {a}, !.enqueued = @ \/ HasJob(Event(h), a)]
    <2>1. handler[h] \in Work /\ handler[h].enqueued \in BOOLEAN /\ handler[h].todo \ {a} \in SUBSET Accounts
      BY <1>1, WorkTyped
    <2>2. (handler[h].enqueued \/ HasJob(Event(h), a)) \in BOOLEAN
      BY <2>1
    <2>3. /\ w \in Work /\ w.at = handler[h].at /\ w.req = handler[h].req /\ w.n = handler[h].n
          /\ w.todo = handler[h].todo \ {a}
      BY <2>1, <2>2 DEF Work
    <2>4. handler' = [handler EXCEPT ![h] = w]
      BY <1>2
    <2> HIDE DEF w
    <2>5. handler' \in [Handlers -> Work \cup {Idle}] /\ handler'[h] = w /\ Others(h)
      BY <2>3, <2>4, Rewritten
    <2> QED
      BY <1>1, <2>3, <2>5 DEF Does
  <1> QED
    BY <1>1, <1>2, <1>3

LEMMA DisconnectSteps ==
  ASSUME TypeOK, NEW h \in Handlers, Disconnect(h)
  PROVE  /\ Busy(h) /\ handler[h].at = "each" /\ Kind[Event(h)] = "removal"
         /\ \E a \in handler[h].todo : Does(h, a) /\ Leaves(a)
  <1>1. Busy(h) /\ handler[h].at = "each" /\ Kind[Event(h)] = "removal"
    BY DEF Disconnect
  <1>2. PICK a \in handler[h].todo : Leaves(a) /\ handler' = [handler EXCEPT ![h].todo = @ \ {a}]
    BY DEF Disconnect
  <1>3. Does(h, a)
    <2> DEFINE w == [handler[h] EXCEPT !.todo = @ \ {a}]
    <2>1. handler[h] \in Work /\ handler[h].todo \ {a} \in SUBSET Accounts
      BY <1>1, WorkTyped
    <2>3. /\ w \in Work /\ w.at = handler[h].at /\ w.req = handler[h].req /\ w.n = handler[h].n
          /\ w.todo = handler[h].todo \ {a}
      BY <2>1 DEF Work
    <2>4. handler' = [handler EXCEPT ![h] = w]
      BY <1>2
    <2> HIDE DEF w
    <2>5. handler' \in [Handlers -> Work \cup {Idle}] /\ handler'[h] = w /\ Others(h)
      BY <2>3, <2>4, Rewritten
    <2> QED
      BY <1>1, <2>3, <2>5 DEF Does
  <1> QED
    BY <1>1, <1>2, <1>3

LEMMA ResolveSteps ==
  ASSUME TypeOK, NEW h \in Handlers, Resolve(h)
  PROVE  /\ Busy(h) /\ handler[h].at = "each" /\ handler[h].todo = {}
         /\ \E v \in {"skipped", "processed"} : row' = [row EXCEPT ![Event(h)] = v]
         /\ Proceed(h) \/ UNCHANGED <<handler, acked>>
         /\ UNCHANGED <<status, jobs, sent, added, owed, struck, left>>
  BY DEF Resolve

(* A request is taken up. *)
Starts(h, r) ==
  /\ ~Busy(h) /\ handler'[h] \in Work /\ handler'[h].at = "record" /\ handler'[h].req = r
  /\ handler'[h].n = 1 /\ handler'[h].todo = {} /\ r \in sent'
  /\ Others(h) /\ handler' \in [Handlers -> Work \cup {Idle}]

LEMMA DeliverSteps ==
  ASSUME TypeOK, NEW r \in Requests, Deliver(r)
  PROVE  \E h \in Handlers : Starts(h, r)
  <1> DEFINE w == [at |-> "record", req |-> r, n |-> 1, todo |-> {}, enqueued |-> FALSE]
  <1>1. PICK h \in Handlers : ~Busy(h) /\ handler' = [handler EXCEPT ![h] = w]
    BY DEF Deliver
  <1>2. w \in Work /\ w.at = "record" /\ w.req = r /\ w.n = 1 /\ w.todo = {}
    BY DEF Work
  <1>3. r \in sent'
    BY DEF Deliver
  <1> HIDE DEF w
  <1>4. handler' \in [Handlers -> Work \cup {Idle}] /\ handler'[h] = w /\ Others(h)
    BY <1>1, <1>2, Rewritten
  <1> QED
    BY <1>1, <1>2, <1>3, <1>4 DEF Starts

(* The steps of a handler that end its work at once. *)
Drops(h) == handler'[h] = Idle /\ Others(h) /\ handler' \in [Handlers -> Work \cup {Idle}]

LEMMA FailSteps ==
  ASSUME TypeOK, NEW h \in Handlers, Fails(h)
  PROVE  /\ Busy(h) /\ Drops(h) /\ struck' = struck \cup {Event(h)}
         /\ UNCHANGED <<row, status, jobs, sent, acked, added, owed>>
  <1>1. handler' = [handler EXCEPT ![h] = Idle]
    BY DEF Fails
  <1>2. handler' \in [Handlers -> Work \cup {Idle}] /\ handler'[h] = Idle /\ Others(h)
    BY <1>1, Rewritten
  <1> QED
    BY <1>2 DEF Fails, Drops

(* All that may become of a handler that is busy after a step. *)
Keeps(k) ==
  Busy(k)' =>
    \/ Busy(k) /\ handler'[k] = handler[k]
    \/ \E r \in Requests : Starts(k, r)
    \/ Busy(k) /\ GoesOn(k) /\ (row'[Event(k)] # "none" \/ Event(k) \in struck')
    \/ /\ Busy(k) /\ handler'[k].req = handler[k].req /\ handler'[k].n = handler[k].n
       /\ handler'[k].todo \subseteq Named[Event(k)]

LEMMA ProceedKeeps ==
  ASSUME TypeOK, NEW h \in Handlers, Busy(h), Proceed(h), row'[Event(h)] # "none" \/ Event(h) \in struck'
  PROVE  /\ handler' \in [Handlers -> Work \cup {Idle}]
         /\ \A k \in Handlers : Keeps(k)
  <1>1. Others(h) /\ (Answers(h) \/ GoesOn(h)) /\ handler' \in [Handlers -> Work \cup {Idle}]
    BY Proceeds
  <1>2. \A k \in Handlers \ {h} : Keeps(k)
    BY <1>1 DEF Keeps, Others, Busy
  <1>3. Keeps(h)
    BY <1>1 DEF Keeps, Answers, Busy
  <1> QED
    BY <1>1, <1>2, <1>3

Held == handler' \in [Handlers -> Work \cup {Idle}] /\ \A k \in Handlers : Keeps(k)

LEMMA HandlersKept == TypeOK /\ [Next]_vars => Held
  <1> SUFFICES ASSUME TypeOK, [Next]_vars PROVE Held
    OBVIOUS
  <1> USE DEF Others, Held
  <1>1. ASSUME NEW r \in Requests, Deliver(r) PROVE Held
    <2>1. PICK h \in Handlers : Starts(h, r)
      BY <1>1, DeliverSteps
    <2>2. handler' \in [Handlers -> Work \cup {Idle}] /\ Keeps(h) /\ \A k \in Handlers \ {h} : handler'[k] = handler[k]
      BY <2>1 DEF Starts, Keeps
    <2> QED
      BY <2>2 DEF Keeps, Busy
  <1>2. ASSUME NEW h \in Handlers, Record(h) PROVE Held
    <2>1. CASE Busy(h) /\ Proceed(h) /\ row[Event(h)] # "none" /\ row' = row
      BY <2>1, ProceedKeeps
    <2>2. CASE Begins(h) /\ handler' \in [Handlers -> Work \cup {Idle}]
      <3>1. Keeps(h)
        BY <2>2, WorkTyped DEF Begins, Keeps
      <3> QED
        BY <2>2, <3>1 DEF Begins, Keeps, Busy
    <2> QED
      BY <1>2, <2>1, <2>2, RecordSteps
  <1>3. ASSUME NEW h \in Handlers, Find(h) PROVE Held
    <2>1. Busy(h) /\ handler[h].at = "find" /\ row' = row /\ row[Event(h)] # "none"
      BY <1>3 DEF Find, TypeOK
    <2>2. CASE Proceed(h)
      BY <2>1, <2>2, ProceedKeeps
    <2>3. CASE Finds(h) /\ Others(h) /\ handler' \in [Handlers -> Work \cup {Idle}]
      <3>1. Targets(h) \subseteq Named[Event(h)]
        BY <2>1, WorkTyped, KindsNamed DEF Targets
      <3>2. Keeps(h)
        BY <2>1, <2>3, <3>1 DEF Finds, Keeps
      <3> QED
        BY <2>3, <3>2 DEF Keeps, Busy
    <2> QED
      BY <1>3, <2>2, <2>3, FindSteps
  <1>4. ASSUME NEW h \in Handlers, NEW a, Does(h, a), Busy(h) PROVE Held
    <2>1. Keeps(h)
      BY <1>4, WorkTyped DEF Does, Keeps
    <2> QED
      BY <1>4, <2>1 DEF Does, Keeps, Busy
  <1>5. ASSUME NEW h \in Handlers, Enqueue(h) PROVE Held
    BY <1>4, <1>5, EnqueueSteps
  <1>6. ASSUME NEW h \in Handlers, Disconnect(h) PROVE Held
    BY <1>4, <1>6, DisconnectSteps
  <1>7. ASSUME UNCHANGED handler PROVE Held
    BY <1>7 DEF TypeOK, Keeps, Busy
  <1>8. ASSUME NEW h \in Handlers, Resolve(h) PROVE Held
    <2>1. /\ Busy(h) /\ Event(h) \in Events /\ row'[Event(h)] # "none"
          /\ Proceed(h) \/ UNCHANGED handler
      BY <1>8, ResolveSteps, WorkTyped DEF TypeOK
    <2> QED
      BY <1>7, <2>1, ProceedKeeps
  <1>9. ASSUME NEW h \in Handlers, RecordFails(h) PROVE Held
    BY <1>9, ProceedKeeps DEF RecordFails
  <1>10. ASSUME NEW h \in Handlers, Fails(h) PROVE Held
    BY <1>10, FailSteps DEF Drops, Keeps, Busy
  <1>11. ASSUME Crash PROVE Held
    BY <1>11 DEF Crash, Keeps, Busy
  <1>12. ASSUME JobGone \/ (\E a \in Accounts : Turn(a)) \/ UNCHANGED vars PROVE Held
    BY <1>7, <1>12 DEF JobGone, Turn, vars
  <1> QED
    <2> HIDE DEF Held, Others
    <2> QED
      BY <1>1, <1>2, <1>3, <1>5, <1>6, <1>8, <1>9, <1>10, <1>11, <1>12 DEF Next, Handle

LEMMA StepsOnward == TypeOK /\ [Next]_vars => Onward
  <1> SUFFICES ASSUME TypeOK, [Next]_vars PROVE Onward
    OBVIOUS
  <1>1. row \in [Events -> Rows]
    BY DEF TypeOK
  <1>2. ASSUME NEW e, NEW v \in {"recorded", "skipped", "processed"}, row' = [row EXCEPT ![e] = v]
        PROVE  \A f \in Events : row[f] # "none" => row'[f] # "none"
    BY <1>1, <1>2
  <1>3. ASSUME NEW r \in Requests, Deliver(r) PROVE Onward
    BY <1>3 DEF Deliver, Onward
  <1>4. ASSUME NEW h \in Handlers, Record(h) \/ Resolve(h) PROVE Onward
    BY <1>2, <1>4 DEF Record, Resolve, Onward
  <1>5. ASSUME NEW h \in Handlers, Find(h) \/ Enqueue(h) \/ Disconnect(h) \/ RecordFails(h) \/ Fails(h)
        PROVE  Onward
    BY <1>5 DEF Find, Enqueue, Disconnect, RecordFails, Fails, Onward
  <1>6. ASSUME Crash \/ JobGone \/ (\E a \in Accounts : Turn(a)) \/ UNCHANGED vars PROVE Onward
    BY <1>6 DEF Crash, JobGone, Turn, vars, Onward
  <1> QED
    BY <1>3, <1>4, <1>5, <1>6 DEF Next, Handle

LEMMA WorkFollows ==
  ASSUME TypeOK, [Next]_vars
  PROVE  (\A k \in Handlers : Follows(k)) \/ \E h \in Handlers : Begins(h)
  <1> DEFINE Goal == (\A k \in Handlers : Follows(k)) \/ \E h \in Handlers : Begins(h)
  <1>1. ASSUME UNCHANGED handler PROVE Goal
    BY <1>1 DEF Follows
  <1>2. ASSUME NEW h \in Handlers, Busy(h), Proceed(h) PROVE Goal
    BY <1>2, ProceedFollows
  <1>3. ASSUME NEW h \in Handlers, Others(h), ~Past(handler'[h]) PROVE Goal
    BY <1>3 DEF Others, Follows
  <1>4. ASSUME NEW h \in Handlers, Others(h), Follows(h) PROVE Goal
    BY <1>4 DEF Others, Follows
  <1>5. ASSUME NEW h \in Handlers, NEW a, Does(h, a), Busy(h), handler[h].at = "each" PROVE Goal
    BY <1>4, <1>5 DEF Does, Follows, Past, EventOf, Busy
  <1>6. ASSUME NEW r \in Requests, Deliver(r) PROVE Goal
    BY <1>3, <1>6, DeliverSteps DEF Starts, Past
  <1>7. ASSUME NEW h \in Handlers, Record(h) PROVE Goal
    BY <1>2, <1>7, RecordSteps
  <1>8. ASSUME NEW h \in Handlers, Find(h) PROVE Goal
    <2>1. Finds(h) /\ Others(h) /\ Busy(h) /\ handler[h].at = "find" => Follows(h)
      BY DEF Finds, Follows, Past, EventOf, Busy
    <2> QED
      BY <1>2, <1>4, <1>8, <2>1, FindSteps
  <1>9. ASSUME NEW h \in Handlers, Enqueue(h) PROVE Goal
    BY <1>5, <1>9, EnqueueSteps
  <1>10. ASSUME NEW h \in Handlers, Disconnect(h) PROVE Goal
    BY <1>5, <1>10, DisconnectSteps
  <1>11. ASSUME NEW h \in Handlers, Resolve(h) PROVE Goal
    BY <1>1, <1>2, <1>11, ResolveSteps
  <1>12. ASSUME NEW h \in Handlers, RecordFails(h) PROVE Goal
    BY <1>2, <1>12 DEF RecordFails
  <1>13. ASSUME NEW h \in Handlers, Fails(h) PROVE Goal
    BY <1>3, <1>13, FailSteps DEF Drops, Past
  <1>14. ASSUME Crash PROVE Goal
    BY <1>14 DEF Crash, Follows, Past
  <1>15. ASSUME JobGone \/ (\E a \in Accounts : Turn(a)) \/ UNCHANGED vars PROVE Goal
    BY <1>1, <1>15 DEF JobGone, Turn, vars
  <1> HIDE DEF Goal
  <1>16. Goal
    BY <1>6, <1>7, <1>8, <1>9, <1>10, <1>11, <1>12, <1>13, <1>14, <1>15 DEF Next, Handle
  <1> QED
    BY <1>16 DEF Goal

LEMMA LeavesTyped ==
  ASSUME TypeOK, NEW a \in Accounts, Leaves(a)
  PROVE  status' \in [Accounts -> {"active", "disconnected"}] /\ owed' \in [Events -> SUBSET Accounts]
  BY DEF TypeOK, Leaves

LEMMA AddTyped ==
  ASSUME TypeOK, NEW e \in Events, NEW a \in Accounts, Adds(e, a),
         jobs' = jobs \cup {JobId(e, a)}, added' = [added EXCEPT ![e][a] = @ + 1],
         owed' = [owed EXCEPT ![e] = @ \ {a}]
  PROVE  /\ jobs' \subseteq Events \X Accounts
         /\ added' \in [Events -> [Accounts -> Nat]] /\ owed' \in [Events -> SUBSET Accounts]
         /\ \A f \in Events, b \in Accounts :
              added'[f][b] = IF f = e /\ b = a THEN added[f][b] + 1 ELSE added[f][b]
  <1>1. added \in [Events -> [Accounts -> Nat]]
    BY DEF TypeOK
  <1>2. /\ added' \in [Events -> [Accounts -> Nat]]
        /\ \A f \in Events, b \in Accounts :
             added'[f][b] = IF f = e /\ b = a THEN added[f][b] + 1 ELSE added[f][b]
    BY <1>1
  <1> QED
    BY <1>2 DEF TypeOK, JobId

LEMMA LeftTyped ==
  ASSUME TypeOK,
         \/ left.sends > 0 /\ left' = [left EXCEPT !.sends = @ - 1]
         \/ left.turns > 0 /\ left' = [left EXCEPT !.turns = @ - 1]
         \/ Fault
         \/ left' = left
  PROVE  left' \in [sends : 0..MaxSends, turns : 0..MaxTurns, faults : 0..MaxFaults]
  <1>1. left \in [sends : 0..MaxSends, turns : 0..MaxTurns, faults : 0..MaxFaults]
    BY DEF TypeOK
  <1>2. ASSUME left.sends > 0, left' = [left EXCEPT !.sends = @ - 1]
        PROVE  left' \in [sends : 0..MaxSends, turns : 0..MaxTurns, faults : 0..MaxFaults]
    BY <1>1, <1>2, InboundAssumption
  <1>3. ASSUME left.turns > 0, left' = [left EXCEPT !.turns = @ - 1]
        PROVE  left' \in [sends : 0..MaxSends, turns : 0..MaxTurns, faults : 0..MaxFaults]
    BY <1>1, <1>3, InboundAssumption
  <1>4. ASSUME left.faults > 0, left' = [left EXCEPT !.faults = @ - 1]
        PROVE  left' \in [sends : 0..MaxSends, turns : 0..MaxTurns, faults : 0..MaxFaults]
    BY <1>1, <1>4, InboundAssumption
  <1> QED
    BY <1>1, <1>2, <1>3, <1>4 DEF Fault

LEMMA ProceedTyped ==
  ASSUME TypeOK, NEW h \in Handlers, Busy(h), Proceed(h), sent' = sent
  PROVE  acked' \subseteq sent'
  <1>1. handler[h].req \in sent /\ acked \subseteq sent
    BY DEF TypeOK
  <1>2. acked' = acked \/ acked' = acked \cup {handler[h].req}
    BY Proceeds DEF Answers, GoesOn
  <1> QED
    BY <1>1, <1>2

LEMMA TypesKept == TypeOK /\ [Next]_vars => Types'
  <1> SUFFICES ASSUME TypeOK, [Next]_vars PROVE Types'
    OBVIOUS
  <1>1. Types
    BY TypeOKParts
  <1>2. handler' \in [Handlers -> Work \cup {Idle}]
    BY HandlersKept DEF Held
  <1>3. \A h \in Handlers : Busy(h) => handler[h].req \in Requests /\ Event(h) \in Events
    BY WorkTyped
  <1>4. ASSUME NEW e \in Events, NEW v \in Rows, row' = [row EXCEPT ![e] = v]
        PROVE  row' \in [Events -> Rows]
    BY <1>1, <1>4 DEF Types
  <1>5. ASSUME NEW r \in Requests, Deliver(r) PROVE Types'
    <2>1. owed' \in [Events -> SUBSET Accounts]
      BY <1>1, <1>5, KindsNamed DEF Deliver, Types
    <2> QED
      BY <1>1, <1>2, <1>5, <2>1, LeftTyped DEF Deliver, Types
  <1>6. ASSUME NEW h \in Handlers, Record(h) PROVE Types'
    <2>1. row' \in [Events -> Rows] /\ acked' \subseteq sent'
      <3>1. CASE Busy(h) /\ Proceed(h) /\ row' = row
        BY <1>1, <1>6, <3>1, ProceedTyped DEF Record, Types
      <3>2. CASE Begins(h)
        BY <1>1, <1>3, <1>4, <3>2 DEF Begins, Rows, Types
      <3> QED
        BY <1>6, <3>1, <3>2, RecordSteps
    <2> QED
      BY <1>1, <1>2, <1>6, <2>1 DEF Record, Types
  <1>7. ASSUME NEW h \in Handlers, Find(h) PROVE Types'
    <2>1. acked' \subseteq sent'
      BY <1>1, <1>7, FindSteps, ProceedTyped DEF Find, Finds, Types
    <2> QED
      BY <1>1, <1>2, <1>7, <2>1 DEF Find, Types
  <1>8. ASSUME NEW h \in Handlers, Enqueue(h) PROVE Types'
    <2>1. PICK a \in handler[h].todo :
            \/ /\ Adds(Event(h), a)
               /\ jobs' = jobs \cup {JobId(Event(h), a)}
               /\ added' = [added EXCEPT ![Event(h)][a] = @ + 1]
               /\ owed' = [owed EXCEPT ![Event(h)] = @ \ {a}]
            \/ UNCHANGED <<jobs, added, owed>>
      BY <1>8, EnqueueSteps
    <2>2. Busy(h) /\ Event(h) \in Events /\ a \in Accounts
      BY <1>8, <2>1, EnqueueSteps, WorkTyped
    <2>3. /\ jobs' \subseteq Events \X Accounts
          /\ added' \in [Events -> [Accounts -> Nat]] /\ owed' \in [Events -> SUBSET Accounts]
      BY <1>1, <2>1, <2>2, AddTyped DEF Types
    <2> QED
      BY <1>1, <1>2, <1>8, <2>3 DEF Enqueue, Types
  <1>9. ASSUME NEW h \in Handlers, Disconnect(h) PROVE Types'
    <2>1. PICK a \in handler[h].todo : Leaves(a)
      BY <1>9, DisconnectSteps
    <2>2. a \in Accounts
      BY <1>9, <2>1, DisconnectSteps, WorkTyped
    <2> QED
      BY <1>1, <1>2, <1>9, <2>1, <2>2, LeavesTyped DEF Disconnect, Types
  <1>10. ASSUME NEW h \in Handlers, Resolve(h) PROVE Types'
    <2>1. Busy(h) /\ Event(h) \in Events
      BY <1>10, ResolveSteps, WorkTyped
    <2>2. row' \in [Events -> Rows]
      BY <1>4, <1>10, <2>1, ResolveSteps DEF Rows
    <2>3. acked' \subseteq sent'
      BY <1>1, <1>10, <2>1, ResolveSteps, ProceedTyped DEF Types
    <2> QED
      BY <1>1, <1>2, <1>10, <2>2, <2>3, ResolveSteps DEF Types
  <1>11. ASSUME NEW h \in Handlers, RecordFails(h) PROVE Types'
    <2>1. acked' \subseteq sent' /\ Event(h) \in Events
      BY <1>3, <1>11, ProceedTyped DEF RecordFails
    <2> QED
      BY <1>1, <1>2, <1>11, <2>1, LeftTyped DEF RecordFails, Types
  <1>12. ASSUME NEW h \in Handlers, Fails(h) PROVE Types'
    BY <1>1, <1>2, <1>3, <1>12, LeftTyped DEF Fails, Types
  <1>13. ASSUME Crash PROVE Types'
    BY <1>1, <1>2, <1>3, <1>13, LeftTyped DEF Crash, Types
  <1>14. ASSUME NEW a \in Accounts, Turn(a) PROVE Types'
    <2>1. status' \in [Accounts -> {"active", "disconnected"}] /\ owed' \in [Events -> SUBSET Accounts]
      BY <1>1, <1>14, LeavesTyped DEF Turn, Types
    <2> QED
      BY <1>1, <1>2, <1>14, <2>1, LeftTyped DEF Turn, Types
  <1>15. ASSUME JobGone \/ UNCHANGED vars PROVE Types'
    BY <1>1, <1>2, <1>15 DEF JobGone, vars, Types
  <1> QED
    BY <1>5, <1>6, <1>7, <1>8, <1>9, <1>10, <1>11, <1>12, <1>13, <1>14, <1>15 DEF Next, Handle

(* Only Enqueue adds jobs, and one for an account that has the sync job. *)
AddsOne(h, a) ==
  /\ Busy(h) /\ handler[h].at = "each" /\ a \in handler[h].todo /\ a \in Accounts
  /\ Adds(Event(h), a) /\ Does(h, a)
  /\ jobs' = jobs \cup {JobId(Event(h), a)} /\ row' = row
  /\ owed' = [owed EXCEPT ![Event(h)] = @ \ {a}]
  /\ \A f \in Events, b \in Accounts :
       added'[f][b] = IF f = Event(h) /\ b = a THEN added[f][b] + 1 ELSE added[f][b]

LEMMA JobsChange ==
  ASSUME TypeOK, [Next]_vars
  PROVE  (added' = added /\ jobs' \subseteq jobs) \/ \E h \in Handlers, a \in Accounts : AddsOne(h, a)
  <1>1. ASSUME NEW h \in Handlers, Enqueue(h)
        PROVE  (added' = added /\ jobs' \subseteq jobs) \/ \E a \in Accounts : AddsOne(h, a)
    <2>1. PICK a \in handler[h].todo :
            /\ Does(h, a)
            /\ \/ /\ Adds(Event(h), a)
                  /\ jobs' = jobs \cup {JobId(Event(h), a)}
                  /\ added' = [added EXCEPT ![Event(h)][a] = @ + 1]
                  /\ owed' = [owed EXCEPT ![Event(h)] = @ \ {a}]
               \/ UNCHANGED <<jobs, added, owed>>
      BY <1>1, EnqueueSteps
    <2>2. Busy(h) /\ handler[h].at = "each" /\ Event(h) \in Events /\ a \in Accounts /\ row' = row
      BY <1>1, <2>1, EnqueueSteps, WorkTyped DEF Enqueue
    <2>3. CASE UNCHANGED <<jobs, added, owed>>
      BY <2>3
    <2>4. CASE ~UNCHANGED <<jobs, added, owed>>
      BY <2>1, <2>2, <2>4, AddTyped DEF AddsOne
    <2> QED
      BY <2>3, <2>4
  <1>2. ASSUME NEW h \in Handlers,
               Record(h) \/ Find(h) \/ Disconnect(h) \/ Resolve(h) \/ RecordFails(h) \/ Fails(h)
        PROVE  UNCHANGED <<added, jobs>>
    BY <1>2 DEF Record, Find, Disconnect, Resolve, RecordFails, Fails
  <1>3. ASSUME (\E r \in Requests : Deliver(r)) \/ Crash \/ JobGone \/ (\E a \in Accounts : Turn(a)) \/ UNCHANGED vars
        PROVE  added' = added /\ jobs' \subseteq jobs
    BY <1>3 DEF Deliver, Crash, JobGone, Turn, vars
  <1> QED
    BY <1>1, <1>2, <1>3 DEF Next, Handle

(* After a step, work past the row was there before, or it has just begun. *)
LEMMA PastBefore ==
  ASSUME TypeOK, [Next]_vars, NEW k \in Handlers, Past(handler'[k])
  PROVE  \/ /\ Past(handler[k]) /\ EventOf(handler'[k]) = EventOf(handler[k])
            /\ handler[k].at = "each" => handler'[k].at = "each" /\ handler'[k].todo \subseteq handler[k].todo
         \/ /\ Begins(k) /\ EventOf(handler'[k]) = EventOf(handler[k]) /\ Event(k) = EventOf(handler[k])
            /\ Event(k) \in Events
  <1>1. CASE \A h \in Handlers : Follows(h)
    BY <1>1 DEF Follows
  <1>2. CASE \E h \in Handlers : Begins(h)
    <2>1. PICK h \in Handlers : Begins(h)
      BY <1>2
    <2>2. CASE k = h
      BY <2>1, <2>2, WorkTyped DEF Begins, EventOf
    <2>3. CASE k # h
      BY <2>1, <2>3 DEF Begins, Others
    <2> QED
      BY <2>2, <2>3
  <1> QED
    BY <1>1, <1>2, WorkFollows

LEMMA PastRow ==
  ASSUME TypeOK, NEW h \in Handlers, Past(handler[h])
  PROVE  /\ Busy(h) /\ EventOf(handler[h]) \in Events /\ Event(h) = EventOf(handler[h])
         /\ row[EventOf(handler[h])] # "none"
  BY WorkTyped DEF Past, Busy, TypeOK

LEMMA FitsKept == TypeOK /\ [Next]_vars => Fits'
  <1> SUFFICES ASSUME TypeOK, [Next]_vars PROVE Fits'
    OBVIOUS
  <1>1. Onward /\ Types /\ Fits
    BY StepsOnward, TypeOKParts
  <1>2. ASSUME NEW k \in Handlers, Busy(k)'
        PROVE  /\ handler'[k].req \in sent' /\ handler'[k].n \in DOMAIN handler'[k].req
               /\ handler'[k].todo \subseteq Named[EventOf(handler'[k])]
    <2>1. Keeps(k)
      BY HandlersKept DEF Held
    <2>2. Busy(k) => /\ handler[k].req \in sent' /\ handler[k].n \in 1..Len(handler[k].req)
                     /\ DOMAIN handler[k].req = 1..Len(handler[k].req) /\ Len(handler[k].req) \in Nat
                     /\ handler[k].n \in Int /\ handler[k].n \in DOMAIN handler[k].req
                     /\ handler[k].todo \subseteq Named[EventOf(handler[k])]
                     /\ Event(k) = EventOf(handler[k])
      BY <1>1, WorkTyped DEF Onward, Fits
    <2>3. CASE Busy(k) /\ handler'[k] = handler[k]
      BY <2>2, <2>3
    <2>4. CASE \E r \in Requests : Starts(k, r)
      <3>1. PICK r \in Requests : Starts(k, r)
        BY <2>4
      <3>2. 1 \in DOMAIN r
        BY InboundAssumption
      <3> QED
        BY <3>1, <3>2 DEF Starts
    <2>5. CASE Busy(k) /\ GoesOn(k)
      BY <2>2, <2>5 DEF GoesOn
    <2>6. CASE /\ Busy(k) /\ handler'[k].req = handler[k].req /\ handler'[k].n = handler[k].n
               /\ handler'[k].todo \subseteq Named[Event(k)]
      BY <2>2, <2>6 DEF EventOf
    <2> QED
      BY <1>2, <2>1, <2>3, <2>4, <2>5, <2>6 DEF Keeps
  <1>3. ASSUME NEW k \in Handlers, Past(handler'[k]) PROVE row'[EventOf(handler'[k])] # "none"
    <2>1. CASE Past(handler[k]) /\ EventOf(handler'[k]) = EventOf(handler[k])
      BY <1>1, <2>1, PastRow DEF Onward
    <2>2. CASE Begins(k) /\ EventOf(handler'[k]) = Event(k) /\ Event(k) \in Events
      BY <1>1, <2>2 DEF Begins, Types
    <2> QED
      BY <1>3, <2>1, <2>2, PastBefore
  <1>4. ASSUME NEW e \in Events, NEW a \in Accounts, added'[e][a] > 0 PROVE a \in Enrolled[e]
    <2>1. CASE added' = added
      BY <1>1, <1>4, <2>1 DEF Fits
    <2>2. CASE \E h \in Handlers, b \in Accounts : AddsOne(h, b)
      BY <1>1, <1>4, <2>2 DEF AddsOne, Adds, HasJob, Fits
    <2> QED
      BY <2>1, <2>2, JobsChange
  <1> QED
    BY <1>2, <1>3, <1>4 DEF Fits, Past, Busy

LEMMA TypeKept == TypeOK /\ [Next]_vars => TypeOK'
  <1>1. (Types /\ Fits)' => TypeOK'
    BY DEF TypeOK, Types, Fits, Event, EventOf
  <1> QED
    BY <1>1, TypesKept, FitsKept

(* Every behaviour is well typed; an account a job was added for is enrolled, *)
(* and work past the row is on a recorded event.                              *)
THEOREM TypeCorrect == Spec => []TypeOK
  <1>1. Init => TypeOK
    BY TypeInit
  <1>2. TypeOK /\ [Next]_vars => TypeOK'
    BY TypeKept
  <1> QED
    BY <1>1, <1>2, PTL DEF Spec
-----------------------------------------------------------------------------
(* One handler is past the row of an event: the one that wrote it. *)
Single ==
  \A h, k \in Handlers :
    Past(handler[h]) /\ Past(handler[k]) /\ EventOf(handler[h]) = EventOf(handler[k]) => h = k

(* An account that got its job is done with, for good. *)
Done ==
  \A e \in Events, a \in Accounts :
    /\ added[e][a] <= 1
    /\ added[e][a] = 1 =>
         /\ row[e] # "none"
         /\ \A h \in Handlers : AtWork(h, e) => handler[h].at = "each" /\ a \notin handler[h].todo
    /\ <<e, a>> \in jobs => added[e][a] = 1

LEMMA SingleKept == TypeOK /\ Single /\ [Next]_vars => Single'
  <1> SUFFICES ASSUME TypeOK, Single, [Next]_vars, NEW h \in Handlers, NEW k \in Handlers,
                      Past(handler'[h]), Past(handler'[k]), EventOf(handler'[h]) = EventOf(handler'[k]), h # k
               PROVE  FALSE
    BY DEF Single
  <1>1. ~(Begins(h) /\ Begins(k))
    BY DEF Begins, Others, Past
  <1>2. ~(Past(handler[h]) /\ Past(handler[k]) /\ EventOf(handler[h]) = EventOf(handler[k]))
    BY DEF Single
  <1>3. ~(Past(handler[h]) /\ EventOf(handler[h]) = Event(k) /\ Begins(k))
    BY PastRow DEF Begins
  <1>4. ~(Past(handler[k]) /\ EventOf(handler[k]) = Event(h) /\ Begins(h))
    BY PastRow DEF Begins
  <1> QED
    BY <1>1, <1>2, <1>3, <1>4, PastBefore

LEMMA DoneKept == TypeOK /\ Single /\ Done /\ [Next]_vars => Done'
  <1> SUFFICES ASSUME TypeOK, Single, Done, [Next]_vars, NEW e \in Events, NEW a \in Accounts
               PROVE  /\ added'[e][a] <= 1
                      /\ added'[e][a] = 1 =>
                           /\ row'[e] # "none"
                           /\ \A h \in Handlers : Past(handler'[h]) /\ EventOf(handler'[h]) = e =>
                                handler'[h].at = "each" /\ a \notin handler'[h].todo
                      /\ <<e, a>> \in jobs' => added'[e][a] = 1
    BY DEF Done, AtWork
  <1>1. Onward /\ added[e][a] \in Nat
    BY StepsOnward DEF TypeOK
  <1>2. ASSUME added[e][a] = 1
        PROVE  /\ row'[e] # "none"
               /\ \A h \in Handlers : Past(handler'[h]) /\ EventOf(handler'[h]) = e =>
                    handler'[h].at = "each" /\ a \notin handler'[h].todo
    <2>1. row[e] # "none" /\ row'[e] # "none"
      BY <1>1, <1>2 DEF Done, Onward
    <2>2. ASSUME NEW h \in Handlers, Past(handler'[h]), EventOf(handler'[h]) = e
          PROVE  handler'[h].at = "each" /\ a \notin handler'[h].todo
      <3>1. ~(Begins(h) /\ Event(h) = e)
        BY <2>1 DEF Begins
      <3>2. /\ Past(handler[h]) /\ EventOf(handler[h]) = e
            /\ handler[h].at = "each" => handler'[h].at = "each" /\ handler'[h].todo \subseteq handler[h].todo
        BY <2>2, <3>1, PastBefore
      <3>3. handler[h].at = "each" /\ a \notin handler[h].todo
        BY <1>2, <3>2 DEF Done, AtWork
      <3> QED
        BY <3>2, <3>3
    <2> QED
      BY <2>1, <2>2
  <1>3. CASE added' = added /\ jobs' \subseteq jobs
    BY <1>2, <1>3 DEF Done
  <1>4. ASSUME NEW h \in Handlers, NEW b \in Accounts, AddsOne(h, b)
        PROVE  /\ added'[e][a] <= 1
               /\ added'[e][a] = 1 =>
                    /\ row'[e] # "none"
                    /\ \A k \in Handlers : Past(handler'[k]) /\ EventOf(handler'[k]) = e =>
                         handler'[k].at = "each" /\ a \notin handler'[k].todo
               /\ <<e, a>> \in jobs' => added'[e][a] = 1
    <2>1. /\ Busy(h) /\ handler[h].at = "each" /\ b \in handler[h].todo /\ Past(handler[h])
          /\ Event(h) \in Events /\ Event(h) = EventOf(handler[h])
      BY <1>4, WorkTyped DEF AddsOne, Past, Busy
    <2>2. CASE e = Event(h) /\ a = b
      <3>1. added[e][a] = 0
        <4>1. AtWork(h, e) /\ a \in handler[h].todo
          BY <2>1, <2>2 DEF AtWork
        <4>2. added[e][a] <= 1 /\ added[e][a] # 1
          BY <4>1 DEF Done
        <4> QED
          BY <1>1, <4>2
      <3>2. added'[e][a] = 1
        BY <1>4, <2>2, <3>1 DEF AddsOne
      <3>3. row'[e] # "none"
        BY <1>1, <2>1, <2>2, PastRow DEF Onward
      <3>4. ASSUME NEW k \in Handlers, Past(handler'[k]), EventOf(handler'[k]) = e
            PROVE  handler'[k].at = "each" /\ a \notin handler'[k].todo
        <4>1. ~(Begins(k) /\ Event(k) = e)
          BY <2>1, <2>2, PastRow DEF Begins
        <4>2. Past(handler[k]) /\ EventOf(handler[k]) = e
          BY <3>4, <4>1, PastBefore
        <4>3. k = h
          BY <2>1, <2>2, <4>2 DEF Single
        <4> QED
          BY <1>4, <2>2, <4>3 DEF AddsOne, Does
      <3> QED
        BY <3>2, <3>3, <3>4
    <2>3. CASE ~(e = Event(h) /\ a = b)
      <3>1. added'[e][a] = added[e][a]
        BY <1>4, <2>3 DEF AddsOne
      <3>2. <<e, a>> \in jobs' => <<e, a>> \in jobs
        BY <1>4, <2>3 DEF AddsOne, JobId
      <3> QED
        BY <1>2, <3>1, <3>2 DEF Done
    <2> QED
      BY <2>2, <2>3
  <1> QED
    BY <1>3, <1>4, JobsChange

(* However often a request comes, an event adds one job for an account. *)
THEOREM OneJobPerEvent == Spec => []EnqueuedOnce
  <1>1. Init => TypeOK /\ Single /\ Done
    BY TypeInit DEF Init, Single, Done, Past, AtWork
  <1>2. TypeOK /\ Single /\ Done /\ [Next]_vars => (TypeOK /\ Single /\ Done)'
    BY TypeKept, SingleKept, DoneKept
  <1>3. Done => EnqueuedOnce
    BY DEF Done, EnqueuedOnce
  <1> QED
    BY <1>1, <1>2, <1>3, PTL DEF Spec
-----------------------------------------------------------------------------
(* An event with a row came with a request; whom it owes is there, and is still *)
(* to be done by the handler at work on it; nobody is left when that is done.    *)
Sourced == \A e \in Events : row[e] # "none" => \E q \in sent : Has(q, e)
Fit == \A e \in Events : owed[e] \subseteq Reach(e)
Taken ==
  \A h \in Handlers :
    Past(handler[h]) /\ handler[h].at = "each" => owed[EventOf(handler[h])] \subseteq handler[h].todo
Paid ==
  \A e \in Events :
    row[e] # "none" /\ e \notin struck /\ (\A h \in Handlers : ~AtWork(h, e)) => owed[e] = {}

(* The events a handler has passed are recorded, or were struck. *)
Good(e) == row[e] # "none" \/ e \in struck
Passed ==
  /\ \A h \in Handlers : Busy(h) =>
       \A m \in DOMAIN handler[h].req : m < handler[h].n => Good(handler[h].req[m])
  /\ \A r \in acked : \A n \in DOMAIN r : Good(r[n])

LEMMA RowsByBegins ==
  ASSUME TypeOK, [Next]_vars, NEW e \in Events, row[e] = "none", row'[e] # "none"
  PROVE  \E h \in Handlers : Begins(h) /\ Event(h) = e
  <1>1. ASSUME NEW h \in Handlers, Record(h) PROVE Begins(h) /\ Event(h) = e
    <2>1. Begins(h)
      BY <1>1, RecordSteps
    <2> QED
      BY <2>1 DEF Begins, TypeOK
  <1>2. ASSUME NEW h \in Handlers, Resolve(h) PROVE FALSE
    <2>1. row[Event(h)] # "none"
      BY <1>2, ResolveSteps DEF TypeOK
    <2> QED
      BY <1>2, <2>1, ResolveSteps DEF TypeOK
  <1>3. ASSUME NEW h \in Handlers, Find(h) \/ Enqueue(h) \/ Disconnect(h) \/ RecordFails(h) \/ Fails(h)
        PROVE  FALSE
    BY <1>3 DEF Find, Enqueue, Disconnect, RecordFails, Fails
  <1>4. ASSUME \/ (\E r \in Requests : Deliver(r)) \/ Crash \/ JobGone
               \/ (\E a \in Accounts : Turn(a)) \/ UNCHANGED vars
        PROVE  FALSE
    BY <1>4 DEF Deliver, Crash, JobGone, Turn, vars
  <1> QED
    BY <1>1, <1>2, <1>3, <1>4 DEF Next, Handle

LEMMA SourcedKept == TypeOK /\ Sourced /\ [Next]_vars => Sourced'
  <1> SUFFICES ASSUME TypeOK, Sourced, [Next]_vars, NEW e \in Events, row'[e] # "none"
               PROVE  \E q \in sent' : Has(q, e)
    BY DEF Sourced
  <1>1. sent \subseteq sent'
    BY StepsOnward DEF Onward
  <1>2. CASE row[e] # "none"
    BY <1>1, <1>2 DEF Sourced
  <1>3. CASE row[e] = "none"
    <2>1. PICK h \in Handlers : Begins(h) /\ Event(h) = e
      BY <1>3, RowsByBegins
    <2>2. handler[h].req \in sent /\ handler[h].n \in DOMAIN handler[h].req
      BY <2>1 DEF Begins, TypeOK
    <2>3. Has(handler[h].req, e)
      BY <2>1, <2>2 DEF Has, Event
    <2> QED
      BY <1>1, <2>2, <2>3
  <1> QED
    BY <1>2, <1>3

(* An account leaves what is owed when it leaves. *)
LEMMA LeavesReach ==
  ASSUME TypeOK, NEW a \in Accounts, Leaves(a), NEW e \in Events
  PROVE  /\ owed'[e] = owed[e] \ {a}
         /\ Reach(e) \ {a} \subseteq Reach(e)'
  BY KindsNamed DEF TypeOK, Leaves, Reach, Active

(* What is owed for an event is not added to once its row is there. *)
LEMMA OwedSteps ==
  ASSUME TypeOK, [Next]_vars
  PROVE  \A e \in Events :
           \/ owed'[e] \subseteq owed[e]
           \/ (\A q \in sent : ~Has(q, e)) /\ owed'[e] = Reach(e) /\ UNCHANGED status
  <1> DEFINE Goal == \A e \in Events :
           \/ owed'[e] \subseteq owed[e]
           \/ (\A q \in sent : ~Has(q, e)) /\ owed'[e] = Reach(e) /\ UNCHANGED status
  <1>1. ASSUME NEW r \in Requests, Deliver(r) PROVE Goal
    BY <1>1 DEF Deliver
  <1>2. ASSUME NEW h \in Handlers, Enqueue(h) PROVE Goal
    <2>1. owed' = owed \/ \E a : owed' = [owed EXCEPT ![Event(h)] = @ \ {a}]
      BY <1>2, EnqueueSteps
    <2>2. owed \in [Events -> SUBSET Accounts]
      BY DEF TypeOK
    <2> QED
      BY <2>1, <2>2
  <1>3. ASSUME NEW h \in Handlers, Disconnect(h) PROVE Goal
    <2>1. PICK a \in handler[h].todo : Leaves(a)
      BY <1>3, DisconnectSteps
    <2> QED
      BY <2>1 DEF Leaves
  <1>4. ASSUME NEW h \in Handlers, Record(h) \/ Find(h) \/ Resolve(h) \/ RecordFails(h) \/ Fails(h)
        PROVE  Goal
    BY <1>4 DEF Record, Find, Resolve, RecordFails, Fails
  <1>5. ASSUME NEW a \in Accounts, Turn(a) PROVE Goal
    BY <1>5 DEF Turn, Leaves
  <1>6. ASSUME Crash \/ JobGone \/ UNCHANGED vars PROVE Goal
    BY <1>6 DEF Crash, JobGone, vars
  <1> HIDE DEF Goal
  <1>7. Goal
    BY <1>1, <1>2, <1>3, <1>4, <1>5, <1>6 DEF Next, Handle
  <1> QED
    BY <1>7 DEF Goal

LEMMA FitKept == TypeOK /\ Fit /\ [Next]_vars => Fit'
  <1> SUFFICES ASSUME TypeOK, Fit, [Next]_vars, NEW e \in Events PROVE owed'[e] \subseteq Reach(e)'
    BY DEF Fit
  <1>1. ASSUME UNCHANGED status PROVE owed'[e] \subseteq Reach(e)'
    <2>1. Reach(e)' = Reach(e)
      BY <1>1 DEF Reach, Active
    <2> QED
      BY <1>1, <2>1, OwedSteps DEF Fit
  <1>2. ASSUME NEW a \in Accounts, Leaves(a) PROVE owed'[e] \subseteq Reach(e)'
    BY <1>2, LeavesReach DEF Fit
  <1>3. ASSUME NEW a \in Accounts, status' = [status EXCEPT ![a] = "active"], UNCHANGED owed
        PROVE  owed'[e] \subseteq Reach(e)'
    <2>1. Active(e) \subseteq Active(e)'
      BY <1>3, KindsNamed DEF Active, TypeOK
    <2>2. Reach(e) \subseteq Reach(e)'
      BY <2>1 DEF Reach
    <2> QED
      BY <1>3, <2>2 DEF Fit
  <1>4. ASSUME NEW h \in Handlers, Disconnect(h) PROVE owed'[e] \subseteq Reach(e)'
    <2>1. PICK a \in handler[h].todo : Leaves(a)
      BY <1>4, DisconnectSteps
    <2> QED
      BY <1>2, <1>4, <2>1, DisconnectSteps, WorkTyped
  <1>5. ASSUME NEW a \in Accounts, Turn(a) PROVE owed'[e] \subseteq Reach(e)'
    BY <1>2, <1>3, <1>5 DEF Turn
  <1>6. \/ UNCHANGED status \/ (\E h \in Handlers : Disconnect(h)) \/ (\E a \in Accounts : Turn(a))
    BY DEF Next, Handle, Deliver, Record, Find, Enqueue, Resolve, RecordFails, Fails, Crash, JobGone, vars
  <1> QED
    BY <1>1, <1>4, <1>5, <1>6

(* Rows of requests that came before keep what they owe, or owe less. *)
LEMMA OwedShrinks ==
  ASSUME TypeOK, Sourced, [Next]_vars, NEW e \in Events, row[e] # "none"
  PROVE  owed'[e] \subseteq owed[e]
  BY OwedSteps DEF Sourced

LEMMA DoneTaken ==
  ASSUME TypeOK, Done, Fit, Taken, NEW h \in Handlers, NEW a, Does(h, a), Busy(h), handler[h].at = "each",
         a \in handler[h].todo,
         \/ /\ Kind[Event(h)] \in {"meta", "threads"}
            /\ \/ Adds(Event(h), a) /\ owed' = [owed EXCEPT ![Event(h)] = @ \ {a}]
               \/ ~Adds(Event(h), a) /\ owed' = owed
         \/ owed'[Event(h)] = owed[Event(h)] \ {a}
  PROVE  owed'[EventOf(handler'[h])] \subseteq handler'[h].todo
  <1>1. /\ Event(h) \in Events /\ Event(h) = EventOf(handler[h]) /\ Past(handler[h])
        /\ EventOf(handler'[h]) = Event(h) /\ handler'[h].todo = handler[h].todo \ {a} /\ a \in Accounts
    BY WorkTyped DEF Does, Past, Busy, EventOf
  <1>2. owed[Event(h)] \subseteq handler[h].todo /\ owed \in [Events -> SUBSET Accounts]
    BY <1>1 DEF Taken, TypeOK
  <1>3. CASE owed'[Event(h)] = owed[Event(h)] \ {a}
    BY <1>1, <1>2, <1>3
  <1>4. CASE owed' = [owed EXCEPT ![Event(h)] = @ \ {a}]
    BY <1>1, <1>2, <1>4
  <1>5. CASE Kind[Event(h)] \in {"meta", "threads"} /\ ~Adds(Event(h), a) /\ owed' = owed
    <2>1. CASE a \notin Enrolled[Event(h)]
      <3>1. a \notin owed[Event(h)]
        BY <1>1, <1>5, <2>1, KindsNamed DEF Fit
      <3> QED
        BY <1>1, <1>2, <1>5, <3>1
    <2>2. CASE <<Event(h), a>> \in jobs
      <3>1. added[Event(h)][a] = 1
        BY <1>1, <2>2 DEF Done
      <3>2. AtWork(h, Event(h))
        BY <1>1 DEF AtWork
      <3> QED
        BY <1>1, <3>1, <3>2 DEF Done
    <2> QED
      BY <1>5, <2>1, <2>2 DEF Adds, HasJob, JobId
  <1> QED
    BY <1>3, <1>4, <1>5

LEMMA TakenKept == TypeOK /\ Done /\ Sourced /\ Fit /\ Taken /\ [Next]_vars => Taken'
  <1> SUFFICES ASSUME TypeOK, Done, Sourced, Fit, Taken, [Next]_vars,
                      NEW k \in Handlers, Past(handler'[k]), handler'[k].at = "each"
               PROVE  owed'[EventOf(handler'[k])] \subseteq handler'[k].todo
    BY DEF Taken
  <1>1. ASSUME handler'[k] = handler[k] PROVE owed'[EventOf(handler'[k])] \subseteq handler'[k].todo
    <2>1. Past(handler[k]) /\ handler[k].at = "each"
      BY <1>1
    <2>2. owed'[EventOf(handler[k])] \subseteq owed[EventOf(handler[k])]
      BY <2>1, PastRow, OwedShrinks
    <2> QED
      BY <1>1, <2>1, <2>2 DEF Taken
  <1>2. ASSUME NEW h \in Handlers, Find(h) PROVE owed'[EventOf(handler'[k])] \subseteq handler'[k].todo
    <2>1. CASE Proceed(h)
      <3>1. ~Past(handler'[h]) /\ Others(h)
        BY <1>2, <2>1, FindSteps, Proceeds DEF Answers, GoesOn, Past
      <3> QED
        BY <1>1, <3>1 DEF Others
    <2>2. CASE Finds(h) /\ Others(h) /\ k = h
      <3>1. /\ Event(h) \in Events /\ EventOf(handler'[h]) = Event(h) /\ handler'[h].todo = Targets(h)
            /\ owed' = owed
        BY <1>2, <2>2, FindSteps, WorkTyped DEF Finds, Find, EventOf
      <3>2. Reach(Event(h)) \subseteq Targets(h)
        BY <3>1, KindsNamed DEF Targets
      <3> QED
        BY <2>2, <3>1, <3>2 DEF Fit
    <2> QED
      BY <1>1, <1>2, <2>1, <2>2, FindSteps DEF Others
  <1>3. ASSUME NEW h \in Handlers, Enqueue(h) PROVE owed'[EventOf(handler'[k])] \subseteq handler'[k].todo
    <2>1. PICK a \in handler[h].todo :
            /\ Does(h, a)
            /\ \/ Adds(Event(h), a) /\ owed' = [owed EXCEPT ![Event(h)] = @ \ {a}]
               \/ ~Adds(Event(h), a) /\ owed' = owed
      BY <1>3, EnqueueSteps
    <2>2. CASE k = h
      BY <1>3, <2>1, <2>2, EnqueueSteps, DoneTaken
    <2>3. CASE k # h
      BY <1>1, <2>1, <2>3 DEF Does, Others
    <2> QED
      BY <2>2, <2>3
  <1>4. ASSUME NEW h \in Handlers, Disconnect(h) PROVE owed'[EventOf(handler'[k])] \subseteq handler'[k].todo
    <2>1. PICK a \in handler[h].todo : Does(h, a) /\ Leaves(a)
      BY <1>4, DisconnectSteps
    <2>2. owed'[Event(h)] = owed[Event(h)] \ {a}
      BY <1>4, <2>1, DisconnectSteps, WorkTyped DEF Leaves
    <2>3. CASE k = h
      BY <1>4, <2>1, <2>2, <2>3, DisconnectSteps, DoneTaken
    <2>4. CASE k # h
      BY <1>1, <2>1, <2>4 DEF Does, Others
    <2> QED
      BY <2>3, <2>4
  <1>5. ASSUME NEW h \in Handlers, Busy(h), Proceed(h) PROVE handler'[k] = handler[k]
    <2>1. ~Past(handler'[h]) /\ Others(h)
      BY <1>5, Proceeds DEF Answers, GoesOn, Past
    <2> QED
      BY <2>1 DEF Others
  <1>6. ASSUME NEW r \in Requests, Deliver(r) PROVE handler'[k] = handler[k]
    BY <1>6, DeliverSteps DEF Starts, Others
  <1>7. ASSUME NEW h \in Handlers, Record(h) PROVE handler'[k] = handler[k]
    <2>1. Begins(h) => handler'[k] = handler[k]
      BY DEF Begins, Others
    <2> QED
      BY <1>5, <1>7, <2>1, RecordSteps
  <1>8. ASSUME NEW h \in Handlers, Resolve(h) PROVE handler'[k] = handler[k]
    BY <1>5, <1>8, ResolveSteps
  <1>9. ASSUME NEW h \in Handlers, RecordFails(h) PROVE handler'[k] = handler[k]
    BY <1>5, <1>9 DEF RecordFails
  <1>10. ASSUME NEW h \in Handlers, Fails(h) PROVE handler'[k] = handler[k]
    BY <1>10, FailSteps DEF Drops, Others, Past
  <1>11. ASSUME Crash PROVE handler'[k] = handler[k]
    BY <1>11 DEF Crash, Past
  <1>12. ASSUME JobGone \/ (\E a \in Accounts : Turn(a)) \/ UNCHANGED vars PROVE handler'[k] = handler[k]
    BY <1>12 DEF JobGone, Turn, vars
  <1> QED
    BY <1>1, <1>2, <1>3, <1>4, <1>6, <1>7, <1>8, <1>9, <1>10, <1>11, <1>12 DEF Next, Handle

(* The work on an event ends with nobody left, or with a fault. *)
LEMMA WorkEnds ==
  ASSUME TypeOK, Fit, Taken, [Next]_vars, NEW h \in Handlers, NEW e \in Events,
         AtWork(h, e), ~AtWork(h, e)'
  PROVE  owed[e] = {} \/ e \in struck'
  <1>1. Busy(h) /\ Past(handler[h]) /\ EventOf(handler[h]) = e /\ Event(h) = e /\ handler[h].at # "record"
    BY PastRow DEF AtWork, Past
  <1>2. handler'[h] # handler[h]
    BY DEF AtWork
  <1>3. ASSUME NEW r \in Requests, Deliver(r) PROVE FALSE
    BY <1>1, <1>2, <1>3, DeliverSteps DEF Starts, Others
  <1>4. ASSUME NEW k \in Handlers, Record(k) PROVE FALSE
    <2>1. k # h /\ Busy(k)
      BY <1>1, <1>4 DEF Record
    <2>2. Others(k)
      BY <1>4, <2>1, RecordSteps, Proceeds DEF Begins
    <2> QED
      BY <1>2, <2>1, <2>2 DEF Others
  <1>5. ASSUME NEW k \in Handlers, Find(k) PROVE owed[e] = {}
    <2>1. Others(k)
      BY <1>5, FindSteps, Proceeds
    <2>2. k = h
      BY <1>2, <2>1 DEF Others
    <2>3. ~Finds(h)
      BY <1>1 DEF Finds, AtWork, Past, EventOf, Idle, Work
    <2>4. Reach(e) = {}
      BY <1>1, <1>5, <2>2, <2>3, FindSteps
    <2> QED
      BY <2>4 DEF Fit
  <1>6. ASSUME NEW k \in Handlers, NEW a, Does(k, a) PROVE FALSE
    <2>1. k = h
      BY <1>2, <1>6 DEF Does, Others
    <2> QED
      BY <1>1, <1>6, <2>1 DEF Does, AtWork, Past, EventOf, Idle, Work
  <1>7. ASSUME NEW k \in Handlers, Enqueue(k) \/ Disconnect(k) PROVE FALSE
    BY <1>6, <1>7, EnqueueSteps, DisconnectSteps
  <1>8. ASSUME NEW k \in Handlers, Resolve(k) PROVE owed[e] = {}
    <2>1. k = h
      BY <1>2, <1>8, ResolveSteps, Proceeds DEF Others
    <2> QED
      BY <1>1, <1>8, <2>1, ResolveSteps DEF Taken
  <1>9. ASSUME NEW k \in Handlers, RecordFails(k) PROVE FALSE
    <2>1. k # h /\ Busy(k) /\ Proceed(k)
      BY <1>1, <1>9 DEF RecordFails
    <2> QED
      BY <1>2, <2>1, Proceeds DEF Others
  <1>10. ASSUME NEW k \in Handlers, Fails(k) PROVE e \in struck'
    <2>1. k = h
      BY <1>2, <1>10, FailSteps DEF Drops, Others
    <2> QED
      BY <1>1, <1>10, <2>1, FailSteps
  <1>11. ASSUME Crash PROVE e \in struck'
    BY <1>1, <1>11 DEF Crash
  <1>12. ASSUME JobGone \/ (\E a \in Accounts : Turn(a)) \/ UNCHANGED vars PROVE FALSE
    BY <1>2, <1>12 DEF JobGone, Turn, vars
  <1> QED
    BY <1>3, <1>4, <1>5, <1>7, <1>8, <1>9, <1>10, <1>11, <1>12 DEF Next, Handle

LEMMA PaidKept == TypeOK /\ Sourced /\ Fit /\ Taken /\ Paid /\ [Next]_vars => Paid'
  <1> SUFFICES ASSUME TypeOK, Sourced, Fit, Taken, Paid, [Next]_vars, NEW e \in Events,
                      row'[e] # "none", e \notin struck', \A h \in Handlers : ~AtWork(h, e)'
               PROVE  owed'[e] = {}
    BY DEF Paid
  <1>1. row[e] # "none"
    <2>1. ASSUME NEW h \in Handlers, Begins(h), Event(h) = e PROVE FALSE
      <3>1. Past(handler'[h]) /\ EventOf(handler'[h]) = e
        BY <2>1, WorkIsBusy DEF Begins, Past, EventOf, Event
      <3> QED
        BY <3>1 DEF AtWork
    <2> QED
      BY <2>1, RowsByBegins
  <1>2. owed[e] = {}
    <2>1. CASE \A h \in Handlers : ~AtWork(h, e)
      BY <1>1, <2>1, StepsOnward DEF Onward, Paid
    <2>2. CASE \E h \in Handlers : AtWork(h, e)
      BY <2>2, WorkEnds
    <2> QED
      BY <2>1, <2>2
  <1> QED
    BY <1>1, <1>2, OwedShrinks

Later(e) == row'[e] # "none" \/ e \in struck'

LEMMA PassedKept == TypeOK /\ Passed /\ [Next]_vars => Passed'
  <1> SUFFICES ASSUME TypeOK, Passed, [Next]_vars PROVE Passed'
    OBVIOUS
  <1>1. \A e \in Events : Good(e) => Later(e)
    BY StepsOnward DEF Onward, Good, Later
  <1>2. ASSUME NEW k \in Handlers, Busy(k)', NEW m \in DOMAIN handler'[k].req, m < handler'[k].n
        PROVE  Later(handler'[k].req[m])
    <2>1. Keeps(k)
      BY HandlersKept DEF Held
    <2>2. ASSUME Busy(k), handler'[k].req = handler[k].req, m < handler[k].n PROVE Later(handler[k].req[m])
      <3>1. Good(handler[k].req[m])
        BY <1>2, <2>2 DEF Passed
      <3>2. handler[k].req[m] \in Events
        BY <1>2, <2>2, WorkTyped
      <3> QED
        BY <1>1, <3>1, <3>2
    <2>3. CASE \E r \in Requests : Starts(k, r)
      <3>1. PICK r \in Requests : Starts(k, r)
        BY <2>3
      <3>2. DOMAIN r = 1..Len(r) /\ Len(r) \in Nat
        BY InboundAssumption
      <3> QED
        BY <1>2, <3>1, <3>2 DEF Starts
    <2>4. CASE Busy(k) /\ GoesOn(k) /\ (row'[Event(k)] # "none" \/ Event(k) \in struck')
      <3>1. /\ handler[k].n \in Nat /\ handler[k].req \in Seq(Events) /\ handler'[k].req = handler[k].req
            /\ handler'[k].n = handler[k].n + 1
        BY <2>4, WorkTyped DEF GoesOn
      <3>2. m \in Int
        BY <1>2, <3>1
      <3>3. CASE m < handler[k].n
        BY <2>2, <2>4, <3>1, <3>3
      <3>4. CASE m = handler[k].n
        BY <2>4, <3>1, <3>4 DEF Later, Event
      <3> QED
        BY <1>2, <3>1, <3>2, <3>3, <3>4
    <2>5. CASE Busy(k) /\ handler'[k] = handler[k]
      BY <1>2, <2>2, <2>5
    <2>6. CASE Busy(k) /\ handler'[k].req = handler[k].req /\ handler'[k].n = handler[k].n
      BY <1>2, <2>2, <2>6
    <2> QED
      BY <1>2, <2>1, <2>3, <2>4, <2>5, <2>6 DEF Keeps
  <1>3. ASSUME NEW h \in Handlers, Busy(h), Proceed(h), row'[Event(h)] # "none" \/ Event(h) \in struck',
               NEW r \in acked', NEW n \in DOMAIN r
        PROVE  Later(r[n])
    <2>1. /\ handler[h].req \in Seq(Events) /\ handler[h].n \in Nat
          /\ handler[h].n \in 1..Len(handler[h].req)
      BY <1>3, WorkTyped
    <2>2. CASE r \in acked
      <3>1. Good(r[n]) /\ r[n] \in Events
        BY <1>3, <2>2, InboundAssumption DEF Passed, TypeOK
      <3> QED
        BY <1>1, <3>1
    <2>3. CASE Answers(h) /\ r = handler[h].req
      <3>1. CASE n < handler[h].n
        <4>1. Good(r[n]) /\ r[n] \in Events
          BY <1>3, <2>1, <2>3, <3>1 DEF Passed
        <4> QED
          BY <1>1, <4>1
      <3>2. CASE n = handler[h].n
        BY <1>3, <2>3, <3>2 DEF Later, Event
      <3> QED
        BY <1>3, <2>1, <2>3, <3>1, <3>2 DEF Answers
    <2> QED
      BY <1>3, <2>2, <2>3, Proceeds DEF Answers, GoesOn
  <1>4. ASSUME acked' = acked, NEW r \in acked', NEW n \in DOMAIN r PROVE Later(r[n])
    <2>1. Good(r[n]) /\ r[n] \in Events
      BY <1>4, InboundAssumption DEF Passed, TypeOK
    <2> QED
      BY <1>1, <2>1
  <1>5. \/ acked' = acked
        \/ \E h \in Handlers : Busy(h) /\ Proceed(h) /\ (row'[Event(h)] # "none" \/ Event(h) \in struck')
    <2> DEFINE Goal ==
          \/ acked' = acked
          \/ \E h \in Handlers : Busy(h) /\ Proceed(h) /\ (row'[Event(h)] # "none" \/ Event(h) \in struck')
    <2>1. ASSUME NEW h \in Handlers, Record(h) PROVE Goal
      BY <2>1, RecordSteps DEF Begins
    <2>2. ASSUME NEW h \in Handlers, Find(h) PROVE Goal
      <3>1. row' = row /\ row[Event(h)] # "none"
        BY <2>2 DEF Find, TypeOK
      <3> QED
        BY <2>2, <3>1, FindSteps DEF Finds
    <2>3. ASSUME NEW h \in Handlers, Resolve(h) PROVE Goal
      <3>1. Event(h) \in Events
        BY <2>3, ResolveSteps, WorkTyped
      <3>2. row'[Event(h)] # "none"
        BY <2>3, <3>1, ResolveSteps DEF TypeOK
      <3> QED
        BY <2>3, <3>2, ResolveSteps
    <2>4. ASSUME NEW h \in Handlers, RecordFails(h) PROVE Goal
      BY <2>4 DEF RecordFails
    <2>5. ASSUME NEW h \in Handlers, Enqueue(h) \/ Disconnect(h) \/ Fails(h) PROVE Goal
      BY <2>5 DEF Enqueue, Disconnect, Fails
    <2>6. ASSUME \/ (\E r \in Requests : Deliver(r)) \/ Crash \/ JobGone
                 \/ (\E a \in Accounts : Turn(a)) \/ UNCHANGED vars
          PROVE  Goal
      BY <2>6 DEF Deliver, Crash, JobGone, Turn, vars
    <2> HIDE DEF Goal
    <2>7. Goal
      BY <2>1, <2>2, <2>3, <2>4, <2>5, <2>6 DEF Next, Handle
    <2> QED
      BY <2>7 DEF Goal
  <1> QED
    BY <1>2, <1>3, <1>4, <1>5 DEF Passed, Good, Later

IInv == TypeOK /\ Single /\ Done /\ Sourced /\ Fit /\ Taken /\ Paid /\ Passed

LEMMA InitIInv == Init => IInv
  <1> SUFFICES ASSUME Init PROVE IInv
    OBVIOUS
  <1>1. TypeOK
    BY TypeInit
  <1>2. \A h \in Handlers : handler[h] = Idle
    BY DEF Init
  <1>3. Single /\ Done /\ Taken /\ Passed
    BY <1>2 DEF Init, Single, Done, Taken, Passed, Past, AtWork, Busy
  <1>4. Sourced /\ Fit /\ Paid
    BY DEF Init, Sourced, Fit, Paid
  <1> QED
    BY <1>1, <1>3, <1>4 DEF IInv

LEMMA PaidSuffices == IInv => LostOnlyByFault
  <1> SUFFICES ASSUME IInv, NEW r \in acked, NEW n \in DOMAIN r, ~InHand(r[n]), r[n] \notin struck
               PROVE  row[r[n]] # "none" /\ owed[r[n]] = {}
    BY DEF LostOnlyByFault
  <1>1. r[n] \in Events /\ row[r[n]] # "none"
    BY InboundAssumption DEF IInv, Passed, Good, TypeOK
  <1>2. \A h \in Handlers : ~AtWork(h, r[n])
    BY DEF InHand, AtWork, Past, Busy, Event, EventOf
  <1> QED
    BY <1>1, <1>2 DEF IInv, Paid

(* A fault costs the event it befalls, and no other of its request. *)
THEOREM LossesAreFaults == Spec => []LostOnlyByFault
  <1>1. Init => IInv
    BY InitIInv
  <1>2. IInv /\ [Next]_vars => IInv'
    BY TypeKept, SingleKept, DoneKept, SourcedKept, FitKept, TakenKept, PaidKept, PassedKept DEF IInv
  <1>3. IInv => LostOnlyByFault
    BY PaidSuffices
  <1> QED
    BY <1>1, <1>2, <1>3, PTL DEF Spec
=============================================================================
