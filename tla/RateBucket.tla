----------------------------- MODULE RateBucket -----------------------------
(***************************************************************************)
(* The Redis rate buckets every platform client pays before an HTTP call:  *)
(* the Lua script that charges all the buckets of a call or none, the key  *)
(* templates of the strategies (token buckets and daily counters, whose    *)
(* key carries the UTC date), the sliding TTL and the operator's reset.    *)
(*                                                                         *)
(* A process reads Date.now() before it sends the script and Redis runs    *)
(* the scripts in the order they arrive, so a bucket may see its callers'  *)
(* clock step back; hosts whose clocks differ have the same effect.        *)
(* Tokens are counted in units small enough to be integers.                *)
(***************************************************************************)
EXTENDS Integers, Sequences

CONSTANTS
  Clients,    \* processes calling platforms
  Kinds,      \* kinds of call: a strategy's hints and an endpoint's cost
  Buckets,    \* bucket scopes (a strategy's keyTemplate, filled in)
  Daily,      \* the scopes whose key carries the date
  HintsOf,    \* HintsOf[i]: the buckets of a call of kind i, in order
  CostOf,     \* CostOf[i][b]: what it costs each
  Capacity,
  Refill,     \* tokens per tick
  TTL,        \* BUCKET_TTL_MS
  Day,        \* Day[t]: the UTC date at t
  MaxDelay,   \* bound: how late a script may run
  MaxTime,    \* bound: ticks of a behaviour
  MaxResets   \* bound: resets by an operator

Times == 0..MaxTime

ASSUME RateAssumption ==
  /\ MaxTime \in Nat /\ MaxDelay \in Nat /\ TTL \in Nat /\ MaxResets \in Nat
  /\ Daily \subseteq Buckets
  /\ Capacity \in [Buckets -> Nat] /\ Refill \in [Buckets -> Nat]
  /\ HintsOf \in [Kinds -> Seq(Buckets)]
  /\ CostOf \in [Kinds -> [Buckets -> Nat]]
  /\ Day \in [Times -> Nat]

(* The TTL outlives a full refill and a date. *)
ASSUME TtlAssumption ==
  /\ \A b \in Buckets \ Daily : Capacity[b] <= Refill[b] * TTL
  /\ \A b \in Daily : Refill[b] = 0
  /\ \A t, s \in Times : t + TTL <= s + MaxDelay => Day[t] < Day[s]

VARIABLES
  clock,    \* the time
  bucket,   \* the hash stored under each key, if any
  client,   \* each process's script on its way, or its last denial
  window,   \* history: what one key did since a moment of our choosing
  left      \* resets still allowed

vars == <<clock, bucket, client, window, left>>

KeyOf(b, t) == <<b, IF b \in Daily THEN Day[t] ELSE Day[0]>>
Keys == {KeyOf(b, t) : b \in Buckets, t \in Times}

Missing == [tokens |-> -1]
Hashes == [tokens : Nat, last : Times, touched : Times]
Idle == [at |-> "idle"]
Scripts == [at : {"script"}, kind : Kinds, stamp : Times]
Denials == [at : {"denied"}, key : Keys, cost : Nat, payable : Nat]
NoWindow == [granted |-> -1]
Windows == [key : Keys, seen : Times, ran : Nat, resets : Nat, level : Nat, granted : Nat]

Least(a, b) == IF a <= b THEN a ELSE b
Most(a, b) == IF a <= b THEN b ELSE a

(* Mutant: the refill is not clamped to the capacity. *)
LevelUnclamped(k, t) ==
  IF bucket[k] = Missing THEN Capacity[k[1]]
  ELSE bucket[k].tokens + Refill[k[1]] * Most(0, t - bucket[k].last)

(* What a key holds at time t: the virtual refill of the script and getState. *)
Level(k, t) ==
  IF bucket[k] = Missing THEN Capacity[k[1]]
  ELSE Least(Capacity[k[1]], bucket[k].tokens + Refill[k[1]] * Most(0, t - bucket[k].last))

TypeOK ==
  /\ clock \in Times
  /\ bucket \in [Keys -> Hashes \cup {Missing}]
  /\ client \in [Clients -> Scripts \cup Denials \cup {Idle}]
  /\ window \in Windows \cup {NoWindow}
  /\ left \in 0..MaxResets
  /\ \A k \in Keys : bucket[k] # Missing => bucket[k].tokens <= Capacity[k[1]]
-----------------------------------------------------------------------------
Init ==
  /\ clock = 0
  /\ bucket = [k \in Keys |-> Missing]
  /\ client = [c \in Clients |-> Idle]
  /\ window = NoWindow
  /\ left = MaxResets

(* acquire() reads its clock and sends the script.  A strategy without hints *)
(* is allowed without one.                                                   *)
Send(c, i) ==
  /\ client[c].at # "script"
  /\ HintsOf[i] # <<>>
  /\ client' = [client EXCEPT ![c] = [at |-> "script", kind |-> i, stamp |-> clock]]
  /\ UNCHANGED <<clock, bucket, window, left>>

(* The buckets of c's script: hint n is key Nth(c, n), and costs Price(c, n). *)
Nth(c, n) == KeyOf(HintsOf[client[c].kind][n], client[c].stamp)
Price(c, n) == CostOf[client[c].kind][HintsOf[client[c].kind][n]]
Hints(c) == DOMAIN HintsOf[client[c].kind]
Touched(c) == {Nth(c, n) : n \in Hints(c)}
Cost(c, k) == CostOf[client[c].kind][k[1]]

CanPay(c, n) == Price(c, n) <= Level(Nth(c, n), client[c].stamp)

(* Mutants: the time of the refill is not stored; a denial charges the       *)
(* buckets that could have paid.                                             *)
RefillUndated(c, charged) ==
  [k \in Keys |-> IF k \in Touched(c)
                  THEN [tokens |-> Level(k, client[c].stamp) - (IF charged THEN Cost(c, k) ELSE 0),
                        last |-> IF bucket[k] = Missing THEN client[c].stamp ELSE bucket[k].last,
                        touched |-> clock]
                  ELSE bucket[k]]
EachPays(c, charged) ==
  [k \in Keys |-> IF k \in Touched(c)
                  THEN [tokens |-> Level(k, client[c].stamp)
                          - (IF Cost(c, k) <= Level(k, client[c].stamp) THEN Cost(c, k) ELSE 0),
                        last |-> client[c].stamp, touched |-> clock]
                  ELSE bucket[k]]

Written(c, charged) ==
  [k \in Keys |-> IF k \in Touched(c)
                  THEN [tokens |-> Level(k, client[c].stamp) - (IF charged THEN Cost(c, k) ELSE 0),
                        last |-> client[c].stamp, touched |-> clock]
                  ELSE bucket[k]]

(* History: the window's key was written with this stamp and charged so much. *)
Noted(s, charge) ==
  [window EXCEPT !.seen = s,
                 !.ran = @ + Most(0, s - window.seen),
                 !.granted = @ + charge]

Watched(K) == window # NoWindow /\ window.key \in K

Grant(c) ==
  /\ client[c].at = "script"
  /\ \A n \in Hints(c) : CanPay(c, n)
  /\ bucket' = Written(c, TRUE)
  /\ client' = [d \in Clients |->
       IF d = c \/ (client[d].at = "denied" /\ client[d].key \in Touched(c)) THEN Idle ELSE client[d]]
  /\ window' = IF Watched(Touched(c)) THEN Noted(client[c].stamp, Cost(c, window.key)) ELSE window
  /\ UNCHANGED <<clock, left>>

(* Mutant: the wait is rounded down. *)
WaitFloored(b, lacks) == IF Refill[b] = 0 THEN 0 ELSE lacks \div Refill[b]

(* The wait until a key that lacks so many tokens can pay; 0 if it never refills. *)
Wait(b, lacks) == IF Refill[b] = 0 THEN 0 ELSE (lacks + Refill[b] - 1) \div Refill[b]

(* The first bucket that cannot pay is the one reported. *)
Blocking(c, n) == ~CanPay(c, n) /\ \A m \in Hints(c) : m < n => CanPay(c, m)

Denial(c, n) ==
  [at |-> "denied", key |-> Nth(c, n), cost |-> Price(c, n),
   payable |-> client[c].stamp
     + Wait(Nth(c, n)[1], Price(c, n) - Level(Nth(c, n), client[c].stamp))]

Deny(c) ==
  /\ client[c].at = "script"
  /\ \E n \in Hints(c) :
       /\ Blocking(c, n)
       /\ client' = [client EXCEPT ![c] = Denial(c, n)]
  /\ bucket' = Written(c, FALSE)
  /\ window' = IF Watched(Touched(c)) THEN Noted(client[c].stamp, 0) ELSE window
  /\ UNCHANGED <<clock, left>>

(* Time passes, at most MaxDelay while a script is on its way; a hash not *)
(* touched for TTL is gone.                                                *)
Lapses(k) == bucket[k] # Missing /\ clock + 1 >= bucket[k].touched + TTL

Tick ==
  /\ clock < MaxTime
  /\ \A c \in Clients : client[c].at = "script" => clock < client[c].stamp + MaxDelay
  /\ clock' = clock + 1
  /\ bucket' = [k \in Keys |-> IF Lapses(k) THEN Missing ELSE bucket[k]]
  /\ window' = IF window # NoWindow /\ Lapses(window.key)
               THEN [window EXCEPT !.seen = clock + 1, !.ran = @ + Most(0, clock + 1 - window.seen)]
               ELSE window
  /\ UNCHANGED <<client, left>>

(* An operator's reset deletes the key. *)
Reset(k) ==
  /\ left > 0
  /\ bucket[k] # Missing
  /\ left' = left - 1
  /\ bucket' = [bucket EXCEPT ![k] = Missing]
  /\ window' = IF Watched({k}) THEN [window EXCEPT !.resets = @ + 1] ELSE window
  /\ UNCHANGED <<clock, client>>

(* History: start watching the key in use for a bucket. *)
Watch(b) ==
  /\ window = NoWindow
  /\ window' = [key |-> KeyOf(b, clock), seen |-> clock, ran |-> 0, resets |-> 0,
                level |-> Level(KeyOf(b, clock), clock), granted |-> 0]
  /\ UNCHANGED <<clock, bucket, client, left>>

Next ==
  \/ \E c \in Clients, i \in Kinds : Send(c, i)
  \/ \E c \in Clients : Grant(c) \/ Deny(c)
  \/ \E k \in Keys : Reset(k)
  \/ \E b \in Buckets : Watch(b)
  \/ Tick

Spec == Init /\ [][Next]_vars
-----------------------------------------------------------------------------
(* Whatever moment one starts counting at, a key pays out no more than its   *)
(* capacity, plus the refill of the time its callers' clocks ran since, plus *)
(* a capacity for every reset.  A clock that steps back runs over the same   *)
(* span again (the script stores the older time), so the bound is of real    *)
(* time only for callers in order.  A daily counter never refills: it pays   *)
(* its capacity a date, whatever the TTL does.                               *)
GrantsBounded ==
  window # NoWindow =>
    window.granted <= Capacity[window.key[1]] * (1 + window.resets)
                      + Refill[window.key[1]] * window.ran

(* Nothing but a grant costs a key tokens: not the denial of a call that     *)
(* another of its buckets blocked, nor a late script, nor the TTL.           *)
NothingLost ==
  window # NoWindow => window.level <= window.granted + Level(window.key, clock)

(* The wait a denial reports is enough for the bucket it names: by then the  *)
(* bucket can pay, whatever other denials and resets came between, as long   *)
(* as nobody was granted from it.                                            *)
WaitSuffices ==
  \A c \in Clients :
    client[c].at = "denied" /\ Refill[client[c].key[1]] > 0
      /\ client[c].cost <= Capacity[client[c].key[1]] =>
        client[c].cost <= Level(client[c].key, client[c].payable)
=============================================================================
