---------------------------- MODULE LimitProofs -----------------------------
(***************************************************************************)
(* Theorems about what holds a call back: the rate buckets (RateBucket),   *)
(* then the gates on Meta's usage (MetaGate), for all buckets, strategies, *)
(* clocks, jobs, assets, reports and bounds.                               *)
(***************************************************************************)
EXTENDS RateBucket, MetaGate, FiniteSetTheorems, TLAPS

R(k) == Refill[k[1]]
Cap(k) == Capacity[k[1]]

(* Arithmetic the provers do not find by themselves. *)
LEMMA Spread == ASSUME NEW r \in Nat, NEW x \in Int, NEW y \in Int PROVE r * (x + y) = r * x + r * y
  OBVIOUS

LEMMA Scale == ASSUME NEW r \in Nat, NEW x \in Int, NEW y \in Int, x <= y PROVE r * x <= r * y
  OBVIOUS

LEMMA ScaleNat == ASSUME NEW r \in Nat, NEW x \in Nat PROVE r * x \in Nat
  OBVIOUS

LEMMA CeilEnough == ASSUME NEW r \in Nat \ {0}, NEW n \in Nat PROVE /\ (n + r - 1) \div r \in Nat
                                                               /\ n <= r * ((n + r - 1) \div r)
  OBVIOUS
-----------------------------------------------------------------------------
LEMMA KeyShape ==
  ASSUME NEW k \in Keys
  PROVE  /\ k[1] \in Buckets
         /\ R(k) \in Nat /\ Cap(k) \in Nat
         /\ \E t \in Times : k = KeyOf(k[1], t)
  BY RateAssumption DEF Keys, KeyOf, R, Cap

LEMMA KeyInKeys ==
  ASSUME NEW b \in Buckets, NEW t \in Times
  PROVE  KeyOf(b, t) \in Keys /\ KeyOf(b, t)[1] = b
  BY DEF Keys, KeyOf

(* A stored hash, and what it holds later. *)
LEMMA HashTyped ==
  ASSUME TypeOK, NEW k \in Keys, bucket[k] # Missing
  PROVE  /\ bucket[k].tokens \in 0..Cap(k)
         /\ bucket[k].last \in Times
         /\ bucket[k].touched \in Times
  <1>1. bucket[k] \in Hashes
    BY DEF TypeOK
  <1>2. bucket[k].tokens <= Capacity[k[1]]
    BY DEF TypeOK
  <1> QED
    BY <1>1, <1>2, KeyShape DEF Hashes, Cap

LEMMA LevelTyped ==
  ASSUME TypeOK, NEW k \in Keys, NEW t \in Int
  PROVE  Level(k, t) \in 0..Cap(k)
  <1>1. CASE bucket[k] = Missing
    BY <1>1, KeyShape DEF Level, Cap
  <1>2. CASE bucket[k] # Missing
    <2> DEFINE e == Most(0, t - bucket[k].last)
    <2>1. bucket[k].tokens \in Nat /\ bucket[k].last \in Int
      BY <1>2, HashTyped, KeyShape, RateAssumption DEF Times
    <2>2. e \in Nat
      BY <2>1 DEF Most
    <2> HIDE DEF e
    <2>3. R(k) * e \in Nat
      BY <2>2, ScaleNat, KeyShape
    <2>4. Level(k, t) = Least(Cap(k), bucket[k].tokens + R(k) * e)
      BY <1>2 DEF Level, R, Cap, e
    <2> QED
      BY <2>1, <2>3, <2>4, KeyShape DEF Least
  <1> QED
    BY <1>1, <1>2

(* A key gains at most the refill of the time that passes. *)
LEMMA LevelGrows ==
  ASSUME TypeOK, NEW k \in Keys, NEW t \in Int, NEW u \in Int, t <= u
  PROVE  /\ Level(k, t) <= Level(k, u)
         /\ Level(k, u) <= Level(k, t) + R(k) * (u - t)
  <1>0. R(k) * (u - t) \in Nat
    BY ScaleNat, KeyShape
  <1>1. CASE bucket[k] = Missing
    BY <1>0, <1>1, KeyShape DEF Level, Cap
  <1>2. CASE bucket[k] # Missing
    <2> DEFINE d == Most(0, t - bucket[k].last)
               e == Most(0, u - bucket[k].last)
    <2>1. bucket[k].tokens \in Nat /\ bucket[k].last \in Int
      BY <1>2, HashTyped, KeyShape, RateAssumption DEF Times
    <2>2. d \in Nat /\ e \in Nat /\ d <= e /\ e <= d + (u - t)
      BY <2>1 DEF Most
    <2> HIDE DEF d, e
    <2>3. R(k) * d \in Nat /\ R(k) * e \in Nat /\ R(k) * d <= R(k) * e
      BY <2>2, ScaleNat, Scale, KeyShape
    <2>4. R(k) * e <= R(k) * (d + (u - t))
      BY <2>2, Scale, KeyShape
    <2>5. R(k) * (d + (u - t)) = R(k) * d + R(k) * (u - t)
      BY <2>2, Spread, KeyShape
    <2>6. /\ Level(k, t) = Least(Cap(k), bucket[k].tokens + R(k) * d)
          /\ Level(k, u) = Least(Cap(k), bucket[k].tokens + R(k) * e)
      BY <1>2 DEF Level, R, Cap, d, e
    <2> QED
      BY <1>0, <2>1, <2>3, <2>4, <2>5, <2>6, KeyShape DEF Least
  <1> QED
    BY <1>1, <1>2

(* The script's hash holds what it wrote at its stamp, and refills from it. *)
LEMMA LevelWritten ==
  ASSUME TypeOK, NEW k \in Keys, NEW s \in Times, NEW n \in Nat, NEW now, NEW t \in Int,
         n <= Cap(k), bucket'[k] = [tokens |-> n, last |-> s, touched |-> now]
  PROVE  /\ t <= s => Level(k, t)' = n
         /\ s <= t => Level(k, t)' = Least(Cap(k), n + R(k) * (t - s))
  <1>1. s \in Int
    BY RateAssumption DEF Times
  <1>2. bucket'[k] # Missing
    BY DEF Missing
  <1>3. Level(k, t)' = Least(Cap(k), n + R(k) * Most(0, t - s))
    BY <1>2 DEF Level, R, Cap
  <1>4. t <= s => Most(0, t - s) = 0
    BY <1>1 DEF Most
  <1>5. s <= t => Most(0, t - s) = t - s
    BY <1>1 DEF Most
  <1> QED
    BY <1>3, <1>4, <1>5, KeyShape DEF Least
-----------------------------------------------------------------------------
(* A script on its way and the keys it names. *)
LEMMA ScriptTyped ==
  ASSUME TypeOK, NEW c \in Clients, client[c].at = "script"
  PROVE  /\ client[c].kind \in Kinds
         /\ client[c].stamp \in Times
         /\ \A n \in Hints(c) : /\ Nth(c, n) \in Keys
                               /\ Nth(c, n)[1] = HintsOf[client[c].kind][n]
                               /\ Price(c, n) \in Nat
                               /\ Price(c, n) = Cost(c, Nth(c, n))
         /\ Touched(c) \subseteq Keys
         /\ \A k \in Touched(c) : /\ Cost(c, k) \in Nat
                                 /\ k = KeyOf(k[1], client[c].stamp)
  <1>1. client[c] \in Scripts
    BY DEF TypeOK, Denials, Idle
  <1>2. client[c].kind \in Kinds /\ client[c].stamp \in Times
    BY <1>1 DEF Scripts
  <1>3. ASSUME NEW n \in Hints(c)
        PROVE  /\ HintsOf[client[c].kind][n] \in Buckets
               /\ Nth(c, n) \in Keys
               /\ Nth(c, n)[1] = HintsOf[client[c].kind][n]
               /\ Nth(c, n) = KeyOf(Nth(c, n)[1], client[c].stamp)
               /\ Price(c, n) \in Nat
               /\ Price(c, n) = Cost(c, Nth(c, n))
    <2>1. HintsOf[client[c].kind][n] \in Buckets
      BY <1>2, RateAssumption DEF Hints
    <2>2. Nth(c, n) \in Keys /\ Nth(c, n)[1] = HintsOf[client[c].kind][n]
      BY <1>2, <2>1, KeyInKeys DEF Nth
    <2> QED
      BY <1>2, <2>1, <2>2, RateAssumption DEF Price, Cost, Nth
  <1> QED
    BY <1>2, <1>3 DEF Touched

(* What a script leaves in a key. *)
Rest(c, k, charged) == Level(k, client[c].stamp) - (IF charged THEN Cost(c, k) ELSE 0)

LEMMA WrittenTyped ==
  ASSUME TypeOK, NEW c \in Clients, client[c].at = "script", NEW charged \in BOOLEAN,
         charged => \A n \in Hints(c) : CanPay(c, n), NEW k \in Touched(c)
  PROVE  /\ Rest(c, k, charged) \in 0..Cap(k)
         /\ Written(c, charged)[k] =
              [tokens |-> Rest(c, k, charged), last |-> client[c].stamp, touched |-> clock]
  <1>1. k \in Keys /\ Cost(c, k) \in Nat /\ client[c].stamp \in Int
    BY ScriptTyped, RateAssumption DEF Times
  <1>2. Level(k, client[c].stamp) \in 0..Cap(k)
    BY <1>1, LevelTyped
  <1>3. ASSUME charged PROVE Cost(c, k) <= Level(k, client[c].stamp)
    BY <1>3, ScriptTyped DEF Touched, CanPay
  <1>4. Rest(c, k, charged) \in 0..Cap(k)
    BY <1>1, <1>2, <1>3, KeyShape DEF Rest
  <1> QED
    BY <1>1, <1>4 DEF Written, Rest

LEMMA TypeInit == Init => TypeOK
  BY RateAssumption DEF Init, TypeOK, Times, Missing, Idle, NoWindow

LEMMA NotedTyped ==
  ASSUME NEW s \in Times, NEW charge \in Nat, window \in Windows
  PROVE  Noted(s, charge) \in Windows
  <1>1. window.seen \in Int /\ s \in Int
    BY RateAssumption DEF Windows, Times
  <1>2. Most(0, s - window.seen) \in Nat
    BY <1>1 DEF Most
  <1>3. window.ran + Most(0, s - window.seen) \in Nat /\ window.granted + charge \in Nat
    BY <1>2 DEF Windows
  <1> QED
    BY <1>3 DEF Noted, Windows

(* Running a script keeps the types. *)
LEMMA WriteTyped ==
  ASSUME TypeOK, NEW c \in Clients, client[c].at = "script", NEW charged \in BOOLEAN,
         charged => \A n \in Hints(c) : CanPay(c, n), bucket' = Written(c, charged),
         window' = IF Watched(Touched(c))
                   THEN Noted(client[c].stamp, IF charged THEN Cost(c, window.key) ELSE 0) ELSE window
  PROVE  /\ bucket' \in [Keys -> Hashes \cup {Missing}]
         /\ \A k \in Keys : bucket'[k] # Missing => bucket'[k].tokens <= Capacity[k[1]]
         /\ window' \in Windows \cup {NoWindow}
  <1>1. ASSUME NEW k \in Keys
        PROVE  /\ Written(c, charged)[k] \in Hashes \cup {Missing}
               /\ Written(c, charged)[k] # Missing => Written(c, charged)[k].tokens <= Capacity[k[1]]
    <2>1. CASE k \in Touched(c)
      <3>0. /\ Rest(c, k, charged) \in 0..Cap(k)
            /\ Written(c, charged)[k] =
                 [tokens |-> Rest(c, k, charged), last |-> client[c].stamp, touched |-> clock]
        BY <2>1, WrittenTyped
      <3>1. Rest(c, k, charged) \in Nat /\ Rest(c, k, charged) <= Capacity[k[1]]
        BY <3>0, KeyShape DEF Cap
      <3>2. client[c].stamp \in Times /\ clock \in Times
        BY ScriptTyped DEF TypeOK
      <3> QED
        BY <3>0, <3>1, <3>2 DEF Hashes
    <2>2. CASE k \notin Touched(c)
      BY <2>2 DEF Written, TypeOK
    <2> QED
      BY <2>1, <2>2
  <1>2. CASE Watched(Touched(c))
    <2>1. window \in Windows
      BY <1>2 DEF Watched, TypeOK
    <2>2. (IF charged THEN Cost(c, window.key) ELSE 0) \in Nat
      BY <1>2, ScriptTyped DEF Watched
    <2> QED
      BY <1>1, <1>2, <2>1, <2>2, NotedTyped, ScriptTyped DEF Written
  <1>3. CASE ~Watched(Touched(c))
    BY <1>1, <1>3 DEF Written, TypeOK
  <1> QED
    BY <1>2, <1>3

LEMMA DenialTyped ==
  ASSUME TypeOK, NEW c \in Clients, client[c].at = "script", NEW n \in Hints(c), Blocking(c, n)
  PROVE  Denial(c, n) \in Denials
  <1> DEFINE lacks == Price(c, n) - Level(Nth(c, n), client[c].stamp)
             b == Nth(c, n)[1]
  <1>1. /\ Nth(c, n) \in Keys /\ Price(c, n) \in Nat /\ client[c].stamp \in Nat
    BY ScriptTyped, RateAssumption DEF Times
  <1>2. lacks \in Nat
    BY <1>1, LevelTyped, KeyShape DEF Blocking, CanPay, Cap
  <1>3. Refill[b] \in Nat
    BY <1>1, KeyShape DEF R
  <1> HIDE DEF lacks, b
  <1>4. Wait(b, lacks) \in Nat
    BY <1>2, <1>3, CeilEnough DEF Wait
  <1>5. client[c].stamp + Wait(b, lacks) \in Nat
    BY <1>1, <1>4
  <1> QED
    BY <1>1, <1>5 DEF Denial, Denials, b, lacks

LEMMA TypeStep == TypeOK /\ [Next]_vars => TypeOK'
  <1> SUFFICES ASSUME TypeOK, [Next]_vars PROVE TypeOK'
    OBVIOUS
  <1>1. ASSUME NEW c \in Clients, NEW i \in Kinds, Send(c, i) PROVE TypeOK'
    BY <1>1 DEF Send, TypeOK, Scripts
  <1>2. ASSUME NEW c \in Clients, Grant(c) PROVE TypeOK'
    <2>1. /\ bucket' \in [Keys -> Hashes \cup {Missing}]
          /\ \A k \in Keys : bucket'[k] # Missing => bucket'[k].tokens <= Capacity[k[1]]
          /\ window' \in Windows \cup {NoWindow}
      BY <1>2, WriteTyped DEF Grant
    <2>2. client' \in [Clients -> Scripts \cup Denials \cup {Idle}]
      BY <1>2 DEF Grant, TypeOK
    <2> QED
      BY <1>2, <2>1, <2>2 DEF Grant, TypeOK
  <1>3. ASSUME NEW c \in Clients, Deny(c) PROVE TypeOK'
    <2>1. /\ bucket' \in [Keys -> Hashes \cup {Missing}]
          /\ \A k \in Keys : bucket'[k] # Missing => bucket'[k].tokens <= Capacity[k[1]]
          /\ window' \in Windows \cup {NoWindow}
      BY <1>3, WriteTyped DEF Deny
    <2>2. client' \in [Clients -> Scripts \cup Denials \cup {Idle}]
      BY <1>3, DenialTyped DEF Deny, TypeOK
    <2> QED
      BY <1>3, <2>1, <2>2 DEF Deny, TypeOK
  <1>4. ASSUME NEW k \in Keys, Reset(k) PROVE TypeOK'
    <2>1. window' \in Windows \cup {NoWindow}
      BY <1>4 DEF Reset, TypeOK, Windows, Watched
    <2> QED
      BY <1>4, <2>1, RateAssumption DEF Reset, TypeOK
  <1>5. ASSUME NEW b \in Buckets, Watch(b) PROVE TypeOK'
    <2>1. KeyOf(b, clock) \in Keys
      BY KeyInKeys DEF TypeOK
    <2>2. Level(KeyOf(b, clock), clock) \in Nat
      BY <2>1, LevelTyped, KeyShape, RateAssumption DEF TypeOK, Times
    <2>3. window' \in Windows
      BY <1>5, <2>1, <2>2 DEF Watch, Windows, TypeOK
    <2> QED
      BY <1>5, <2>3 DEF Watch, TypeOK
  <1>6. ASSUME Tick PROVE TypeOK'
    <2>1. clock + 1 \in Times
      BY <1>6, RateAssumption DEF Tick, TypeOK, Times
    <2>2. window' \in Windows \cup {NoWindow}
      <3>1. CASE window # NoWindow /\ Lapses(window.key)
        <4>1. window \in Windows
          BY <3>1 DEF TypeOK
        <4>0. window.ran \in Nat /\ window.seen \in Int /\ clock \in Int
          BY <4>1, RateAssumption DEF Windows, Times, TypeOK
        <4>2. window.ran + Most(0, clock + 1 - window.seen) \in Nat
          BY <4>0 DEF Most
        <4> QED
          BY <1>6, <3>1, <2>1, <4>1, <4>2 DEF Tick, Windows
      <3>2. CASE ~(window # NoWindow /\ Lapses(window.key))
        BY <1>6, <3>2 DEF Tick, TypeOK
      <3> QED
        BY <3>1, <3>2
    <2> QED
      BY <1>6, <2>1, <2>2 DEF Tick, TypeOK
  <1>7. ASSUME UNCHANGED vars PROVE TypeOK'
    BY <1>7 DEF vars, TypeOK
  <1> QED
    BY <1>1, <1>2, <1>3, <1>4, <1>5, <1>6, <1>7 DEF Next

(* Every variable keeps its type, and no hash holds more than its capacity. *)
THEOREM TypeCorrect == Spec => []TypeOK
  BY TypeInit, TypeStep, PTL DEF Spec
-----------------------------------------------------------------------------
(* Scripts arrive at most MaxDelay late, hashes are not from the future, and *)
(* a daily hash was written on its date.                                     *)
InTime ==
  /\ \A c \in Clients : client[c].at = "script" =>
       client[c].stamp <= clock /\ clock <= client[c].stamp + MaxDelay
  /\ \A k \in Keys : bucket[k] # Missing =>
       /\ bucket[k].last <= bucket[k].touched /\ bucket[k].touched <= clock
       /\ k = KeyOf(k[1], bucket[k].last)
  /\ window # NoWindow => window.seen <= clock

(* No script will name this daily key again. *)
Retired(k) ==
  /\ bucket[k] = Missing
  /\ \A t \in Times : clock <= t + MaxDelay => k # KeyOf(k[1], t)

Due(w) == Cap(w.key) * (1 + w.resets) + R(w.key) * w.ran

(* What the window has paid out and what is left of it are covered. *)
Covered ==
  window # NoWindow =>
    /\ window.granted <= Due(window)
    /\ Retired(window.key) \/ window.granted + Level(window.key, window.seen) <= Due(window)

Accounted == Covered /\ NothingLost /\ WaitSuffices

RateInv == TypeOK /\ InTime /\ Accounted
-----------------------------------------------------------------------------
LEMMA InTimeInit == Init => InTime
  BY DEF Init, InTime, Idle, NoWindow, Missing

LEMMA InTimeStep == TypeOK /\ InTime /\ [Next]_vars => InTime'
  <1> SUFFICES ASSUME TypeOK, InTime, [Next]_vars PROVE InTime'
    OBVIOUS
  <1>0. clock \in Int /\ MaxDelay \in Nat
    BY RateAssumption DEF TypeOK, Times
  <1>1. ASSUME NEW c \in Clients, NEW i \in Kinds, Send(c, i) PROVE InTime'
    BY <1>0, <1>1 DEF Send, InTime, TypeOK
  <1>2. ASSUME NEW c \in Clients, NEW charged \in BOOLEAN, client[c].at = "script",
               charged => \A n \in Hints(c) : CanPay(c, n), clock' = clock,
               \A d \in Clients : client'[d] = client[d] \/ client'[d].at # "script",
               bucket' = Written(c, charged),
               window' = IF Watched(Touched(c))
                   THEN Noted(client[c].stamp, IF charged THEN Cost(c, window.key) ELSE 0) ELSE window
        PROVE InTime'
    <2>1. client[c].stamp <= clock
      BY <1>2 DEF InTime
    <2>2. ASSUME NEW k \in Keys, bucket'[k] # Missing
          PROVE  /\ bucket'[k].last <= bucket'[k].touched /\ bucket'[k].touched <= clock
                 /\ k = KeyOf(k[1], bucket'[k].last)
      <3>1. CASE k \in Touched(c)
        <4>1. bucket'[k] = [tokens |-> Rest(c, k, charged), last |-> client[c].stamp, touched |-> clock]
          BY <1>2, <3>1, WrittenTyped
        <4>2. k = KeyOf(k[1], client[c].stamp)
          BY <1>2, <3>1, ScriptTyped
        <4> QED
          BY <1>0, <2>1, <4>1, <4>2
      <3>2. CASE k \notin Touched(c)
        BY <1>2, <2>2, <3>2 DEF Written, InTime
      <3> QED
        BY <3>1, <3>2
    <2>3. window' # NoWindow => window'.seen <= clock
      <3>1. CASE Watched(Touched(c))
        <4>1. window \in Windows
          BY <3>1 DEF Watched, TypeOK
        <4> QED
          BY <1>2, <2>1, <3>1, <4>1 DEF Noted, Windows
      <3>2. CASE ~Watched(Touched(c))
        BY <1>2, <3>2 DEF InTime
      <3> QED
        BY <3>1, <3>2
    <2>4. \A d \in Clients : client'[d].at = "script" =>
            client'[d].stamp <= clock /\ clock <= client'[d].stamp + MaxDelay
      BY <1>2 DEF InTime
    <2> QED
      BY <1>2, <2>2, <2>3, <2>4 DEF InTime
  <1>3. ASSUME NEW c \in Clients, Grant(c) PROVE InTime'
    <2>1. \A d \in Clients : client'[d] = client[d] \/ client'[d].at # "script"
      BY <1>3 DEF Grant, Idle
    <2> QED
      BY <1>2, <1>3, <2>1 DEF Grant
  <1>4. ASSUME NEW c \in Clients, Deny(c) PROVE InTime'
    <2>1. \A d \in Clients : client'[d] = client[d] \/ client'[d].at # "script"
      BY <1>4 DEF Deny, Denial, TypeOK
    <2> QED
      BY <1>2, <1>4, <2>1 DEF Deny
  <1>5. ASSUME NEW k \in Keys, Reset(k) PROVE InTime'
    <2>1. window' # NoWindow => window'.seen <= clock
      BY <1>5 DEF Reset, InTime, TypeOK, Windows, Watched, NoWindow
    <2>2. \A j \in Keys : bucket'[j] # Missing => bucket'[j] = bucket[j]
      BY <1>5 DEF Reset, TypeOK
    <2> QED
      BY <1>5, <2>1, <2>2 DEF Reset, InTime
  <1>6. ASSUME NEW b \in Buckets, Watch(b) PROVE InTime'
    BY <1>0, <1>6 DEF Watch, InTime
  <1>7. ASSUME Tick PROVE InTime'
    <2>1. \A c \in Clients : client[c].at = "script" => client[c].stamp \in Int
      BY ScriptTyped, RateAssumption DEF Times
    <2>2. \A k \in Keys : bucket'[k] # Missing =>
            bucket'[k] = bucket[k] /\ bucket[k] # Missing /\ bucket[k].touched \in Int
      BY <1>7, HashTyped, RateAssumption DEF Tick, TypeOK, Times
    <2>3. window' # NoWindow => window'.seen <= clock + 1
      <3>1. CASE window # NoWindow /\ Lapses(window.key)
        <4>1. window \in Windows
          BY <3>1 DEF TypeOK
        <4> QED
          BY <1>0, <1>7, <3>1, <4>1 DEF Tick, Windows
      <3>2. CASE ~(window # NoWindow /\ Lapses(window.key))
        <4>1. window # NoWindow => window.seen \in Int
          BY RateAssumption DEF TypeOK, Windows, Times
        <4> QED
          BY <1>0, <1>7, <3>2, <4>1 DEF Tick, InTime
      <3> QED
        BY <3>1, <3>2
    <2>4. \A c \in Clients : client'[c].at = "script" =>
            client'[c].stamp <= clock' /\ clock' <= client'[c].stamp + MaxDelay
      BY <1>0, <1>7, <2>1 DEF Tick, InTime
    <2>5. \A k \in Keys : bucket'[k] # Missing =>
            /\ bucket'[k].last <= bucket'[k].touched /\ bucket'[k].touched <= clock'
            /\ k = KeyOf(k[1], bucket'[k].last)
      BY <1>0, <1>7, <2>2 DEF Tick, InTime
    <2> QED
      BY <1>7, <2>3, <2>4, <2>5 DEF InTime, Tick
  <1>8. ASSUME UNCHANGED vars PROVE InTime'
    BY <1>8 DEF vars, InTime
  <1> QED
    BY <1>1, <1>3, <1>4, <1>5, <1>6, <1>7, <1>8 DEF Next
-----------------------------------------------------------------------------
(* An unchanged hash holds what it held, a missing one its capacity. *)
LEMMA LevelKept ==
  ASSUME NEW k \in Keys, NEW t, bucket'[k] = bucket[k]
  PROVE  Level(k, t)' = Level(k, t)
  BY DEF Level

(* A script takes its charge from what a key holds, at its stamp and at any *)
(* other time, and nothing else.                                            *)
LEMMA WriteLevel ==
  ASSUME TypeOK, NEW c \in Clients, client[c].at = "script", NEW charged \in BOOLEAN,
         charged => \A n \in Hints(c) : CanPay(c, n), bucket' = Written(c, charged),
         NEW k \in Touched(c), NEW s, s = client[c].stamp, NEW t \in Int, NEW charge \in Nat,
         charge = IF charged THEN Cost(c, k) ELSE 0
  PROVE  /\ Level(k, s)' \in Nat /\ Level(k, t)' \in Nat
         /\ Level(k, s)' + charge = Level(k, s)
         /\ Level(k, t) <= Level(k, t)' + charge
         /\ s <= t => Level(k, t)' = Least(Cap(k), Level(k, s) - charge + R(k) * (t - s))
  <1> PICK x : x = Rest(c, k, charged)
    OBVIOUS
  <1>1. k \in Keys /\ s \in Times /\ s \in Int
    BY ScriptTyped, RateAssumption DEF Times
  <1>2. x \in 0..Cap(k) /\ bucket'[k] = [tokens |-> x, last |-> s, touched |-> clock]
    BY WrittenTyped
  <1>3. Level(k, s) \in 0..Cap(k) /\ Level(k, t) \in 0..Cap(k) /\ x + charge = Level(k, s)
    BY <1>1, LevelTyped, KeyShape DEF Rest
  <1>4. x \in Nat /\ x <= Cap(k)
    BY <1>1, <1>2, KeyShape
  <1>5. /\ t <= s => Level(k, t)' = x
        /\ s <= t => Level(k, t)' = Least(Cap(k), x + R(k) * (t - s))
    BY <1>1, <1>2, <1>4, LevelWritten
  <1>6. Level(k, s)' = x
    BY <1>1, <1>2, <1>4, LevelWritten
  <1>7. CASE t <= s
    <2>1. Level(k, t) <= Level(k, s)
      BY <1>1, <1>7, LevelGrows
    <2>2. s <= t => t = s
      BY <1>1, <1>7
    <2>3. R(k) * 0 = 0
      BY KeyShape, <1>1
    <2>4. s <= t => t - s = 0
      BY <1>1, <2>2
    <2> QED
      BY <1>1, <1>3, <1>4, <1>5, <1>6, <1>7, <2>1, <2>3, <2>4, KeyShape DEF Least
  <1>8. CASE s <= t
    <2>1. Level(k, t) <= Level(k, s) + R(k) * (t - s)
      BY <1>1, <1>8, LevelGrows
    <2>2. R(k) * (t - s) \in Nat
      BY <1>1, <1>8, ScaleNat, KeyShape
    <2>3. Level(k, t) <= Level(k, t)' + charge
      BY <1>1, <1>3, <1>4, <1>5, <1>8, <2>1, <2>2, KeyShape DEF Least
    <2>4. Level(k, t)' \in Nat
      BY <1>1, <1>4, <1>5, <1>8, <2>2, KeyShape DEF Least
    <2>5. x = Level(k, s) - charge
      BY <1>3, <1>4
    <2> QED
      BY <1>3, <1>4, <1>5, <1>6, <1>8, <2>3, <2>4, <2>5
  <1> QED
    BY <1>1, <1>7, <1>8

(* What a script writes stays covered, and loses nothing but its charge. *)
LEMMA WriteAccounted ==
  ASSUME TypeOK, InTime, Covered, NothingLost, NEW c \in Clients, client[c].at = "script",
         NEW charged \in BOOLEAN, charged => \A n \in Hints(c) : CanPay(c, n),
         bucket' = Written(c, charged), clock' = clock,
         window' = IF Watched(Touched(c))
                   THEN Noted(client[c].stamp, IF charged THEN Cost(c, window.key) ELSE 0) ELSE window
  PROVE  Covered' /\ NothingLost'
  <1>1. CASE Watched(Touched(c))
    <2>0. PICK k, s, now, charge, e :
            /\ k = window.key /\ s = client[c].stamp /\ now = clock
            /\ charge = (IF charged THEN Cost(c, k) ELSE 0)
            /\ e = Most(0, s - window.seen)
      OBVIOUS
    <2>1. window \in Windows /\ window # NoWindow /\ k \in Touched(c)
      BY <1>1, <2>0 DEF Watched, TypeOK
    <2>2. /\ k \in Keys /\ s \in Times /\ s \in Int /\ window.seen \in Int /\ now \in Int
          /\ window.granted \in Nat /\ window.ran \in Nat /\ window.resets \in Nat /\ window.level \in Nat
      BY <2>0, <2>1, ScriptTyped, RateAssumption DEF Windows, Times, TypeOK
    <2>3. charge \in Nat
      BY <2>0, <2>1, ScriptTyped
    <2>4. ~Retired(k)
      BY <2>0, <2>1, <2>2, ScriptTyped DEF Retired, InTime
    <2>5. window.granted + Level(k, window.seen) <= Due(window)
      BY <2>0, <2>1, <2>4 DEF Covered
    <2>6. /\ window'.key = k /\ window'.seen = s /\ window'.ran = window.ran + e
          /\ window'.resets = window.resets /\ window'.level = window.level
          /\ window'.granted = window.granted + charge
      BY <1>1, <2>0, <2>1 DEF Noted, Windows
    <2>7. e \in Nat /\ s <= window.seen + e
      BY <2>0, <2>2 DEF Most
    <2>8. Level(k, s) <= Level(k, window.seen) + R(k) * e
      <3>1. Level(k, s) <= Level(k, window.seen + e)
        BY <2>2, <2>7, LevelGrows
      <3>2. Level(k, window.seen + e) <= Level(k, window.seen) + R(k) * ((window.seen + e) - window.seen)
        BY <2>2, <2>7, LevelGrows
      <3>3. (window.seen + e) - window.seen = e
        BY <2>2, <2>7
      <3>4. /\ Level(k, s) \in Int /\ Level(k, window.seen) \in Int /\ Level(k, window.seen + e) \in Int
            /\ R(k) * e \in Int
        BY <2>2, <2>7, LevelTyped, ScaleNat, KeyShape
      <3> QED
        BY <3>1, <3>2, <3>3, <3>4
    <2>9. Due(window)' = Due(window) + R(k) * e
      <3>1. R(k) * (window.ran + e) = R(k) * window.ran + R(k) * e
        BY <2>2, <2>7, Spread, KeyShape
      <3>2. Cap(k) * (1 + window.resets) \in Nat /\ R(k) * window.ran \in Nat /\ R(k) * e \in Nat
        BY <2>2, <2>7, ScaleNat, KeyShape
      <3> QED
        BY <2>0, <2>6, <3>1, <3>2 DEF Due, Cap, R
    <2>10. /\ Level(k, s)' + charge = Level(k, s)
           /\ Level(k, now) <= Level(k, now)' + charge
           /\ Level(k, s)' \in Nat /\ Level(k, now)' \in Nat
      BY <2>0, <2>1, <2>2, <2>3, WriteLevel
    <2>11. /\ Level(k, s) \in 0..Cap(k) /\ Level(k, now) \in Nat /\ Level(k, window.seen) \in Nat
           /\ Due(window) \in Nat /\ R(k) * e \in Nat
      <3>1. Cap(k) * (1 + window.resets) \in Nat /\ R(k) * window.ran \in Nat /\ R(k) * e \in Nat
        BY <2>2, <2>7, ScaleNat, KeyShape
      <3> QED
        BY <2>0, <2>2, <3>1, LevelTyped, KeyShape DEF Due
    <2>13. window'.granted + Level(k, s)' <= Due(window)' /\ window'.granted <= Due(window)'
      BY <2>2, <2>3, <2>5, <2>6, <2>8, <2>9, <2>10, <2>11
    <2>14. window'.level <= window'.granted + Level(k, now)'
      <3>1. window.level <= window.granted + Level(k, now)
        BY <2>0, <2>1 DEF NothingLost
      <3> QED
        BY <2>2, <2>3, <2>6, <2>10, <2>11, <3>1
    <2>15. Level(window.key, window.seen)' = Level(k, s)' /\ Level(window.key, clock)' = Level(k, now)'
      BY <2>0, <2>6 DEF Level
    <2> QED
      BY <2>13, <2>14, <2>15 DEF Covered, NothingLost
  <1>2. CASE ~Watched(Touched(c))
    <2>1. ASSUME window # NoWindow
          PROVE  /\ window.key \in Keys
                 /\ bucket'[window.key] = bucket[window.key]
      <3>1. window.key \in Keys /\ window.key \notin Touched(c)
        BY <1>2, <2>1 DEF TypeOK, Windows, Watched
      <3> QED
        BY <3>1 DEF Written
    <2>2. window' = window
      BY <1>2
    <2> QED
      BY <2>1, <2>2, LevelKept DEF Covered, NothingLost, Retired, Due
  <1> QED
    BY <1>1, <1>2

(* The promise of a denial survives the other scripts: they write the key    *)
(* without taking from it, or end the promise.                               *)
LEMMA WriteKeepsWait ==
  ASSUME TypeOK, WaitSuffices, NEW c \in Clients, client[c].at = "script", NEW charged \in BOOLEAN,
         charged => \A n \in Hints(c) : CanPay(c, n), bucket' = Written(c, charged),
         NEW d \in Clients, client'[d] = client[d], client[d].at = "denied",
         charged => client[d].key \notin Touched(c),
         Refill[client[d].key[1]] > 0, client[d].cost <= Capacity[client[d].key[1]]
  PROVE  client[d].cost <= Level(client[d].key, client[d].payable)'
  <1>0. PICK k, t, s, charge : k = client[d].key /\ t = client[d].payable /\ s = client[c].stamp
                               /\ charge = (IF charged THEN Cost(c, k) ELSE 0)
    OBVIOUS
  <1>1. client[d] \in Denials
    BY DEF TypeOK, Scripts, Idle
  <1>2. k \in Keys /\ t \in Int /\ client[d].cost \in Nat
    BY <1>0, <1>1 DEF Denials
  <1>3. client[d].cost <= Level(k, t)
    BY <1>0 DEF WaitSuffices
  <1>4. Level(k, t) \in Int
    BY <1>2, LevelTyped, KeyShape
  <1>5. Level(client[d].key, client[d].payable)' = Level(k, t)'
    BY <1>0 DEF Level
  <1>6. CASE k \in Touched(c)
    <2>1. ~charged /\ charge = 0
      BY <1>0, <1>6
    <2>2. Level(k, t) <= Level(k, t)' + charge /\ Level(k, t)' \in Nat
      BY <1>0, <1>2, <1>6, <2>1, WriteLevel
    <2> QED
      BY <1>2, <1>3, <1>4, <1>5, <2>1, <2>2
  <1>7. CASE k \notin Touched(c)
    <2>1. bucket'[k] = bucket[k]
      BY <1>2, <1>7 DEF Written
    <2> QED
      BY <1>2, <1>3, <1>5, <2>1, LevelKept
  <1> QED
    BY <1>6, <1>7

(* A denial names a time at which its key can pay. *)
LEMMA DenialWaits ==
  ASSUME TypeOK, NEW c \in Clients, client[c].at = "script", bucket' = Written(c, FALSE),
         NEW n \in Hints(c), Blocking(c, n), client'[c] = Denial(c, n),
         Refill[client'[c].key[1]] > 0, client'[c].cost <= Capacity[client'[c].key[1]]
  PROVE  client'[c].cost <= Level(client[c].key, client[c].payable)'
  <1>0. PICK k, s, have, lacks : k = Nth(c, n) /\ s = client[c].stamp /\ have = Level(k, s)
                                 /\ lacks = Price(c, n) - have
    OBVIOUS
  <1>1. PICK w : w = Wait(k[1], lacks)
    OBVIOUS
  <1>2. k \in Keys /\ k \in Touched(c) /\ s \in Int /\ Price(c, n) \in Nat /\ have \in 0..Cap(k)
        /\ k[1] \in Buckets
    <2>1. k \in Keys /\ k \in Touched(c) /\ s \in Times /\ Price(c, n) \in Nat
      BY <1>0, ScriptTyped DEF Touched
    <2>2. s \in Int
      BY <2>1, RateAssumption DEF Times
    <2>3. QED
      BY <1>0, <2>1, <2>2, LevelTyped, KeyShape
  <1>3. lacks \in Nat
    BY <1>0, <1>2, KeyShape DEF Blocking, CanPay
  <1>4. client'[c].key = k /\ client'[c].cost = Price(c, n) /\ client'[c].payable = s + w
    BY <1>0, <1>1 DEF Denial
  <1>5. R(k) \in Nat \ {0} /\ Price(c, n) <= Cap(k)
    BY <1>2, <1>4, KeyShape DEF R, Cap
  <1>6. w \in Nat /\ lacks <= R(k) * w
    BY <1>1, <1>3, <1>5, CeilEnough DEF Wait, R
  <1>7. s + w \in Int /\ s <= s + w /\ (s + w) - s = w
    BY <1>2, <1>6
  <1>8. Level(k, s + w)' = Least(Cap(k), have - 0 + R(k) * ((s + w) - s))
    <2>1. PICK charged, charge : charged = FALSE /\ charge = 0
      OBVIOUS
    <2>2. /\ charged \in BOOLEAN /\ (charged => \A m \in Hints(c) : CanPay(c, m))
          /\ bucket' = Written(c, charged) /\ charge \in Nat
          /\ charge = (IF charged THEN Cost(c, k) ELSE 0)
      BY <2>1
    <2>3. PICK t \in Int : t = s + w
      BY <1>7
    <2>4. s <= t => Level(k, t)' = Least(Cap(k), Level(k, s) - charge + R(k) * (t - s))
      <3>1. s = client[c].stamp /\ k \in Touched(c)
        BY <1>0, <1>2
      <3> HIDE <1>0
      <3> QED
        BY ONLY TypeOK, c \in Clients, client[c].at = "script", <3>1, <2>2, <2>3, WriteLevel, SMTT(60)
    <2> QED
      BY <1>0, <1>7, <2>1, <2>3, <2>4
  <1>9. R(k) * w \in Nat
    BY <1>5, <1>6, ScaleNat
  <1>10. Price(c, n) <= Level(k, s + w)'
    BY <1>0, <1>2, <1>5, <1>6, <1>7, <1>8, <1>9, KeyShape DEF Least
  <1>11. Level(client[c].key, client[c].payable)' = Level(k, s + w)'
    BY <1>4 DEF Level
  <1> QED
    BY <1>4, <1>10, <1>11

(* A hash that lapses holds its capacity again already, and a daily one will *)
(* not be named again.                                                       *)
LEMMA LapseHarmless ==
  ASSUME TypeOK, InTime, Tick, NEW k \in Keys, Lapses(k)
  PROVE  /\ k[1] \in Daily => Retired(k)'
         /\ k[1] \notin Daily => Level(k, clock + 1) = Cap(k)
  <1>1. /\ bucket[k] # Missing /\ bucket'[k] = Missing
        /\ bucket[k].touched + TTL <= clock + 1 /\ clock' = clock + 1
    BY DEF Lapses, Tick
  <1>2. /\ bucket[k].tokens \in Nat /\ bucket[k].last \in Times /\ bucket[k].touched \in Int
        /\ bucket[k].last \in Int /\ clock \in Int /\ TTL \in Nat /\ MaxDelay \in Nat
    <2>1. bucket[k].tokens \in 0..Cap(k) /\ bucket[k].last \in Times /\ bucket[k].touched \in Times
      BY <1>1, HashTyped
    <2>2. Times \subseteq Int /\ clock \in Times
      BY RateAssumption DEF Times, TypeOK
    <2>3. TTL \in Nat /\ MaxDelay \in Nat
      BY RateAssumption
    <2>4. Cap(k) \in Nat
      BY KeyShape
    <2>5. bucket[k].tokens \in Nat
      BY <2>1, <2>4
    <2>6. QED
      BY <2>1, <2>2, <2>3, <2>5
  <1>3. bucket[k].last + TTL <= clock + 1
    BY <1>1, <1>2 DEF InTime
  <1>4. ASSUME k[1] \in Daily, NEW t \in Times, clock + 1 <= t + MaxDelay
        PROVE  k # KeyOf(k[1], t)
    <2>1. Day[bucket[k].last] < Day[t]
      <3>1. t \in Int
        BY RateAssumption DEF Times
      <3> QED
        BY <1>2, <1>3, <1>4, <3>1, TtlAssumption
    <2>2. k = <<k[1], Day[bucket[k].last]>>
      BY <1>1, <1>4 DEF InTime, KeyOf
    <2>3. KeyOf(k[1], t) = <<k[1], Day[t]>>
      BY <1>4 DEF KeyOf
    <2>4. Day[t] # Day[bucket[k].last]
      <3>1. Day[t] \in Nat /\ Day[bucket[k].last] \in Nat
        BY <1>2, RateAssumption
      <3> QED
        BY <2>1, <3>1
    <2> QED
      BY <2>2, <2>3, <2>4
  <1>5. ASSUME k[1] \notin Daily PROVE Level(k, clock + 1) = Cap(k)
    <2> DEFINE e == Most(0, clock + 1 - bucket[k].last)
    <2>1. e \in Nat /\ TTL <= e
      BY <1>2, <1>3 DEF Most
    <2>2. R(k) * TTL <= R(k) * e /\ R(k) * e \in Nat /\ R(k) * TTL \in Nat
      BY <1>2, <2>1, Scale, ScaleNat, KeyShape
    <2>3. Cap(k) <= R(k) * TTL
      BY <1>5, KeyShape, TtlAssumption DEF Cap, R
    <2>4. Level(k, clock + 1) = Least(Cap(k), bucket[k].tokens + R(k) * e)
      BY <1>1, <1>2 DEF Level, Cap, R, e
    <2> HIDE DEF e
    <2> QED
      BY <1>2, <2>2, <2>3, <2>4, KeyShape DEF Least
  <1> QED
    BY <1>1, <1>4, <1>5 DEF Retired

LEMMA AccountedInit == Init => Accounted
  BY DEF Init, Accounted, Covered, NothingLost, WaitSuffices, NoWindow, Idle

(* A key that is gone holds its capacity. *)
LEMMA WaitKept ==
  ASSUME TypeOK, WaitSuffices, client' = client,
         \A k \in Keys : bucket'[k] = bucket[k] \/ bucket'[k] = Missing
  PROVE  WaitSuffices'
  <1> SUFFICES ASSUME NEW c \in Clients, client[c].at = "denied", Refill[client[c].key[1]] > 0,
                      client[c].cost <= Capacity[client[c].key[1]]
               PROVE  client[c].cost <= Level(client[c].key, client[c].payable)'
    BY DEF WaitSuffices
  <1>1. client[c].key \in Keys
    BY DEF TypeOK, Scripts, Idle, Denials
  <1>2. client[c].cost <= Level(client[c].key, client[c].payable)
    BY DEF WaitSuffices
  <1> QED
    BY <1>1, <1>2 DEF Level

LEMMA TickAccounted ==
  ASSUME TypeOK, InTime, Covered, NothingLost, Tick
  PROVE  Covered' /\ NothingLost'
  <1> SUFFICES ASSUME window # NoWindow PROVE Covered' /\ NothingLost'
    BY DEF Tick, Covered, NothingLost
  <1>0. PICK k, now : k = window.key /\ now = clock
    OBVIOUS
  <1>1. /\ window \in Windows /\ k \in Keys /\ now \in Int /\ now + 1 \in Int /\ window.seen \in Int
        /\ window.granted \in Nat /\ window.ran \in Nat /\ window.resets \in Nat /\ window.level \in Nat
        /\ window.seen <= now
    BY <1>0, RateAssumption DEF TypeOK, Windows, Times, InTime
  <1>2. /\ Cap(k) * (1 + window.resets) \in Nat /\ R(k) * window.ran \in Nat /\ Cap(k) \in Nat /\ R(k) \in Nat
        /\ Level(k, now) \in 0..Cap(k) /\ Level(k, now + 1) \in 0..Cap(k) /\ Level(k, window.seen) \in 0..Cap(k)
    BY <1>1, ScaleNat, KeyShape, LevelTyped
  <1>3. /\ window.granted <= Due(window)
        /\ Retired(k) \/ window.granted + Level(k, window.seen) <= Due(window)
        /\ window.level <= window.granted + Level(k, now)
        /\ Due(window) \in Nat
    BY <1>0, <1>2 DEF Covered, NothingLost, Due
  <1>4. CASE Lapses(k)
    <2>0. PICK e : e = Most(0, now + 1 - window.seen)
      OBVIOUS
    <2>1. e \in Nat /\ now + 1 <= window.seen + e /\ (now + 1) - window.seen = e
      BY <1>1, <2>0 DEF Most
    <2>2. bucket'[k] = Missing /\ ~Retired(k)
      BY <1>1, <1>4 DEF Tick, Lapses, Retired
    <2>3. /\ window' # NoWindow /\ window'.key = k /\ window'.seen = now + 1 /\ window'.ran = window.ran + e
          /\ window'.resets = window.resets /\ window'.level = window.level /\ window'.granted = window.granted
      BY <1>0, <1>1, <1>4, <2>0 DEF Tick, Windows, NoWindow
    <2>4. Due(window)' = Due(window) + R(k) * e
      <3>1. R(k) * (window.ran + e) = R(k) * window.ran + R(k) * e
        BY <1>1, <1>2, <2>1, Spread
      <3>2. R(k) * e \in Nat
        BY <1>2, <2>1, ScaleNat
      <3> QED
        BY <1>0, <1>2, <2>3, <3>1, <3>2 DEF Due, Cap, R
    <2>5. R(k) * e \in Nat
      BY <1>2, <2>1, ScaleNat
    <2>6. window'.granted <= Due(window)'
      BY <1>1, <1>3, <2>3, <2>4, <2>5
    <2>7. Level(window.key, window.seen)' = Cap(k) /\ Level(window.key, clock)' = Cap(k)
      BY <1>1, <2>2, <2>3 DEF Level, Cap
    <2>8. k[1] \notin Daily => window'.granted + Cap(k) <= Due(window)'
      <3> SUFFICES ASSUME k[1] \notin Daily PROVE window'.granted + Cap(k) <= Due(window)'
        OBVIOUS
      <3>1. Level(k, now + 1) = Cap(k)
        BY <1>0, <1>1, <1>4, LapseHarmless
      <3>2. Level(k, now + 1) <= Level(k, window.seen) + R(k) * ((now + 1) - window.seen)
        BY <1>1, LevelGrows
      <3> QED
        BY <1>1, <1>2, <1>3, <2>1, <2>2, <2>3, <2>4, <2>5, <3>1, <3>2
    <2>9. k[1] \in Daily => Retired(window.key)'
      <3>1. k[1] \in Daily => Retired(k)'
        BY <1>1, <1>4, LapseHarmless
      <3>2. Retired(window.key)' = Retired(k)'
        BY <2>3 DEF Retired
      <3> QED
        BY <3>1, <3>2
    <2>10. NothingLost'
      BY <1>1, <1>2, <1>3, <2>3, <2>7 DEF NothingLost
    <2> QED
      BY <2>6, <2>7, <2>8, <2>9, <2>10 DEF Covered
  <1>5. CASE ~Lapses(k)
    <2>1. bucket'[k] = bucket[k] /\ window' = window /\ clock' = clock + 1
      BY <1>0, <1>1, <1>5 DEF Tick
    <2>2. Retired(k) => Retired(window.key)'
      <3>1. clock \in Int
        BY <1>0, <1>1
      <3>2. ASSUME NEW t \in Times, clock + 1 <= t + MaxDelay PROVE clock <= t + MaxDelay
        BY <3>1, <3>2, RateAssumption DEF Times
      <3> QED
        BY <1>0, <2>1, <3>2 DEF Retired
    <2>3. Level(window.key, window.seen)' = Level(k, window.seen)
      BY <1>0, <2>1 DEF Level
    <2>4. Level(window.key, clock)' = Level(k, now + 1) /\ Level(k, now) <= Level(k, now + 1)
      <3>1. Level(k, now) <= Level(k, now + 1)
        BY <1>1, LevelGrows
      <3> QED
        BY <1>0, <2>1, <3>1 DEF Level
    <2>5. Due(window)' = Due(window)
      BY <2>1 DEF Due
    <2>6. NothingLost'
      BY <1>1, <1>2, <1>3, <2>1, <2>4 DEF NothingLost
    <2> QED
      BY <1>0, <1>3, <2>1, <2>2, <2>3, <2>5, <2>6 DEF Covered
  <1> QED
    BY <1>4, <1>5

(* A reset gives the key a capacity more, which the bound counts. *)
LEMMA ResetAccounted ==
  ASSUME TypeOK, Covered, NothingLost, NEW k \in Keys, Reset(k)
  PROVE  Covered' /\ NothingLost'
  <1> SUFFICES ASSUME window # NoWindow PROVE Covered' /\ NothingLost'
    BY DEF Reset, Covered, NothingLost, Watched
  <1>0. PICK now : now = clock
    OBVIOUS
  <1>1. /\ window \in Windows /\ window.key \in Keys /\ now \in Int /\ window.seen \in Int
        /\ window.granted \in Nat /\ window.ran \in Nat /\ window.resets \in Nat /\ window.level \in Nat
    BY <1>0, RateAssumption DEF TypeOK, Windows, Times
  <1>2. CASE window.key = k
    <2>1. /\ window' # NoWindow /\ window'.key = k /\ window'.seen = window.seen /\ window'.ran = window.ran
          /\ window'.resets = window.resets + 1 /\ window'.level = window.level
          /\ window'.granted = window.granted
      BY <1>1, <1>2 DEF Reset, Watched, Windows, NoWindow
    <2>2. bucket[k] # Missing /\ bucket'[k] = Missing /\ clock' = now
      BY <1>0, <1>1, <1>2 DEF Reset, TypeOK
    <2>3. /\ Cap(k) \in Nat /\ R(k) * window.ran \in Nat /\ Cap(k) * (1 + window.resets) \in Nat
          /\ Level(k, window.seen) \in 0..Cap(k) /\ Level(k, now) \in 0..Cap(k)
      BY <1>1, ScaleNat, KeyShape, LevelTyped
    <2>4. Due(window)' = Due(window) + Cap(k) /\ Due(window) \in Nat
      <3>1. Cap(k) * ((1 + window.resets) + 1) = Cap(k) * (1 + window.resets) + Cap(k) * 1
        BY <1>1, <2>3, Spread
      <3>2. (1 + window.resets) + 1 = 1 + (window.resets + 1) /\ Cap(k) * 1 = Cap(k)
        BY <1>1, <2>3
      <3> QED
        BY <1>1, <1>2, <2>1, <2>3, <3>1, <3>2 DEF Due, Cap, R
    <2>5. window.granted + Level(k, window.seen) <= Due(window)
      BY <1>2, <2>2 DEF Covered, Retired
    <2>6. Level(window.key, window.seen)' = Cap(k) /\ Level(window.key, clock)' = Cap(k)
      BY <2>1, <2>2 DEF Level, Cap
    <2>7. window'.granted <= Due(window)' /\ window'.granted + Cap(k) <= Due(window)'
      BY <1>1, <2>1, <2>3, <2>4, <2>5
    <2>8. window'.level <= window'.granted + Cap(k)
      <3>1. window.level <= window.granted + Level(k, now)
        BY <1>0, <1>2 DEF NothingLost
      <3> QED
        BY <1>1, <2>1, <2>3, <3>1
    <2> QED
      BY <2>6, <2>7, <2>8 DEF Covered, NothingLost
  <1>3. CASE window.key # k
    <2>1. window' = window /\ bucket'[window.key] = bucket[window.key] /\ clock' = clock
      BY <1>1, <1>3 DEF Reset, Watched, TypeOK
    <2> QED
      BY <2>1, LevelKept, <1>1 DEF Covered, NothingLost, Retired, Due
  <1> QED
    BY <1>2, <1>3

(* Counting starts at what the key holds. *)
LEMMA WatchAccounted ==
  ASSUME TypeOK, NEW b \in Buckets, Watch(b)
  PROVE  Covered' /\ NothingLost'
  <1>0. PICK k, now : k = KeyOf(b, clock) /\ now = clock
    OBVIOUS
  <1>1. k \in Keys /\ now \in Int
    BY <1>0, KeyInKeys, RateAssumption DEF TypeOK, Times
  <1>2. /\ window'.key = k /\ window'.seen = now /\ window'.ran = 0 /\ window'.resets = 0
        /\ window'.granted = 0 /\ window'.level = Level(k, now)
        /\ bucket' = bucket /\ clock' = now
    BY <1>0 DEF Watch
  <1>3. Level(k, now) \in 0..Cap(k) /\ Cap(k) \in Nat /\ R(k) \in Nat
    BY <1>1, LevelTyped, KeyShape
  <1>4. Due(window)' = Cap(k)
    <2>1. Cap(k) * (1 + 0) = Cap(k) /\ R(k) * 0 = 0
      BY <1>3
    <2> QED
      BY <1>2, <1>3, <2>1 DEF Due, Cap, R
  <1>5. Level(window.key, window.seen)' = Level(k, now) /\ Level(window.key, clock)' = Level(k, now)
    BY <1>2 DEF Level
  <1> QED
    BY <1>2, <1>3, <1>4, <1>5 DEF Covered, NothingLost

LEMMA AccountedStep == TypeOK /\ InTime /\ Accounted /\ [Next]_vars => Accounted'
  <1> SUFFICES ASSUME TypeOK, InTime, Accounted, [Next]_vars PROVE Accounted'
    OBVIOUS
  <1>0. Covered /\ NothingLost /\ WaitSuffices
    BY DEF Accounted
  <1>1. ASSUME NEW c \in Clients, NEW i \in Kinds, Send(c, i) PROVE Accounted'
    <2>1. bucket' = bucket /\ window' = window /\ clock' = clock
      BY <1>1 DEF Send
    <2>2. Covered' /\ NothingLost'
      BY <1>0, <2>1 DEF Covered, NothingLost, Retired, Due, Level
    <2>3. ASSUME NEW d \in Clients, client'[d].at = "denied"
          PROVE  client'[d] = client[d]
      BY <1>1, <2>3 DEF Send, TypeOK
    <2>4. WaitSuffices'
      BY <1>0, <2>1, <2>3 DEF WaitSuffices, Level
    <2> QED
      BY <2>2, <2>4 DEF Accounted
  <1>2. ASSUME NEW c \in Clients, Grant(c) PROVE Accounted'
    <2>0. PICK charged \in BOOLEAN : charged = TRUE
      OBVIOUS
    <2>1. /\ client[c].at = "script" /\ clock' = clock /\ bucket' = Written(c, charged)
          /\ charged => \A n \in Hints(c) : CanPay(c, n)
          /\ window' = IF Watched(Touched(c))
                       THEN Noted(client[c].stamp, IF charged THEN Cost(c, window.key) ELSE 0) ELSE window
      BY <1>2, <2>0 DEF Grant
    <2>2. Covered' /\ NothingLost'
      BY <1>0, <2>1, WriteAccounted
    <2>3. WaitSuffices'
      <3> SUFFICES ASSUME NEW d \in Clients, client'[d].at = "denied", Refill[client'[d].key[1]] > 0,
                          client'[d].cost <= Capacity[client'[d].key[1]]
                   PROVE  client'[d].cost <= Level(client[d].key, client[d].payable)'
        BY DEF WaitSuffices
      <3>1. client'[d] = client[d] /\ client[d].key \notin Touched(c)
        BY <1>2 DEF Grant, Idle
      <3> QED
        BY <1>0, <2>1, <3>1, WriteKeepsWait
    <2> QED
      BY <2>2, <2>3 DEF Accounted
  <1>3. ASSUME NEW c \in Clients, Deny(c) PROVE Accounted'
    <2>0. PICK charged \in BOOLEAN : charged = FALSE
      OBVIOUS
    <2>1. /\ client[c].at = "script" /\ clock' = clock /\ bucket' = Written(c, charged)
          /\ charged => \A n \in Hints(c) : CanPay(c, n)
          /\ window' = IF Watched(Touched(c))
                       THEN Noted(client[c].stamp, IF charged THEN Cost(c, window.key) ELSE 0) ELSE window
      BY <1>3, <2>0 DEF Deny
    <2>2. Covered' /\ NothingLost'
      BY <1>0, <2>1, WriteAccounted
    <2>3. PICK n \in Hints(c) : Blocking(c, n) /\ client' = [client EXCEPT ![c] = Denial(c, n)]
      BY <1>3 DEF Deny
    <2>4. WaitSuffices'
      <3> SUFFICES ASSUME NEW d \in Clients, client'[d].at = "denied", Refill[client'[d].key[1]] > 0,
                          client'[d].cost <= Capacity[client'[d].key[1]]
                   PROVE  client'[d].cost <= Level(client[d].key, client[d].payable)'
        BY DEF WaitSuffices
      <3>1. CASE d = c
        <4>1. client'[c] = Denial(c, n)
          BY <2>3 DEF TypeOK
        <4>2. bucket' = Written(c, FALSE)
          BY <1>3 DEF Deny
        <4> QED
          BY <2>1, <2>3, <3>1, <4>1, <4>2, DenialWaits
      <3>2. CASE d # c
        <4>1. client'[d] = client[d]
          BY <2>3, <3>2 DEF TypeOK
        <4> QED
          BY <1>0, <2>0, <2>1, <4>1, WriteKeepsWait
      <3> QED
        BY <3>1, <3>2
    <2> QED
      BY <2>2, <2>4 DEF Accounted
  <1>4. ASSUME NEW k \in Keys, Reset(k) PROVE Accounted'
    <2>1. Covered' /\ NothingLost'
      BY <1>0, <1>4, ResetAccounted
    <2>2. \A h \in Keys : bucket'[h] = bucket[h] \/ bucket'[h] = Missing
      BY <1>4 DEF Reset, TypeOK
    <2>3. WaitSuffices'
      BY <1>0, <1>4, <2>2, WaitKept DEF Reset
    <2> QED
      BY <2>1, <2>3 DEF Accounted
  <1>5. ASSUME NEW b \in Buckets, Watch(b) PROVE Accounted'
    <2>1. Covered' /\ NothingLost'
      BY <1>5, WatchAccounted
    <2>2. WaitSuffices'
      BY <1>0, <1>5, WaitKept DEF Watch
    <2> QED
      BY <2>1, <2>2 DEF Accounted
  <1>6. ASSUME Tick PROVE Accounted'
    <2>1. Covered' /\ NothingLost'
      BY <1>0, <1>6, TickAccounted
    <2>2. \A h \in Keys : bucket'[h] = bucket[h] \/ bucket'[h] = Missing
      BY <1>6 DEF Tick
    <2>3. WaitSuffices'
      BY <1>0, <1>6, <2>2, WaitKept DEF Tick
    <2> QED
      BY <2>1, <2>3 DEF Accounted
  <1>7. ASSUME UNCHANGED vars PROVE Accounted'
    BY <1>0, <1>7 DEF vars, Accounted, Covered, NothingLost, WaitSuffices, Retired, Due, Level
  <1> QED
    BY <1>1, <1>2, <1>3, <1>4, <1>5, <1>6, <1>7 DEF Next

(* The inductive invariant of the accounting theorems. *)
LEMMA RateInvariant == Spec => []RateInv
  <1>1. Init => RateInv
    BY TypeInit, InTimeInit, AccountedInit DEF RateInv
  <1>2. RateInv /\ [Next]_vars => RateInv'
    BY TypeStep, InTimeStep, AccountedStep DEF RateInv
  <1> QED
    BY <1>1, <1>2, PTL DEF Spec

(* A key never pays out more than its capacity, the refill of the time its   *)
(* callers' clocks ran, and a capacity for every reset.                      *)
THEOREM GrantsAreBounded == Spec => []GrantsBounded
  <1>1. RateInv => GrantsBounded
    BY DEF RateInv, Accounted, Covered, Due, GrantsBounded, Cap, R
  <1> QED
    BY <1>1, RateInvariant, PTL

(* Nothing but a grant costs a key tokens. *)
THEOREM NothingIsLost == Spec => []NothingLost
  <1>1. RateInv => NothingLost
    BY DEF RateInv, Accounted
  <1> QED
    BY <1>1, RateInvariant, PTL

(* The wait a denial reports is enough for the bucket it names. *)
THEOREM DenialsWaitEnough == Spec => []WaitSuffices
  <1>1. RateInv => WaitSuffices
    BY DEF RateInv, Accounted
  <1> QED
    BY <1>1, RateInvariant, PTL
-----------------------------------------------------------------------------
States == {AtRest} \cup {Waiting(j) : j \in Jobs} \cup Checks \cup Observations

CallOK == call \in [Calls -> States]

DueOK ==
  \A j \in DOMAIN due :
    /\ j \in Jobs \ running /\ j \notin due[j] /\ due[j] \subseteq DOMAIN due
    /\ \A i \in DOMAIN due \ {j} :
         (i \in due[j] /\ due[i] \subseteq due[j]) \/ (j \in due[i] /\ due[j] \subseteq due[i])

RunOK == running \subseteq Jobs /\ DueOK

LogOK == unlogged \in Seq(Rows) /\ log \in Seq(Rows)

ReplayOK ==
  /\ replay \in Replays \cup {NoReplay}
  /\ replay # NoReplay => replay.turn <= Len(replay.rows) /\ replay.part <= Len(RowAt(replay.rows, replay.turn))

SlipOK == slipped \in [Calls -> SUBSET Hubs] /\ \A c \in Calls : \A k \in slipped[c] : Shut(k)

CountOK ==
  /\ IsFiniteSet(Observing)
  /\ Len(unlogged) + Len(log) + Cardinality(Observing) + allowed.reports <= MaxReports

AllowedOK == allowed \in [reports : 0..MaxReports, replays : 0..MaxReplays, faults : 0..MaxFaults]

GateParted ==
  /\ mirror \in [Hubs -> Usages \cup {Unseen}]
  /\ RunOK /\ CallOK /\ LogOK /\ ReplayOK /\ SlipOK /\ CountOK /\ AllowedOK

LEMMA GateParts == GateTypeOK <=> GateParted
  BY DEF GateTypeOK, GateParted, RunOK, CallOK, DueOK, LogOK, ReplayOK, SlipOK, CountOK, AllowedOK, States
-----------------------------------------------------------------------------
LEMMA StateShape ==
  ASSUME NEW s \in States
  PROVE  /\ s.at = "idle" => s = AtRest
         /\ s.at = "calling" => s.of \in Jobs
         /\ s.at = "checking" => s \in Checks /\ s.of \in Meta /\ s.of \in Jobs
         /\ s.at = "observing" => s \in Observations /\ s.of \in Jobs
         /\ s.at \in {"idle", "calling", "checking", "observing"}
  BY DEF States, AtRest, Waiting, Checks, Observations, Jobs

LEMMA RestShape == AtRest \in States /\ AtRest.at = "idle"
  BY DEF States, AtRest

LEMMA WaitingShape == \A j \in Jobs : Waiting(j) \in States /\ Waiting(j).at = "calling"
  BY DEF States, Waiting

LEMMA HashShape == \A e \in Entries : Hash(e) \in Usages
  BY GateAssumption DEF Hash, Entries, Usages

LEMMA AgedShape == \A h \in Usages \cup {Unseen} : Aged(h) \in Usages \cup {Unseen}
  <1> SUFFICES ASSUME NEW h \in Usages, h # Unseen, h.age + 1 # Life
               PROVE  [h EXCEPT !.age = @ + 1] \in Usages
    BY DEF Aged
  <1>1. h.age \in 0..Life - 1
    BY DEF Usages
  <1>2. h.age + 1 \in 0..Life - 1
    BY <1>1, GateAssumption
  <1>3. QED
    BY <1>2 DEF Usages

LEMMA SeqWidens == \A S, T : S \subseteq T => Seq(S) \subseteq Seq(T)
  OBVIOUS

LEMMA Constants ==
  /\ Waits \subseteq Nat /\ 0 \in Waits /\ Life \in Nat \ {0}
  /\ App \in Hubs /\ \A j \in Meta : AssetOf[j] \in Hubs
  BY GateAssumption DEF Hubs

LEMMA EntriesOfShape ==
  ASSUME NEW r \in Reports
  PROVE  EntriesOf(r) \in Seq(Entries)
  <1>1. r.app \in Levels \cup {Absent} /\ r.assets \in Seq(AssetEntries)
    BY GateAssumption
  <1>2. AssetEntries \subseteq Entries
    BY DEF AssetEntries, Entries, Hubs
  <1>3. r.assets \in Seq(Entries)
    BY <1>1, <1>2, SeqWidens
  <1>4. AppPart(r) \in Seq(Entries)
    <2>1. CASE r.app = Absent
      BY <2>1 DEF AppPart
    <2>2. CASE r.app # Absent
      <3>1. [key |-> App, pct |-> r.app, wait |-> 0] \in Entries
        BY <1>1, <2>2, Constants DEF Entries
      <3>2. QED
        BY <2>2, <3>1 DEF AppPart
    <2>3. QED
      BY <2>1, <2>2
  <1>5. QED
    BY <1>3, <1>4 DEF EntriesOf

LEMMA FaultAllowed ==
  ASSUME AllowedOK, Fault
  PROVE  AllowedOK' /\ allowed'.reports = allowed.reports
  BY GateAssumption DEF AllowedOK, Fault

(* A step of one call. *)
LEMMA CallSet ==
  ASSUME CallOK, NEW c \in Calls, NEW s \in States, call' = [call EXCEPT ![c] = s]
  PROVE  /\ CallOK'
         /\ Observing' = IF s.at = "observing" THEN Observing \cup {c} ELSE Observing \ {c}
  <1>1. call' \in [Calls -> States] /\ \A d \in Calls : call'[d] = IF d = c THEN s ELSE call[d]
    BY DEF CallOK
  <1>2. Observing' = IF s.at = "observing" THEN Observing \cup {c} ELSE Observing \ {c}
    BY <1>1 DEF Observing
  <1>3. QED
    BY <1>1, <1>2 DEF CallOK

(* A run that ends leaves the rows that are due alone. *)
LEMMA RunEnds == ASSUME RunOK, running' \subseteq running, UNCHANGED due PROVE RunOK'
  BY DEF RunOK, DueOK

LEMMA SameCount ==
  ASSUME CountOK, UNCHANGED <<unlogged, log>>, Observing' = Observing, allowed'.reports = allowed.reports
  PROVE  CountOK'
  BY DEF CountOK

LEMMA Untouched ==
  /\ UNCHANGED mirror /\ SlipOK /\ UNCHANGED slipped => SlipOK'
  /\ UNCHANGED <<unlogged, log>> /\ LogOK => LogOK'
  /\ UNCHANGED replay /\ ReplayOK => ReplayOK'
  /\ UNCHANGED allowed /\ AllowedOK => AllowedOK'
  /\ UNCHANGED <<running, due>> /\ RunOK => RunOK'
  /\ UNCHANGED call /\ CallOK => CallOK' /\ Observing' = Observing
  BY DEF SlipOK, LogOK, ReplayOK, AllowedOK, RunOK, CallOK, DueOK, Observing, Shut

(* The keys that are forgotten are those that are open again. *)
LEMMA TrackedTyped ==
  ASSUME SlipOK, Tracked(mirror')
  PROVE  SlipOK'
  BY DEF SlipOK, Tracked, StillShut, Shut
-----------------------------------------------------------------------------
LEMMA FallDueTyped ==
  ASSUME GateParted, NEW j \in Jobs, FallDue(j)
  PROVE  GateParted'
  <1> USE DEF FallDue
  <1>1. /\ DOMAIN due' = DOMAIN due \cup {j} /\ due'[j] = DOMAIN due
        /\ \A i \in DOMAIN due : due'[i] = due[i]
    OBVIOUS
  <1>2. DueOK
    BY DEF GateParted, RunOK
  <1>3. DueOK'
    <2> SUFFICES ASSUME NEW x \in DOMAIN due'
                 PROVE  /\ x \in Jobs \ running /\ x \notin due'[x] /\ due'[x] \subseteq DOMAIN due'
                        /\ \A i \in DOMAIN due' \ {x} :
                             (i \in due'[x] /\ due'[i] \subseteq due'[x]) \/ (x \in due'[i] /\ due'[x] \subseteq due'[i])
      BY DEF DueOK
    <2> HIDE DEF FallDue
    <2>1. CASE x = j
      BY <1>1, <1>2, <2>1 DEF DueOK, FallDue
    <2>2. CASE x # j
      BY <1>1, <1>2, <2>2 DEF DueOK
    <2>3. QED
      BY <2>1, <2>2
  <1>4. QED
    BY <1>3, SameCount, Untouched DEF RunOK, GateParted

LEMMA EnqueueTyped ==
  ASSUME GateParted, Enqueue
  PROVE  GateParted'
  <1>1. RunOK
    BY DEF GateParted
  <1>2. Enqueued \subseteq DOMAIN due /\ DOMAIN due \subseteq Jobs
    BY <1>1 DEF Enqueued, Taken, RunOK, DueOK
  <1>3. /\ due' = [j \in DOMAIN due \ Enqueued |-> due[j] \ Enqueued]
        /\ running' = running \cup Enqueued
        /\ UNCHANGED <<mirror, call, unlogged, log, replay, slipped, allowed>>
    BY DEF Enqueue
  <1> HIDE DEF Enqueued
  <1>4. RunOK'
    <2>1. DOMAIN due' = DOMAIN due \ Enqueued /\ \A j \in DOMAIN due' : due'[j] = due[j] \ Enqueued /\ j \notin Enqueued
      BY <1>3
    <2>2. QED
      BY <1>1, <1>2, <1>3, <2>1 DEF RunOK, DueOK
  <1>5. QED
    BY <1>3, <1>4, SameCount, Untouched DEF GateParted

LEMMA EndsTyped ==
  ASSUME GateParted, NEW j \in Jobs, Ends(j)
  PROVE  GateParted'
  BY RunEnds, SameCount, Untouched DEF Ends, GateParted

(* What a step remembers of a call's check. *)
LEMMA SlipSet ==
  ASSUME SlipOK, UNCHANGED mirror, NEW c \in Calls, NEW K \in SUBSET Hubs, \A k \in K : Shut(k),
         slipped' = [slipped EXCEPT ![c] = K]
  PROVE  SlipOK'
  BY DEF SlipOK, Shut

LEMMA SlipForgot ==
  ASSUME SlipOK, UNCHANGED mirror, NEW c \in Calls, slipped' = [slipped EXCEPT ![c] = {}]
  PROVE  SlipOK'
  BY SlipSet

LEMMA StartsTyped ==
  ASSUME GateParted, NEW c \in Calls, NEW j \in Jobs, Starts(c, j), UNCHANGED mirror
  PROVE  CallOK' /\ SlipOK' /\ Observing' = Observing \ {c}
  <1>0. CallOK /\ SlipOK
    BY DEF GateParted
  <1>1. CASE j \in Meta
    <2> DEFINE s == [at |-> "checking", of |-> j, n |-> 1, late |-> 0]
    <2>1. s \in States /\ s.at = "checking"
      BY <1>1, GateAssumption DEF States, Checks
    <2>2. call' = [call EXCEPT ![c] = s] /\ slipped' = [slipped EXCEPT ![c] = StillShut({AssetOf[j], App}, mirror)]
      BY <1>1 DEF Starts
    <2> HIDE DEF s
    <2>3. CallOK' /\ Observing' = Observing \ {c}
      BY <1>0, <2>1, <2>2, CallSet
    <2>4. StillShut({AssetOf[j], App}, mirror) \in SUBSET Hubs /\ \A k \in StillShut({AssetOf[j], App}, mirror) : Shut(k)
      BY <1>1, GateAssumption DEF StillShut, Hubs, Shut
    <2>5. SlipOK'
      BY <1>0, <2>2, <2>4, SlipSet
    <2>6. QED
      BY <2>3, <2>5
  <1>2. CASE j \notin Meta
    <2>1. call' = [call EXCEPT ![c] = Waiting(j)] /\ UNCHANGED slipped
      BY <1>2 DEF Starts
    <2>2. QED
      BY <1>0, <2>1, WaitingShape, CallSet, Untouched
  <1>3. QED
    BY <1>1, <1>2

LEMMA LaunchTyped ==
  ASSUME GateParted, NEW c \in Calls, Launch(c)
  PROVE  GateParted'
  <1>1. PICK j \in running : Starts(c, j)
    BY DEF Launch
  <1>2. /\ call[c] = AtRest /\ j \in Jobs
        /\ UNCHANGED <<mirror, running, due, unlogged, log, replay, allowed>>
    BY DEF Launch, GateParted, RunOK
  <1>3. c \notin Observing
    BY <1>2 DEF Observing, AtRest
  <1>4. QED
    BY <1>1, <1>2, <1>3, StartsTyped, SameCount, Untouched DEF GateParted

LEMMA RestsTyped ==
  ASSUME GateParted, NEW c \in Calls, Rests(c), UNCHANGED <<mirror, due>>
  PROVE  RunOK' /\ CallOK' /\ SlipOK' /\ Observing' = Observing \ {c}
  <1>1. /\ call' = [call EXCEPT ![c] = AtRest] /\ slipped' = [slipped EXCEPT ![c] = {}]
        /\ running' \subseteq running
    BY DEF Rests
  <1>2. CallOK' /\ Observing' = Observing \ {c}
    BY <1>1, RestShape, CallSet DEF GateParted
  <1>3. SlipOK'
    BY <1>1, SlipForgot DEF GateParted
  <1>4. QED
    BY <1>1, <1>2, <1>3, RunEnds DEF GateParted

LEMMA GoesOnTyped ==
  ASSUME GateParted, NEW c \in Calls, call[c].of \in Jobs, GoesOn(c), UNCHANGED <<mirror, due>>
  PROVE  RunOK' /\ CallOK' /\ SlipOK' /\ Observing' = Observing \ {c}
  BY RestsTyped, StartsTyped, Untouched DEF GoesOn, GateParted

LEMMA BeginsTyped ==
  ASSUME GateParted, NEW c \in Calls, call[c].at = "checking", Begins(c), UNCHANGED <<mirror, due>>
  PROVE  RunOK' /\ CallOK' /\ SlipOK' /\ Observing' = Observing
  <1>1. call[c].of \in Jobs
    BY StateShape DEF GateParted, CallOK
  <1>2. /\ call' = [call EXCEPT ![c] = Waiting(call[c].of)] /\ slipped' = [slipped EXCEPT ![c] = {}]
        /\ UNCHANGED running
    BY DEF Begins
  <1>3. CallOK' /\ Observing' = Observing \ {c}
    BY <1>1, <1>2, WaitingShape, CallSet DEF GateParted
  <1>4. c \notin Observing
    BY DEF Observing
  <1>5. SlipOK'
    BY <1>2, SlipForgot DEF GateParted
  <1>6. QED
    BY <1>2, <1>3, <1>4, <1>5, Untouched DEF GateParted

LEMMA ReadTyped ==
  ASSUME GateParted, NEW c \in Calls, Read(c)
  PROVE  GateParted'
  <1>1. call[c].at = "checking" /\ call[c] \in Checks /\ Len(GateKeys(call[c].of)) = 2
    BY StateShape DEF Read, CallOK, GateKeys, GateParted
  <1>2. UNCHANGED <<mirror, due, unlogged, log, replay, allowed>>
    BY DEF Read
  <1>3. c \notin Observing
    BY <1>1 DEF Observing
  <1>4. CASE Rests(c)
    BY <1>2, <1>3, <1>4, RestsTyped, SameCount, Untouched DEF GateParted
  <1>5. CASE call[c].n < 2 /\ call' = [call EXCEPT ![c].n = @ + 1] /\ UNCHANGED <<running, slipped>>
    <2>1. [call[c] EXCEPT !.n = @ + 1] \in Checks
      BY <1>1, <1>5 DEF Checks
    <2>2. [call[c] EXCEPT !.n = @ + 1] \in States /\ [call[c] EXCEPT !.n = @ + 1].at = "checking"
      BY <2>1 DEF States, Checks
    <2>3. call' = [call EXCEPT ![c] = [call[c] EXCEPT !.n = @ + 1]]
      BY <1>5
    <2>4. CallOK' /\ Observing' = Observing \ {c}
      BY <2>2, <2>3, CallSet DEF GateParted
    <2>5. QED
      BY <1>2, <1>3, <1>5, <2>4, SameCount, Untouched DEF GateParted
  <1>6. CASE Begins(c)
    BY <1>1, <1>2, <1>6, BeginsTyped, SameCount, Untouched DEF GateParted
  <1>7. QED
    BY <1>1, <1>4, <1>5, <1>6 DEF Read

LEMMA ReadFailsTyped ==
  ASSUME GateParted, NEW c \in Calls, ReadFails(c)
  PROVE  GateParted'
  <1>1. call[c].at = "checking" /\ Begins(c) /\ Fault
    BY DEF ReadFails
  <1>2. UNCHANGED <<mirror, due, unlogged, log, replay>>
    BY DEF ReadFails
  <1>3. AllowedOK' /\ allowed'.reports = allowed.reports
    BY <1>1, FaultAllowed DEF GateParted
  <1>4. QED
    BY <1>1, <1>2, <1>3, BeginsTyped, SameCount, Untouched DEF GateParted
-----------------------------------------------------------------------------
LEMMA RowShape ==
  ASSUME NEW row \in Rows
  PROVE  Len(row) \in Nat \ {0} /\ \A m \in 1..Len(row) : row[m] \in Entries
  BY DEF Rows

LEMMA EntryShape == \A e \in Entries : e.key \in Hubs /\ e.pct \in Levels
  BY DEF Entries

LEMMA CountsNat ==
  ASSUME CountOK, LogOK, AllowedOK
  PROVE  /\ Cardinality(Observing) \in Nat /\ Len(unlogged) \in Nat
         /\ Len(log) \in Nat /\ allowed.reports \in Nat
  BY FS_CardinalityType, GateAssumption DEF CountOK, LogOK, AllowedOK

LEMMA ReportCounted ==
  ASSUME AllowedOK, allowed.reports > 0, allowed' = [allowed EXCEPT !.reports = @ - 1]
  PROVE  AllowedOK' /\ allowed'.reports = allowed.reports - 1 /\ allowed.reports \in Nat
  BY GateAssumption DEF AllowedOK

LEMMA AnswerTyped ==
  ASSUME GateParted, NEW c \in Calls, Answer(c)
  PROVE  GateParted'
  <1>1. call[c].at = "calling" /\ c \notin Observing /\ call[c].of \in Jobs
    BY StateShape DEF Answer, Observing, GateParted, CallOK
  <1>2. UNCHANGED <<mirror, due, unlogged, log, replay>>
    BY DEF Answer
  <1>3. ASSUME allowed.reports > 0, allowed' = [allowed EXCEPT !.reports = @ - 1], NEW r \in Reports,
               EntriesOf(r) # <<>>, UNCHANGED <<running, slipped>>,
               call' = [call EXCEPT ![c] = [at |-> "observing", of |-> call[c].of,
                                            todo |-> EntriesOf(r), row |-> EntriesOf(r)]]
        PROVE  GateParted'
    <2> DEFINE s == [at |-> "observing", of |-> call[c].of, todo |-> EntriesOf(r), row |-> EntriesOf(r)]
    <2>1. s \in States /\ s.at = "observing"
      BY <1>1, <1>3, EntriesOfShape DEF States, Observations, Rows
    <2>2. call' = [call EXCEPT ![c] = s]
      BY <1>3
    <2> HIDE DEF s
    <2>3. CallOK' /\ Observing' = Observing \cup {c}
      BY <2>1, <2>2, CallSet DEF GateParted
    <2>4. AllowedOK' /\ allowed'.reports = allowed.reports - 1 /\ allowed.reports \in Nat
      BY <1>3, ReportCounted DEF GateParted
    <2>5. CountOK'
      <3>1. IsFiniteSet(Observing \cup {c}) /\ Cardinality(Observing \cup {c}) = Cardinality(Observing) + 1
        BY <1>1, FS_AddElement DEF GateParted, CountOK
      <3>2. QED
        BY <1>2, <2>3, <2>4, <3>1, CountsNat, GateAssumption DEF GateParted, CountOK
    <2>6. RunOK' /\ SlipOK' /\ LogOK' /\ ReplayOK' /\ (mirror \in [Hubs -> Usages \cup {Unseen}])'
      BY <1>2, <1>3, Untouched DEF GateParted
    <2>7. QED
      BY <2>3, <2>4, <2>5, <2>6 DEF GateParted
  <1>4. CASE GoesOn(c) /\ UNCHANGED allowed
    BY <1>1, <1>2, <1>4, GoesOnTyped, SameCount, Untouched DEF GateParted
  <1>5. QED
    BY <1>3, <1>4 DEF Answer

LEMMA TodoShape ==
  ASSUME CallOK, NEW c \in Calls, call[c].at = "observing"
  PROVE  /\ call[c] \in Observations
         /\ call[c].todo # <<>> => Head(call[c].todo) \in Entries /\ Tail(call[c].todo) \in Seq(Entries)
  <1>1. call[c] \in Observations
    BY StateShape DEF CallOK
  <1>2. QED
    BY <1>1 DEF Observations

LEMMA TodoSet ==
  ASSUME CallOK, NEW c \in Calls, call[c] \in Observations, NEW todo \in Seq(Entries),
         call' = [call EXCEPT ![c].todo = todo]
  PROVE  CallOK' /\ Observing' = Observing
  <1> DEFINE s == [call[c] EXCEPT !.todo = todo]
  <1>1. s \in Observations
    BY DEF Observations
  <1>2. call' = [call EXCEPT ![c] = s]
    OBVIOUS
  <1> HIDE DEF s
  <1>3. s \in States /\ s.at = "observing"
    BY <1>1 DEF States, Observations
  <1>4. c \in Observing
    BY DEF Observations, Observing
  <1>5. CallOK' /\ Observing' = Observing \cup {c}
    BY <1>2, <1>3, CallSet
  <1>6. QED
    BY <1>4, <1>5

LEMMA MirrorWritten ==
  ASSUME mirror \in [Hubs -> Usages \cup {Unseen}], NEW e \in Entries, mirror' = [mirror EXCEPT ![e.key] = Hash(e)]
  PROVE  /\ mirror' \in [Hubs -> Usages \cup {Unseen}]
         /\ \A k \in Hubs : mirror'[k] = IF k = e.key THEN Hash(e) ELSE mirror[k]
         /\ e.key \in Hubs
  <1>1. Hash(e) \in Usages /\ e.key \in Hubs
    BY HashShape, EntryShape
  <1>2. QED
    BY <1>1

LEMMA ObserveTyped ==
  ASSUME GateParted, NEW c \in Calls, Observe(c)
  PROVE  GateParted'
  <1> DEFINE e == Head(call[c].todo)
  <1>1. e \in Entries /\ Tail(call[c].todo) \in Seq(Entries) /\ call[c] \in Observations
    BY TodoShape DEF Observe, GateParted
  <1>2. /\ mirror' = [mirror EXCEPT ![e.key] = Hash(e)]
        /\ replay' = IF replay = NoReplay THEN replay ELSE [replay EXCEPT !.live = @ \cup {e.key}]
        /\ call' = [call EXCEPT ![c].todo = Tail(call[c].todo)]
        /\ Tracked(mirror')
        /\ UNCHANGED <<running, due, unlogged, log, allowed>>
    BY DEF Observe, GateParted, CallOK
  <1> HIDE DEF e
  <1>3. CallOK' /\ Observing' = Observing
    BY <1>1, <1>2, TodoSet DEF GateParted
  <1>4. mirror' \in [Hubs -> Usages \cup {Unseen}] /\ e.key \in Hubs
    BY <1>1, <1>2, MirrorWritten DEF GateParted
  <1>5. ReplayOK'
    BY <1>2, <1>4 DEF GateParted, ReplayOK, Replays, RowAt, NoReplay
  <1>6. QED
    BY <1>2, <1>3, <1>4, <1>5, SameCount, TrackedTyped, Untouched DEF GateParted

LEMMA ObserveFailsTyped ==
  ASSUME GateParted, NEW c \in Calls, ObserveFails(c)
  PROVE  GateParted'
  <1>1. /\ Fault /\ call' = [call EXCEPT ![c].todo = <<>>]
        /\ UNCHANGED <<mirror, running, due, unlogged, log, replay, slipped>>
    BY DEF ObserveFails
  <1>2. call[c] \in Observations /\ <<>> \in Seq(Entries)
    BY TodoShape DEF ObserveFails, GateParted
  <1>3. CallOK' /\ Observing' = Observing
    BY <1>1, <1>2, TodoSet DEF GateParted
  <1>4. AllowedOK' /\ allowed'.reports = allowed.reports
    BY <1>1, FaultAllowed DEF GateParted
  <1>5. QED
    BY <1>1, <1>3, <1>4, SameCount, Untouched DEF GateParted

LEMMA ObservedTyped ==
  ASSUME GateParted, NEW c \in Calls, Observed(c)
  PROVE  GateParted'
  <1>1. /\ call[c].at = "observing" /\ c \in Observing /\ call[c].of \in Jobs /\ call[c].row \in Rows
    BY StateShape, TodoShape DEF Observed, GateParted, CallOK, Observing, Observations
  <1>2. /\ GoesOn(c) /\ unlogged' = Append(unlogged, call[c].row)
        /\ UNCHANGED <<mirror, due, log, replay, allowed>>
    BY DEF Observed
  <1>3. RunOK' /\ CallOK' /\ SlipOK' /\ Observing' = Observing \ {c}
    BY <1>1, <1>2, GoesOnTyped
  <1>4. LogOK' /\ Len(unlogged') = Len(unlogged) + 1
    BY <1>1, <1>2 DEF GateParted, LogOK
  <1>5. CountOK'
    <2>1. IsFiniteSet(Observing \ {c}) /\ Cardinality(Observing \ {c}) = Cardinality(Observing) - 1
      BY <1>1, FS_RemoveElement DEF GateParted, CountOK
    <2>2. QED
      BY <1>2, <1>3, <1>4, <2>1, CountsNat, GateAssumption DEF GateParted, CountOK
  <1>6. QED
    BY <1>2, <1>3, <1>4, <1>5, Untouched DEF GateParted

LEMMA WithoutShape ==
  ASSUME NEW s \in Seq(Rows), NEW n \in DOMAIN s
  PROVE  Without(s, n) \in Seq(Rows) /\ Len(Without(s, n)) = Len(s) - 1
  <1>1. Len(s) - 1 \in Nat
    OBVIOUS
  <1>2. \A i \in 1..Len(s) - 1 : (IF i < n THEN s[i] ELSE s[i + 1]) \in Rows
    OBVIOUS
  <1>3. QED
    BY <1>1, <1>2 DEF Without

(* A row leaves the ones still being inserted. *)
LEMMA RowGone ==
  ASSUME GateParted, NEW n \in DOMAIN unlogged, unlogged' = Without(unlogged, n),
         UNCHANGED <<mirror, running, call, due, replay, slipped>>, allowed'.reports = allowed.reports, AllowedOK',
         log' = log \/ log' = Append(log, unlogged[n])
  PROVE  GateParted'
  <1>1. unlogged \in Seq(Rows) /\ log \in Seq(Rows) /\ unlogged[n] \in Rows
    BY DEF GateParted, LogOK
  <1>2. unlogged' \in Seq(Rows) /\ Len(unlogged') = Len(unlogged) - 1
    BY <1>1, WithoutShape
  <1>3. LogOK' /\ (Len(log') = Len(log) \/ Len(log') = Len(log) + 1)
    <2>1. Append(log, unlogged[n]) \in Seq(Rows) /\ Len(Append(log, unlogged[n])) = Len(log) + 1
      BY <1>1
    <2>2. QED
      BY <1>1, <1>2, <2>1 DEF LogOK
  <1>4. Observing' = Observing
    BY Untouched DEF GateParted
  <1>5. CountOK'
    BY <1>2, <1>3, <1>4, CountsNat, GateAssumption DEF GateParted, CountOK
  <1>6. QED
    BY <1>3, <1>5, Untouched DEF GateParted

LEMMA LoggedTyped ==
  ASSUME GateParted, Logged \/ LogLost
  PROVE  GateParted'
  <1>1. CASE Logged
    BY <1>1, RowGone DEF Logged, GateParted, AllowedOK
  <1>2. CASE LogLost
    BY <1>2, RowGone, FaultAllowed DEF LogLost, GateParted
  <1>3. QED
    BY <1>1, <1>2
-----------------------------------------------------------------------------
LEMMA ReplayShape ==
  ASSUME ReplayOK, replay # NoReplay
  PROVE  /\ replay \in Replays /\ replay.rows \in Seq(Rows)
         /\ replay.turn \in 1..Len(replay.rows) /\ Turn = replay.rows[replay.turn] /\ Turn \in Rows
         /\ Len(Turn) \in Nat \ {0} /\ replay.part \in 1..Len(Turn)
         /\ \A m \in 1..Len(Turn) : Turn[m] \in Entries
  <1>1. replay \in Replays
    BY DEF ReplayOK
  <1>2. replay.rows \in Seq(Rows) /\ replay.turn \in 1..Len(replay.rows) /\ replay.part \in Nat \ {0}
    BY <1>1 DEF ReplayOK, Replays
  <1>3. Turn = replay.rows[replay.turn] /\ Turn \in Rows
    BY <1>2 DEF Turn, RowAt
  <1>4. replay.part <= Len(Turn)
    BY DEF ReplayOK, Turn
  <1>5. QED
    BY <1>1, <1>2, <1>3, <1>4, RowShape

LEMMA NextRowShape ==
  ASSUME ReplayOK, replay # NoReplay
  PROVE  \/ NextRow = NoReplay /\ replay.turn = Len(replay.rows)
         \/ /\ NextRow \in Replays /\ NextRow.rows = replay.rows /\ NextRow.live = replay.live
            /\ NextRow.turn = replay.turn + 1 /\ replay.turn + 1 <= Len(replay.rows)
            /\ NextRow.part = 1 /\ replay.turn # Len(replay.rows)
            /\ 1 <= Len(RowAt(replay.rows, replay.turn + 1))
  <1>1. CASE replay.turn = Len(replay.rows)
    BY <1>1 DEF NextRow
  <1>2. CASE replay.turn # Len(replay.rows)
    <2>1. replay.turn + 1 \in 1..Len(replay.rows)
      BY <1>2, ReplayShape
    <2>2. replay.rows[replay.turn + 1] \in Rows
      BY <2>1, ReplayShape
    <2>3. NextRow = [replay EXCEPT !.turn = @ + 1, !.part = 1]
      BY <1>2 DEF NextRow
    <2>4. replay \in Replays
      BY ReplayShape
    <2>5. /\ NextRow \in Replays /\ NextRow.rows = replay.rows /\ NextRow.live = replay.live
          /\ NextRow.turn = replay.turn + 1 /\ NextRow.part = 1
      <3> DEFINE moved == [replay EXCEPT !.turn = replay.turn + 1]
      <3>1. replay.turn + 1 \in Nat \ {0}
        BY <2>1
      <3>2. /\ moved \in Replays /\ moved.rows = replay.rows /\ moved.live = replay.live
            /\ moved.turn = replay.turn + 1
        BY <2>4, <3>1 DEF Replays
      <3>3. NextRow = [moved EXCEPT !.part = 1]
        BY <2>3, <2>4 DEF Replays
      <3> HIDE DEF moved
      <3>4. QED
        BY <3>2, <3>3 DEF Replays
    <2>6. 1 <= Len(RowAt(replay.rows, replay.turn + 1)) /\ replay.turn + 1 <= Len(replay.rows)
      BY <2>1, <2>2, RowShape DEF RowAt
    <2>7. QED
      BY <1>2, <2>5, <2>6
  <1>3. QED
    BY <1>1, <1>2

LEMMA ReplayTyped ==
  ASSUME GateParted, Replay
  PROVE  GateParted'
  <1>1. /\ UNCHANGED <<mirror, running, call, due, unlogged, log, slipped>>
        /\ allowed.replays > 0 /\ allowed' = [allowed EXCEPT !.replays = @ - 1]
    BY DEF Replay
  <1>2. PICK n \in DOMAIN log :
          replay' = [rows |-> SubSeq(log, n, Len(log)), turn |-> 1, part |-> 1, live |-> {}]
    BY DEF Replay
  <1>3. log \in Seq(Rows) /\ n \in 1..Len(log)
    BY DEF GateParted, LogOK
  <1> DEFINE rows == SubSeq(log, n, Len(log))
  <1>4. rows \in Seq(Rows) /\ Len(rows) \in Nat \ {0} /\ rows[1] \in Rows
    BY <1>3
  <1>5. replay' = [rows |-> rows, turn |-> 1, part |-> 1, live |-> {}]
    BY <1>2
  <1> HIDE DEF rows
  <1>6. ReplayOK'
    BY <1>4, <1>5, RowShape DEF ReplayOK, Replays, RowAt
  <1>7. AllowedOK' /\ allowed'.reports = allowed.reports
    BY <1>1, GateAssumption DEF GateParted, AllowedOK
  <1>8. QED
    BY <1>1, <1>6, <1>7, SameCount, Untouched DEF GateParted

LEMMA ReplayWritesTyped ==
  ASSUME GateParted, ReplayWrites
  PROVE  GateParted'
  <1> DEFINE e == Turn[replay.part]
  <1>1. replay # NoReplay /\ ReplayOK
    BY DEF ReplayWrites, GateParted
  <1>2. e \in Entries
    BY <1>1, ReplayShape
  <1>3. /\ mirror' = [mirror EXCEPT ![e.key] = Hash(e)] /\ Tracked(mirror')
        /\ replay' = IF replay.part < Len(Turn) THEN [replay EXCEPT !.part = @ + 1] ELSE NextRow
        /\ UNCHANGED <<running, call, due, unlogged, log, allowed>>
    BY DEF ReplayWrites
  <1> HIDE DEF e
  <1>4. mirror' \in [Hubs -> Usages \cup {Unseen}]
    BY <1>2, <1>3, MirrorWritten DEF GateParted
  <1>5. ReplayOK'
    <2>1. CASE replay.part < Len(Turn)
      <3>1. replay \in Replays /\ Len(Turn) \in Nat /\ replay.part \in Nat \ {0}
        BY <1>1, ReplayShape
      <3>2. replay' = [replay EXCEPT !.part = @ + 1]
        BY <1>3, <2>1
      <3>3. /\ replay' \in Replays /\ replay'.part = replay.part + 1
            /\ replay'.rows = replay.rows /\ replay'.turn = replay.turn
        BY <3>1, <3>2 DEF Replays
      <3>4. replay.turn <= Len(replay.rows) /\ replay.part + 1 <= Len(RowAt(replay.rows, replay.turn))
        BY <1>1, <2>1, <3>1 DEF ReplayOK, Turn
      <3>5. QED
        BY <3>3, <3>4 DEF ReplayOK, RowAt
    <2>2. CASE ~(replay.part < Len(Turn))
      BY <1>1, <1>3, <2>2, NextRowShape DEF ReplayOK
    <2>3. QED
      BY <2>1, <2>2
  <1>6. QED
    BY <1>3, <1>4, <1>5, SameCount, TrackedTyped, Untouched DEF GateParted

LEMMA ReplayFailsTyped ==
  ASSUME GateParted, ReplayFails
  PROVE  GateParted'
  <1> DEFINE dropped == {Turn[i].key : i \in replay.part..Len(Turn)}
  <1>1. replay # NoReplay /\ ReplayOK /\ Fault
    BY DEF ReplayFails, GateParted
  <1>2. /\ replay' = IF NextRow = NoReplay THEN NoReplay ELSE [NextRow EXCEPT !.live = @ \cup dropped]
        /\ UNCHANGED <<mirror, running, call, due, unlogged, log, slipped>>
    BY DEF ReplayFails
  <1>3. dropped \subseteq Hubs
    BY <1>1, ReplayShape, EntryShape
  <1> HIDE DEF dropped
  <1>4. ReplayOK'
    <2>1. CASE NextRow = NoReplay
      BY <1>2, <2>1 DEF ReplayOK
    <2>2. CASE NextRow # NoReplay
      BY <1>1, <1>2, <1>3, <2>2, NextRowShape DEF ReplayOK, Replays
    <2>3. QED
      BY <2>1, <2>2
  <1>5. AllowedOK' /\ allowed'.reports = allowed.reports
    BY <1>1, FaultAllowed DEF GateParted
  <1>6. QED
    BY <1>2, <1>4, <1>5, SameCount, Untouched DEF GateParted
-----------------------------------------------------------------------------
LEMMA AgesTyped ==
  ASSUME GateParted, Ages
  PROVE  GateParted'
  <1> DEFINE older(c) == IF call[c].at = "checking" /\ call[c].late < Life - 1
                         THEN [call[c] EXCEPT !.late = @ + 1] ELSE call[c]
  <1>1. /\ mirror' = [k \in Hubs |-> Aged(mirror[k])]
        /\ call' = [c \in Calls |-> older(c)]
        /\ Tracked(mirror')
        /\ UNCHANGED <<running, due, unlogged, log, replay, allowed>>
    BY DEF Ages
  <1>2. mirror' \in [Hubs -> Usages \cup {Unseen}]
    BY <1>1, AgedShape DEF GateParted
  <1>3. ASSUME NEW c \in Calls
        PROVE  older(c) \in States /\ older(c).at = call[c].at
    <2>1. call[c] \in States
      BY DEF GateParted, CallOK
    <2>2. CASE call[c].at = "checking" /\ call[c].late < Life - 1
      <3>1. call[c] \in Checks
        BY <2>1, <2>2, StateShape
      <3>2. [call[c] EXCEPT !.late = @ + 1] \in Checks
        BY <2>2, <3>1, GateAssumption DEF Checks
      <3>3. QED
        BY <2>2, <3>1, <3>2 DEF States, Checks
    <2>3. CASE ~(call[c].at = "checking" /\ call[c].late < Life - 1)
      BY <2>1, <2>3
    <2>4. QED
      BY <2>2, <2>3
  <1> HIDE DEF older
  <1>4. CallOK' /\ Observing' = Observing
    <2>1. \A c \in Calls : call'[c] = older(c)
      BY <1>1
    <2>2. CallOK'
      BY <1>1, <1>3 DEF CallOK
    <2>3. Observing' = Observing
      BY <1>3, <2>1 DEF Observing
    <2>4. QED
      BY <2>2, <2>3
  <1>5. QED
    BY <1>1, <1>2, <1>4, SameCount, TrackedTyped, Untouched DEF GateParted

LEMMA GateInitTyped == GateInit => GateParted
  <1> SUFFICES ASSUME GateInit PROVE GateParted
    OBVIOUS
  <1>1. mirror \in [Hubs -> Usages \cup {Unseen}] /\ RunOK /\ CallOK
    BY RestShape DEF GateInit, RunOK, DueOK, CallOK
  <1>2. LogOK /\ ReplayOK /\ SlipOK /\ AllowedOK
    BY GateAssumption DEF GateInit, LogOK, ReplayOK, SlipOK, AllowedOK
  <1>3. Observing = {}
    BY DEF GateInit, Observing, AtRest
  <1>4. CountOK
    BY <1>3, FS_EmptySet, GateAssumption DEF GateInit, CountOK
  <1>5. QED
    BY <1>1, <1>2, <1>4 DEF GateParted

LEMMA GateStepTyped == GateParted /\ [GateNext]_gateVars => GateParted'
  <1> SUFFICES ASSUME GateParted, [GateNext]_gateVars PROVE GateParted'
    OBVIOUS
  <1>1. ASSUME NEW j \in Jobs, FallDue(j) \/ Ends(j) PROVE GateParted'
    BY <1>1, FallDueTyped, EndsTyped
  <1>2. ASSUME NEW c \in Calls, Launch(c) \/ Call(c) \/ Faulty(c) PROVE GateParted'
    BY <1>2, LaunchTyped, ReadTyped, AnswerTyped, ObserveTyped, ObservedTyped, ReadFailsTyped, ObserveFailsTyped
       DEF Call, Faulty
  <1>3. CASE Enqueue \/ Logged \/ LogLost \/ Replay \/ ReplayWrites \/ ReplayFails \/ Ages
    BY <1>3, EnqueueTyped, LoggedTyped, ReplayTyped, ReplayWritesTyped, ReplayFailsTyped, AgesTyped
  <1>4. CASE UNCHANGED gateVars
    BY <1>4, SameCount, Untouched DEF gateVars, GateParted
  <1>5. QED
    BY <1>1, <1>2, <1>3, <1>4 DEF GateNext

(* The types of the mirror, the calls, the log and the replay; a due job is   *)
(* not running and due once; a response is logged once; and a key is          *)
(* remembered as shut only while it is: for all jobs, numbers of calls,       *)
(* assets, reports and bounds.                                                *)
THEOREM GateTyped == GateSpec => []GateTypeOK
  <1>1. GateSpec => []GateParted
    BY GateInitTyped, GateStepTyped, PTL DEF GateSpec
  <1>2. QED
    BY <1>1, GateParts, PTL
-----------------------------------------------------------------------------
(* A check that a key lets through, at an earlier clock, finds it open now. *)
LEMMA PassedOpen ==
  ASSUME GateParted, NEW c \in Calls, call[c].at = "checking", ~Denied(c)
  PROVE  /\ call[c].n = 1 => ~Shut(AssetOf[call[c].of])
         /\ call[c].n = 2 => ~Shut(App)
         /\ call[c].n \in {1, 2}
  <1> DEFINE j == call[c].of
  <1>1. call[c] \in Checks /\ j \in Meta
    BY StateShape DEF GateParted, CallOK
  <1>2. call[c].n \in {1, 2} /\ call[c].late \in Nat
    BY <1>1, GateAssumption DEF Checks
  <1>3. GateKeys(j)[1] = AssetOf[j] /\ GateKeys(j)[2] = App /\ AssetOf[j] \in Hubs /\ App \in Hubs
    BY <1>1, GateAssumption DEF GateKeys, Hubs
  <1>4. ASSUME NEW k \in Hubs, ~Closes(mirror[k], call[c].late) PROVE ~Shut(k)
    <2>1. CASE mirror[k] = Unseen
      BY <2>1 DEF Shut, Closes
    <2>2. CASE mirror[k] # Unseen
      <3>1. mirror[k] \in Usages
        BY <2>2 DEF GateParted
      <3>2. mirror[k].wait \in Nat /\ mirror[k].age \in Nat
        <4>1. mirror[k].wait \in Waits /\ mirror[k].age \in 0..Life - 1
          BY <3>1 DEF Usages
        <4>2. mirror[k].wait \in Nat
          BY <4>1, Constants, Zenon
        <4>3. Life \in Nat
          BY Constants
        <4>4. mirror[k].age \in Nat
          BY <4>1, <4>3
        <4>5. QED
          BY <4>2, <4>4
      <3>3. ~WaitsFor(mirror[k], call[c].late) /\ ~(mirror[k].pct >= Busy)
        BY <1>4, <2>2 DEF Closes
      <3>4. ~WaitsFor(mirror[k], 0)
        BY <1>2, <3>2, <3>3 DEF WaitsFor
      <3>5. QED
        BY <3>3, <3>4 DEF Shut, Closes
    <2>3. QED
      BY <2>1, <2>2
  <1>5. QED
    BY <1>2, <1>3, <1>4 DEF Denied

LEMMA FaultCounts == ASSUME AllowedOK, Fault PROVE allowed' # allowed
  <1>1. allowed.faults \in Nat /\ allowed'.faults = allowed.faults - 1
    BY GateAssumption DEF AllowedOK, Fault
  <1>2. QED
    BY <1>1

LEMMA TrackedShrinks == ASSUME Tracked(mirror'), NEW c \in Calls PROVE slipped'[c] \subseteq slipped[c]
  BY DEF Tracked, StillShut

(* What is remembered of a check: its keys that are shut, without those it    *)
(* has already found open.                                                    *)
Passed ==
  \A c \in Calls : call[c].at = "checking" =>
    slipped[c] \subseteq IF call[c].n = 1 THEN {AssetOf[call[c].of], App} ELSE {App}

(* A step that leaves the check of c where it is. *)
SameCheck(c) ==
  /\ slipped'[c] \subseteq slipped[c] /\ call'[c].at = call[c].at
  /\ call[c].at = "checking" => call'[c].n = call[c].n /\ call'[c].of = call[c].of

(* What one step may do to the check of c. *)
CheckStep(c) ==
  \/ SameCheck(c)
  \/ /\ call'[c].at = "checking" /\ call'[c].n = 1 /\ call[c].at # "checking"
     /\ slipped'[c] \subseteq {AssetOf[call'[c].of], App}
  \/ /\ call[c].at = "checking" /\ call[c].n = 1 /\ ~Denied(c)
     /\ call'[c].at = "checking" /\ call'[c].n = 2 /\ call'[c].of = call[c].of /\ slipped'[c] = slipped[c]
  \/ call[c].at = "checking" /\ call[c].n = 2 /\ ~Denied(c)
     /\ call'[c].at = "calling"
  \/ call'[c].at # "checking" /\ (allowed' # allowed \/ call'[c].at # "calling" \/ call[c].at # "checking")

LEMMA Untold ==
  ASSUME NEW c \in Calls, call'[c] = call[c], slipped'[c] \subseteq slipped[c]
  PROVE  CheckStep(c)
  BY DEF CheckStep, SameCheck

LEMMA StartsCheck ==
  ASSUME GateParted, NEW c \in Calls, NEW j \in Jobs, Starts(c, j), call[c].at # "checking"
  PROVE  CheckStep(c)
  <1>1. call \in [Calls -> States] /\ slipped \in [Calls -> SUBSET Hubs]
    BY DEF GateParted, CallOK, SlipOK
  <1>2. CASE j \in Meta
    <2>1. /\ call'[c] = [at |-> "checking", of |-> j, n |-> 1, late |-> 0]
          /\ slipped'[c] \subseteq {AssetOf[j], App}
      BY <1>1, <1>2 DEF Starts, StillShut
    <2>2. QED
      BY <2>1 DEF CheckStep
  <1>3. CASE j \notin Meta
    <2>1. call'[c] = Waiting(j)
      BY <1>1, <1>3 DEF Starts
    <2>2. QED
      BY <2>1, WaitingShape DEF CheckStep
  <1>4. QED
    BY <1>2, <1>3

LEMMA RestsCheck ==
  ASSUME GateParted, NEW c \in Calls, Rests(c)
  PROVE  CheckStep(c)
  <1>1. call'[c] = AtRest
    BY DEF Rests, GateParted, CallOK
  <1>2. QED
    BY <1>1, RestShape DEF CheckStep

LEMMA ReadCheck ==
  ASSUME GateParted, NEW c \in Calls, Read(c) \/ ReadFails(c)
  PROVE  CheckStep(c)
  <1>1. call \in [Calls -> States] /\ call[c].at = "checking" /\ Len(GateKeys(call[c].of)) = 2
    BY DEF GateParted, CallOK, Read, ReadFails, GateKeys
  <1>2. call[c] \in Checks /\ call[c].of \in Jobs
    BY <1>1, StateShape
  <1>3. CASE Rests(c)
    BY <1>3, RestsCheck
  <1>4. CASE ~Denied(c) /\ call[c].n < 2 /\ call' = [call EXCEPT ![c].n = @ + 1] /\ UNCHANGED <<running, slipped>>
    <2>1. call'[c] = [call[c] EXCEPT !.n = @ + 1]
      BY <1>1, <1>4
    <2>2. call[c].n = 1 /\ call'[c].at = "checking" /\ call'[c].n = 2 /\ call'[c].of = call[c].of
      BY <1>2, <1>4, <2>1 DEF Checks
    <2>3. QED
      BY <1>1, <1>4, <2>2 DEF CheckStep
  <1>5. CASE Begins(c) /\ (ReadFails(c) \/ (~Denied(c) /\ call[c].n = 2))
    <2>1. call'[c].at = "calling"
      BY <1>1, <1>2, <1>5, WaitingShape DEF Begins
    <2>2. ReadFails(c) => allowed' # allowed
      BY FaultCounts DEF ReadFails, GateParted
    <2>3. QED
      BY <1>1, <1>5, <2>1, <2>2 DEF CheckStep
  <1>6. QED
    BY <1>1, <1>3, <1>4, <1>5 DEF Read, ReadFails

(* A step of another call. *)
LEMMA OtherCall ==
  ASSUME GateParted, NEW c \in Calls, NEW d \in Calls \ {c},
         Launch(d) \/ Read(d) \/ ReadFails(d) \/ Answer(d) \/ Observed(d) \/ Observe(d) \/ ObserveFails(d)
  PROVE  CheckStep(c)
  <1>1. call \in [Calls -> States] /\ slipped \in [Calls -> SUBSET Hubs]
    BY DEF GateParted, CallOK, SlipOK
  <1>2. ASSUME NEW j, Starts(d, j) PROVE call'[c] = call[c] /\ slipped'[c] = slipped[c]
    BY <1>1, <1>2 DEF Starts
  <1>3. ASSUME Rests(d) \/ Begins(d) PROVE call'[c] = call[c] /\ slipped'[c] = slipped[c]
    BY <1>1, <1>3 DEF Rests, Begins
  <1>4. ASSUME GoesOn(d) PROVE call'[c] = call[c] /\ slipped'[c] = slipped[c]
    BY <1>2, <1>3, <1>4 DEF GoesOn
  <1>5. CASE Launch(d)
    BY <1>2, <1>5, Untold DEF Launch
  <1>6. CASE Read(d) \/ ReadFails(d)
    BY <1>1, <1>3, <1>6, Untold DEF Read, ReadFails
  <1>7. CASE Answer(d) \/ Observed(d)
    BY <1>1, <1>4, <1>7, Untold DEF Answer, Observed
  <1>8. CASE Observe(d) \/ ObserveFails(d)
    BY <1>1, <1>8, TrackedShrinks, Untold DEF Observe, ObserveFails
  <1>9. QED
    BY <1>5, <1>6, <1>7, <1>8

LEMMA OwnCall ==
  ASSUME GateParted, NEW c \in Calls,
         Launch(c) \/ Read(c) \/ ReadFails(c) \/ Answer(c) \/ Observed(c) \/ Observe(c) \/ ObserveFails(c)
  PROVE  CheckStep(c)
  <1>1. call \in [Calls -> States] /\ call[c] \in States /\ running \subseteq Jobs
    BY DEF GateParted, CallOK, RunOK
  <1>2. CASE Launch(c)
    <2>1. PICK j \in running : Starts(c, j)
      BY <1>2 DEF Launch
    <2>2. call[c].at # "checking" /\ j \in Jobs
      BY <1>1, <1>2, RestShape DEF Launch
    <2>3. QED
      BY <2>1, <2>2, StartsCheck
  <1>3. CASE Read(c) \/ ReadFails(c)
    BY <1>3, ReadCheck
  <1>4. ASSUME GoesOn(c), call[c].at \in {"calling", "observing"} PROVE CheckStep(c)
    <2>1. call[c].of \in Jobs /\ call[c].at # "checking"
      BY <1>1, <1>4, StateShape
    <2>2. QED
      BY <1>4, <2>1, RestsCheck, StartsCheck DEF GoesOn
  <1>5. CASE Answer(c)
    <2>1. call[c].at = "calling"
      BY <1>5 DEF Answer
    <2>2. CASE GoesOn(c)
      BY <1>4, <2>1, <2>2
    <2>3. CASE \E r \in Reports : call' = [call EXCEPT ![c] = [at |-> "observing", of |-> call[c].of,
                                                               todo |-> EntriesOf(r), row |-> EntriesOf(r)]]
      <3>1. call'[c].at = "observing"
        BY <1>1, <2>3
      <3>2. QED
        BY <3>1 DEF CheckStep
    <2>4. QED
      BY <1>5, <2>2, <2>3 DEF Answer
  <1>6. CASE Observed(c)
    BY <1>4, <1>6 DEF Observed
  <1>7. CASE Observe(c) \/ ObserveFails(c)
    <2>1. call[c].at = "observing" /\ call[c] \in Observations
      BY <1>7, StateShape, <1>1 DEF Observe, ObserveFails
    <2>2. call'[c].at = "observing"
      BY <1>1, <1>7, <2>1 DEF Observe, ObserveFails, Observations
    <2>3. QED
      BY <2>2 DEF CheckStep
  <1>8. QED
    BY <1>2, <1>3, <1>5, <1>6, <1>7

LEMMA StepChecks ==
  ASSUME GateParted, [GateNext]_gateVars, NEW c \in Calls
  PROVE  CheckStep(c)
  <1>1. ASSUME NEW d \in Calls, Launch(d) \/ Call(d) \/ Faulty(d) PROVE CheckStep(c)
    <2>1. Launch(d) \/ Read(d) \/ ReadFails(d) \/ Answer(d) \/ Observed(d) \/ Observe(d) \/ ObserveFails(d)
      BY <1>1 DEF Call, Faulty
    <2>2. QED
      BY <2>1, OwnCall, OtherCall
  <1>2. CASE Ages
    <2>1. slipped'[c] \subseteq slipped[c] /\ call[c] \in States
      BY <1>2, TrackedShrinks DEF Ages, GateParted, CallOK
    <2>2. CASE call[c].at = "checking" /\ call[c].late < Life - 1
      <3>1. call[c] \in Checks /\ call'[c] = [call[c] EXCEPT !.late = @ + 1]
        BY <1>2, <2>1, <2>2, StateShape DEF Ages
      <3>2. call'[c].at = "checking" /\ call'[c].n = call[c].n /\ call'[c].of = call[c].of
        BY <3>1 DEF Checks
      <3>3. QED
        BY <2>1, <2>2, <3>2 DEF CheckStep, SameCheck
    <2>3. CASE ~(call[c].at = "checking" /\ call[c].late < Life - 1)
      BY <1>2, <2>1, <2>3, Untold DEF Ages
    <2>4. QED
      BY <2>2, <2>3
  <1>3. CASE ReplayWrites
    BY <1>3, TrackedShrinks, Untold DEF ReplayWrites
  <1>4. CASE UNCHANGED <<call, slipped>>
    BY <1>4, Untold
  <1>5. ASSUME NEW j \in Jobs, FallDue(j) \/ Ends(j) PROVE CheckStep(c)
    BY <1>4, <1>5 DEF FallDue, Ends
  <1>6. CASE Enqueue \/ Logged \/ LogLost \/ Replay \/ ReplayFails \/ UNCHANGED gateVars
    BY <1>4, <1>6 DEF Enqueue, Logged, LogLost, Replay, ReplayFails, gateVars
  <1>7. QED
    BY <1>1, <1>2, <1>3, <1>5, <1>6 DEF GateNext

(* However the reads of the checks interleave with observations and with one  *)
(* another, no call begins that had a key of its own shut throughout its      *)
(* check, unless a read failed: for any number of jobs, of calls in flight at *)
(* once and of assets.  A job overshoots by the calls whose checks are under  *)
(* way when a key shuts.                                                      *)
THEOREM Overshoot == GateSpec => OnlyChecksUnderWay
  <1>1. GateInit => Passed
    BY RestShape DEF GateInit, Passed
  <1>2. ASSUME GateParted, Passed, [GateNext]_gateVars PROVE Passed'
    <2> SUFFICES ASSUME NEW c \in Calls, call'[c].at = "checking"
                 PROVE  slipped'[c] \subseteq IF call'[c].n = 1 THEN {AssetOf[call'[c].of], App} ELSE {App}
      BY DEF Passed
    <2>1. CheckStep(c)
      BY <1>2, StepChecks
    <2>2. CASE SameCheck(c)
      BY <1>2, <2>2 DEF SameCheck, Passed
    <2>3. CASE call'[c].n = 1 /\ slipped'[c] \subseteq {AssetOf[call'[c].of], App}
      BY <2>3
    <2>4. CASE /\ call[c].at = "checking" /\ call[c].n = 1 /\ ~Denied(c)
               /\ call'[c].n = 2 /\ slipped'[c] = slipped[c]
      <3>1. ~Shut(AssetOf[call[c].of])
        BY <1>2, <2>4, PassedOpen
      <3>2. AssetOf[call[c].of] \notin slipped[c]
        BY <1>2, <3>1 DEF GateParted, SlipOK
      <3>3. QED
        BY <1>2, <2>4, <3>2 DEF Passed
    <2>5. QED
      BY <2>1, <2>2, <2>3, <2>4 DEF CheckStep
  <1>3. ASSUME GateParted, Passed, [GateNext]_gateVars, NEW c \in Calls,
               call[c].at = "checking", call'[c].at = "calling", allowed' = allowed
        PROVE  slipped[c] = {}
    <2>1. ~Denied(c) /\ call[c].n = 2
      BY <1>2, <1>3, StepChecks DEF CheckStep, SameCheck
    <2>2. slipped[c] \subseteq {App}
      BY <1>3, <2>1 DEF Passed
    <2>3. App \notin slipped[c]
      BY <1>3, <2>1, PassedOpen DEF GateParted, SlipOK
    <2>4. QED
      BY <2>2, <2>3
  <1>4. GateParted /\ Passed /\ [GateNext]_gateVars
        => [\A c \in Calls :
              call[c].at = "checking" /\ call'[c].at = "calling" /\ allowed' = allowed =>
                slipped[c] = {}]_gateVars
    BY <1>3
  <1>5. GateTypeOK => GateParted
    BY GateParts
  <1>6. QED
    BY <1>1, <1>2, <1>4, <1>5, GateTyped, PTL DEF GateSpec, OnlyChecksUnderWay
-----------------------------------------------------------------------------
(* Part m of row i is behind a replay that has come to (turn, part). *)
Behind(i, m, turn, part) == i < turn \/ (i = turn /\ m < part)

(* A mirror says of the key named there what the rows say of it last. *)
Says(rows, live, mir, i, m) ==
  LET e == rows[i][m]
  IN  LastOf(rows, e.key, i, m) /\ e.key \notin live /\ mir[e.key] # Unseen => mir[e.key].pct = e.pct

(* What is behind a replay is in the mirror, but for what others wrote. *)
RestoreInv ==
  replay # NoReplay =>
    \A i \in DOMAIN replay.rows : \A m \in DOMAIN replay.rows[i] :
      Behind(i, m, replay.turn, replay.part) => Says(replay.rows, replay.live, mirror, i, m)

LEMMA PartShape ==
  ASSUME NEW rows \in Seq(Rows), NEW i \in DOMAIN rows, NEW m \in DOMAIN rows[i]
  PROVE  /\ i \in Nat /\ m \in Nat /\ i <= Len(rows) /\ m <= Len(rows[i]) /\ Len(rows) \in Nat /\ Len(rows[i]) \in Nat
         /\ 1 <= m
         /\ rows[i][m] \in Entries /\ rows[i][m].key \in Hubs
  <1>1. rows[i] \in Rows
    OBVIOUS
  <1>2. QED
    BY <1>1, RowShape, EntryShape DEF Rows

(* Others may make promises void and hashes older, not other hashes. *)
LEMMA SaysStill ==
  ASSUME NEW rows \in Seq(Rows), NEW i \in DOMAIN rows, NEW m \in DOMAIN rows[i],
         NEW live, NEW more, live \subseteq more, NEW mir, NEW mirNew,
         Says(rows, live, mir, i, m),
         \A k \in Hubs \ more : mirNew[k] # Unseen => mir[k] # Unseen /\ mirNew[k].pct = mir[k].pct
  PROVE  Says(rows, more, mirNew, i, m)
  BY PartShape DEF Says

LEMMA AgedKeeps ==
  ASSUME NEW h \in Usages \cup {Unseen}, Aged(h) # Unseen
  PROVE  h # Unseen /\ Aged(h).pct = h.pct
  BY DEF Aged, Usages

(* The position just written is the last of its key, or its key is not one *)
(* whose last position is behind.                                          *)
LEMMA WrittenSays ==
  ASSUME GateParted, RestoreInv, ReplayWrites, NEW i \in DOMAIN replay.rows, NEW m \in DOMAIN replay.rows[i],
         Behind(i, m, replay.turn, replay.part) \/ (i = replay.turn /\ m = replay.part)
  PROVE  Says(replay.rows, replay.live, mirror', i, m)
  <1> DEFINE e == replay.rows[i][m]
             w == Turn[replay.part]
  <1>1. replay # NoReplay /\ ReplayOK
    BY DEF ReplayWrites, GateParted
  <1>2. /\ replay.rows \in Seq(Rows) /\ replay.turn \in DOMAIN replay.rows /\ Turn = replay.rows[replay.turn]
        /\ replay.part \in DOMAIN Turn /\ w \in Entries /\ replay.turn \in Nat /\ replay.part \in Nat
    BY <1>1, ReplayShape DEF Rows
  <1>3. e.key \in Hubs /\ i \in Nat /\ m \in Nat
    BY <1>2, PartShape
  <1>4. \A k \in Hubs : mirror'[k] = IF k = w.key THEN Hash(w) ELSE mirror[k]
    BY <1>2, MirrorWritten DEF ReplayWrites, GateParted
  <1>5. w = replay.rows[replay.turn][replay.part]
    BY <1>2
  <1> HIDE DEF e, w
  <1> SUFFICES ASSUME LastOf(replay.rows, e.key, i, m), e.key \notin replay.live, mirror'[e.key] # Unseen
               PROVE  mirror'[e.key].pct = e.pct
    BY DEF Says, e
  <1>6. CASE e.key = w.key
    <2>1. replay.turn < i \/ (replay.turn = i /\ replay.part <= m)
      BY <1>2, <1>5, <1>6 DEF LastOf
    <2>2. i = replay.turn /\ m = replay.part
      BY <1>2, <1>3, <2>1 DEF Behind
    <2>3. e = w
      BY <1>5, <2>2 DEF e
    <2>4. QED
      BY <1>3, <1>4, <1>6, <2>3 DEF Hash
  <1>7. CASE e.key # w.key
    <2>1. mirror'[e.key] = mirror[e.key]
      BY <1>3, <1>4, <1>7
    <2>2. i # replay.turn \/ m # replay.part
      BY <1>5, <1>7 DEF e
    <2>3. Says(replay.rows, replay.live, mirror, i, m)
      BY <1>1, <2>2 DEF RestoreInv
    <2>4. QED
      BY <2>1, <2>3 DEF Says, e
  <1>8. QED
    BY <1>6, <1>7

LEMMA RestoreWrites ==
  ASSUME GateParted, RestoreInv, ReplayWrites
  PROVE  RestoreInv'
  <1>1. replay # NoReplay /\ ReplayOK
    BY DEF ReplayWrites, GateParted
  <1>2. replay \in Replays /\ replay.rows \in Seq(Rows) /\ replay.turn \in Nat /\ replay.part \in Nat
        /\ Turn = replay.rows[replay.turn] /\ Len(Turn) \in Nat
    BY <1>1, ReplayShape
  <1> SUFFICES ASSUME replay' # NoReplay, NEW i \in DOMAIN replay'.rows, NEW m \in DOMAIN replay'.rows[i],
                      Behind(i, m, replay'.turn, replay'.part)
               PROVE  Says(replay'.rows, replay'.live, mirror', i, m)
    BY DEF RestoreInv
  <1>3. CASE replay.part < Len(Turn)
    <2>1. /\ replay'.rows = replay.rows /\ replay'.live = replay.live
          /\ replay'.turn = replay.turn /\ replay'.part = replay.part + 1
      BY <1>2, <1>3 DEF ReplayWrites, Replays
    <2>2. i \in Nat /\ m \in Nat
      BY <1>2, <2>1, PartShape
    <2>3. Behind(i, m, replay.turn, replay.part) \/ (i = replay.turn /\ m = replay.part)
      BY <1>2, <2>1, <2>2 DEF Behind
    <2>4. QED
      BY <2>1, <2>3, WrittenSays
  <1>4. CASE ~(replay.part < Len(Turn))
    <2>1. replay' = NextRow
      BY <1>4 DEF ReplayWrites
    <2>2. /\ replay'.rows = replay.rows /\ replay'.live = replay.live
          /\ replay'.turn = replay.turn + 1 /\ replay'.part = 1
      BY <1>1, <2>1, NextRowShape
    <2>3. i \in Nat /\ m \in Nat /\ m <= Len(replay.rows[i]) /\ 1 <= m
      BY <1>2, <2>2, PartShape
    <2>4. replay.part = Len(Turn)
      BY <1>1, <1>4, ReplayShape
    <2>5. Behind(i, m, replay.turn, replay.part) \/ (i = replay.turn /\ m = replay.part)
      BY <1>2, <2>2, <2>3, <2>4 DEF Behind
    <2>6. QED
      BY <2>2, <2>5, WrittenSays
  <1>5. QED
    BY <1>3, <1>4

LEMMA RestoreFails ==
  ASSUME GateParted, RestoreInv, ReplayFails
  PROVE  RestoreInv'
  <1> DEFINE dropped == {Turn[i].key : i \in replay.part..Len(Turn)}
  <1>1. replay # NoReplay /\ ReplayOK /\ mirror' = mirror
    BY DEF ReplayFails, GateParted
  <1>2. replay \in Replays /\ replay.rows \in Seq(Rows) /\ replay.turn \in Nat /\ replay.part \in Nat
        /\ Turn = replay.rows[replay.turn] /\ Len(Turn) \in Nat
    BY <1>1, ReplayShape
  <1> SUFFICES ASSUME replay' # NoReplay, NEW i \in DOMAIN replay'.rows, NEW m \in DOMAIN replay'.rows[i],
                      Behind(i, m, replay'.turn, replay'.part)
               PROVE  Says(replay'.rows, replay'.live, mirror', i, m)
    BY DEF RestoreInv
  <1>3. NextRow # NoReplay /\ replay' = [NextRow EXCEPT !.live = @ \cup dropped]
    BY DEF ReplayFails
  <1>4. /\ NextRow \in Replays /\ NextRow.rows = replay.rows /\ NextRow.live = replay.live
        /\ NextRow.turn = replay.turn + 1 /\ NextRow.part = 1
    BY <1>1, <1>3, NextRowShape
  <1> HIDE DEF dropped
  <1>5. /\ replay'.rows = replay.rows /\ replay'.live = replay.live \cup dropped
        /\ replay'.turn = replay.turn + 1 /\ replay'.part = 1
    BY <1>3, <1>4 DEF Replays
  <1>6. i \in Nat /\ m \in Nat /\ m <= Len(replay.rows[i]) /\ 1 <= m
    BY <1>2, <1>5, PartShape
  <1>7. CASE Behind(i, m, replay.turn, replay.part)
    <2>1. Says(replay.rows, replay.live, mirror, i, m)
      BY <1>1, <1>5, <1>7 DEF RestoreInv
    <2>2. QED
      BY <1>1, <1>2, <1>5, <2>1, SaysStill
  <1>8. CASE ~Behind(i, m, replay.turn, replay.part)
    <2>1. i = replay.turn /\ m \in replay.part..Len(Turn)
      BY <1>2, <1>5, <1>6, <1>8 DEF Behind
    <2>2. replay.rows[i][m].key \in dropped
      BY <1>2, <2>1 DEF dropped
    <2>3. QED
      BY <1>5, <2>2 DEF Says
  <1>9. QED
    BY <1>7, <1>8

(* Steps that leave the rows and the position of a replay alone. *)
LEMMA RestoreStill ==
  ASSUME GateParted, RestoreInv,
         replay # NoReplay => /\ replay'.rows = replay.rows /\ replay.live \subseteq replay'.live
                              /\ replay'.turn = replay.turn /\ replay'.part = replay.part
                              /\ \A k \in Hubs \ replay'.live :
                                   mirror'[k] # Unseen => mirror[k] # Unseen /\ mirror'[k].pct = mirror[k].pct,
         replay = NoReplay => replay' = NoReplay
  PROVE  RestoreInv'
  <1> SUFFICES ASSUME replay' # NoReplay, NEW i \in DOMAIN replay'.rows, NEW m \in DOMAIN replay'.rows[i],
                      Behind(i, m, replay'.turn, replay'.part)
               PROVE  Says(replay'.rows, replay'.live, mirror', i, m)
    BY DEF RestoreInv
  <1>1. replay # NoReplay /\ replay.rows \in Seq(Rows)
    BY ReplayShape DEF GateParted
  <1>2. Says(replay.rows, replay.live, mirror, i, m)
    BY <1>1 DEF RestoreInv
  <1>3. QED
    BY <1>1, <1>2, SaysStill

LEMMA RestoreStep ==
  ASSUME GateParted, RestoreInv, [GateNext]_gateVars
  PROVE  RestoreInv'
  <1>1. CASE UNCHANGED <<mirror, replay>>
    BY <1>1 DEF RestoreInv
  <1>2. ASSUME NEW c \in Calls, Observe(c) PROVE RestoreInv'
    <2> DEFINE e == Head(call[c].todo)
    <2>1. e \in Entries
      BY <1>2, TodoShape DEF Observe, GateParted
    <2>2. /\ mirror' = [mirror EXCEPT ![e.key] = Hash(e)]
          /\ replay' = IF replay = NoReplay THEN replay ELSE [replay EXCEPT !.live = @ \cup {e.key}]
      BY <1>2 DEF Observe
    <2> HIDE DEF e
    <2>3. \A k \in Hubs \ {e.key} : mirror'[k] = mirror[k]
      BY <2>1, <2>2, MirrorWritten DEF GateParted
    <2>4. replay # NoReplay => /\ replay'.rows = replay.rows /\ replay'.live = replay.live \cup {e.key}
                               /\ replay'.turn = replay.turn /\ replay'.part = replay.part
      BY <2>2, ReplayShape DEF GateParted, Replays
    <2>5. QED
      BY <2>2, <2>3, <2>4, RestoreStill
  <1>3. CASE Ages
    <2>1. \A k \in Hubs : mirror[k] \in Usages \cup {Unseen} /\ mirror'[k] = Aged(mirror[k])
      BY <1>3 DEF Ages, GateParted
    <2>2. \A k \in Hubs : mirror'[k] # Unseen => mirror[k] # Unseen /\ mirror'[k].pct = mirror[k].pct
      BY <2>1, AgedKeeps
    <2>3. QED
      BY <1>3, <2>2, RestoreStill DEF Ages
  <1>4. CASE Replay
    <2>1. PICK n \in DOMAIN log :
            replay' = [rows |-> SubSeq(log, n, Len(log)), turn |-> 1, part |-> 1, live |-> {}]
      BY <1>4 DEF Replay
    <2>2. replay'.rows \in Seq(Rows) /\ replay'.turn = 1 /\ replay'.part = 1
      BY <2>1 DEF GateParted, LogOK
    <2>3. \A i \in DOMAIN replay'.rows : \A m \in DOMAIN replay'.rows[i] : ~Behind(i, m, replay'.turn, replay'.part)
      BY <2>2 DEF Behind, Rows
    <2>4. QED
      BY <2>3 DEF RestoreInv
  <1>5. ASSUME NEW j \in Jobs, FallDue(j) \/ Ends(j) PROVE RestoreInv'
    BY <1>1, <1>5 DEF FallDue, Ends
  <1>8. ASSUME NEW c \in Calls, Launch(c) \/ Read(c) \/ Answer(c) \/ Observed(c) \/ Faulty(c) PROVE RestoreInv'
    BY <1>1, <1>8 DEF Launch, Read, Answer, Observed, Faulty, ReadFails, ObserveFails
  <1>6. CASE Enqueue \/ Logged \/ LogLost \/ UNCHANGED gateVars
    BY <1>1, <1>6 DEF Enqueue, Logged, LogLost, gateVars
  <1>7. QED
    BY <1>2, <1>3, <1>4, <1>5, <1>6, <1>8, RestoreWrites, RestoreFails DEF GateNext, Call

(* A replay that no fault cuts short ends with its last write. *)
LEMMA EndsWritten ==
  ASSUME GateParted, [GateNext]_gateVars, ReplayEnds
  PROVE  ReplayWrites /\ replay.turn = Len(replay.rows) /\ replay.part = Len(Turn)
  <1>1. replay # NoReplay /\ replay' = NoReplay /\ allowed' = allowed /\ ReplayOK
    BY DEF ReplayEnds, GateParted
  <1>2. ~ReplayFails
    BY <1>1, FaultCounts DEF ReplayFails, GateParted
  <1>3. ~Replay
    BY <1>1 DEF Replay
  <1>4. ASSUME NEW c \in Calls, Observe(c) PROVE FALSE
    <2>1. replay' = [replay EXCEPT !.live = @ \cup {Head(call[c].todo).key}] /\ replay \in Replays
      BY <1>1, <1>4, ReplayShape DEF Observe
    <2>2. replay'.rows = replay.rows /\ replay.rows # <<>>
      BY <2>1 DEF Replays
    <2>3. QED
      BY <1>1, <2>2 DEF NoReplay
  <1>5. ReplayWrites
    BY <1>1, <1>2, <1>3, <1>4
       DEF GateNext, gateVars, Call, Faulty, FallDue, Ends, Launch, Read, Answer, Observed, ReadFails, ObserveFails,
           Enqueue, Logged, LogLost, Ages
  <1>6. ~(replay.part < Len(Turn))
    <2>1. SUFFICES ASSUME replay' = [replay EXCEPT !.part = @ + 1] PROVE FALSE
      BY <1>5 DEF ReplayWrites
    <2>2. replay'.rows = replay.rows /\ replay.rows # <<>>
      BY <1>1, <2>1, ReplayShape DEF Replays
    <2>3. QED
      BY <1>1, <2>2 DEF NoReplay
  <1>7. replay' = NextRow /\ replay.part = Len(Turn)
    BY <1>1, <1>5, <1>6, ReplayShape DEF ReplayWrites
  <1>8. replay.turn = Len(replay.rows)
    <2>1. SUFFICES ASSUME NextRow.rows = replay.rows PROVE FALSE
      BY <1>1, NextRowShape
    <2>2. replay.rows # <<>>
      BY <1>1, ReplayShape DEF Replays
    <2>3. QED
      BY <1>1, <1>7, <2>1, <2>2 DEF NoReplay
  <1>9. QED
    BY <1>5, <1>7, <1>8

(* However live observations, the clock and expiry interleave with it, a       *)
(* replay no fault cuts short leaves in each key that nobody wrote meanwhile   *)
(* what its latest row says: for logs of any length and any number of calls.   *)
THEOREM ReplayTrue == GateSpec => ReplayRestores
  <1>1. GateInit => RestoreInv
    BY DEF GateInit, RestoreInv
  <1>2. ASSUME GateParted, RestoreInv, [GateNext]_gateVars, ReplayEnds,
               NEW i \in DOMAIN replay.rows, NEW m \in DOMAIN replay.rows[i]
        PROVE  Says(replay.rows, replay.live, mirror', i, m)
    <2>1. ReplayWrites /\ replay.turn = Len(replay.rows) /\ replay.part = Len(Turn)
      BY <1>2, EndsWritten
    <2>2. replay.rows \in Seq(Rows) /\ Turn = replay.rows[replay.turn]
      BY <1>2, ReplayShape DEF GateParted, ReplayEnds
    <2>3. i \in Nat /\ m \in Nat /\ i <= replay.turn /\ (i = replay.turn => m <= replay.part)
          /\ replay.turn \in Nat /\ Len(Turn) \in Nat
      BY <1>2, <2>1, <2>2, PartShape, ReplayShape DEF GateParted, ReplayEnds
    <2>4. Behind(i, m, replay.turn, replay.part) \/ (i = replay.turn /\ m = replay.part)
      BY <2>1, <2>3 DEF Behind
    <2>5. QED
      BY <1>2, <2>1, <2>4, WrittenSays
  <1>3. GateParted /\ RestoreInv /\ [GateNext]_gateVars => RestoreInv'
    BY RestoreStep
  <1>4. GateParted /\ RestoreInv /\ [GateNext]_gateVars
        => [ReplayEnds => \A i \in DOMAIN replay.rows : \A m \in DOMAIN replay.rows[i] :
              LET e == replay.rows[i][m]
              IN  LastOf(replay.rows, e.key, i, m) /\ e.key \notin replay.live /\ mirror'[e.key] # Unseen
                    => mirror'[e.key].pct = e.pct]_gateVars
    BY <1>2 DEF Says
  <1>5. GateTypeOK => GateParted
    BY GateParts
  <1>6. QED
    BY <1>1, <1>3, <1>4, <1>5, GateTyped, PTL DEF GateSpec, ReplayRestores
=============================================================================
