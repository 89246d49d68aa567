----------------------------- MODULE TokenProofs -----------------------------
(* Theorems about TokenLifecycle, for all workers and bounds. *)
EXTENDS TokenLifecycle, TLAPS

Holds(u, n) == agent[u].at = "store" /\ agent[u].pair = n
Presents(u, n) == agent[u].at = "exchange" /\ agent[u].pair = n

(* The row and the refreshes are about pairs that were issued. *)
IssuedOnly ==
  /\ stored <= issued
  /\ accepted \subseteq 1..issued
  /\ \A u \in Agents : agent[u].at \in {"exchange", "store"} => agent[u].pair <= issued

(* A pair on its way to the row is nobody else's yet: it is not in the row,   *)
(* nobody presents it and nobody else holds it.                               *)
HeldAlone ==
  \A u \in Agents : \A n \in Tokens : Holds(u, n) =>
    /\ n \in accepted \cup revoked
    /\ stored # n
    /\ \A v \in Agents : ~Presents(v, n) /\ (Holds(v, n) => v = u)

PairsApart ==
  /\ IssuedOnly
  /\ HeldAlone
  /\ PairKept

PairInv == TypeOK /\ PairsApart
-----------------------------------------------------------------------------
(* The stages of an agent, told apart by their types. *)
LEMMA AgentTypes ==
  ASSUME TypeOK, NEW u \in Agents
  PROVE  /\ agent[u].at \in {"exchange", "store", "flag"} =>
              agent[u] \in Refreshes /\ agent[u].pair \in Tokens /\ agent[u].token \in Tokens
         /\ agent[u].at \in {"loaded", "call", "revoked"} =>
              agent[u] \in Syncs /\ agent[u].token \in Tokens
  BY DEF TypeOK, Refreshes, Syncs, Idle

(* After a refresh, a worker calls and the cron's row is done. *)
LEMMA AfterTyped ==
  ASSUME NEW u, NEW n \in Tokens
  PROVE  /\ After(u, n) \in Syncs \cup Refreshes \cup {Idle}
         /\ After(u, n).at \notin {"exchange", "store"}
  BY DEF After, Syncs, Idle

(* A new pair is one more, within the bound. *)
LEMMA IssueTyped ==
  ASSUME TypeOK, NEW n \in Tokens, Issue(n)
  PROVE  /\ issued + 1 \in Tokens
         /\ issued' = issued + 1
         /\ accepted' \subseteq Tokens
         /\ next' \in [Tokens -> Tokens \cup {NoToken}]
         /\ UNCHANGED <<revoked, age>>
  <1>1. issued + 1 \in Tokens
    BY TokenAssumption DEF Issue, TypeOK, Tokens
  <1>2. QED
    BY <1>1 DEF Issue, TypeOK

(* Refreshing keeps the types. *)
LEMMA RefreshTyped ==
  ASSUME TypeOK, NEW u \in Agents, Refresh(u) \/ Crash(u)
  PROVE  TypeOK'
  <1>1. CASE Granted(u)
    <2>1. agent[u] \in Refreshes /\ agent[u].pair \in Tokens
      BY <1>1, AgentTypes DEF Granted
    <2>2. /\ issued' \in Tokens
          /\ accepted' \subseteq Tokens
          /\ next' \in [Tokens -> Tokens \cup {NoToken}]
          /\ UNCHANGED <<revoked, age>>
          /\ issued + 1 \in Tokens
      BY <1>1, <2>1, IssueTyped DEF Granted
    <2>3. agent' \in [Agents -> Syncs \cup Refreshes \cup {Idle}]
      BY <1>1, <2>1, <2>2 DEF Granted, TypeOK, Refreshes
    <2>4. QED
      BY <1>1, <2>2, <2>3 DEF Granted, TypeOK, dbVars
  <1>2. CASE Refused(u)
    <2>1. agent[u] \in Refreshes /\ agent[u].token \in Tokens
      BY <1>2, AgentTypes DEF Refused
    <2>2. RefusedFor(u) \in Syncs \cup Refreshes \cup {Idle}
      BY <2>1, AfterTyped DEF RefusedFor, OutageFor, Refreshes
    <2>3. agent' \in [Agents -> Syncs \cup Refreshes \cup {Idle}]
      BY <1>2, <2>2 DEF Refused, TypeOK
    <2>4. QED
      BY <1>2, <2>3 DEF Refused, TypeOK, dbVars, platformVars
  <1>3. CASE Outage(u)
    <2>1. agent[u].pair \in Tokens /\ agent[u].token \in Tokens
      BY <1>3, AgentTypes DEF Outage
    <2>2. agent' \in [Agents -> Syncs \cup Refreshes \cup {Idle}]
      BY <1>3, <2>1, AfterTyped DEF Outage, TypeOK
    <2>3. CASE UNCHANGED <<platformVars, lost, left>>
      BY <1>3, <2>2, <2>3 DEF Outage, TypeOK, dbVars, platformVars
    <2>4. CASE Disturb /\ Issue(agent[u].pair) /\ lost' = lost \cup {issued + 1}
      <3>1. left' \in 0..MaxDisturbances
        BY <2>4, TokenAssumption DEF Disturb, TypeOK
      <3>2. QED
        BY <1>3, <2>1, <2>2, <2>4, <3>1, IssueTyped DEF Outage, TypeOK, dbVars
    <2>5. QED
      BY <1>3, <2>3, <2>4 DEF Outage
  <1>4. CASE Store(u)
    <2>1. agent[u].pair \in Tokens /\ agent[u].token \in Tokens
      BY <1>4, AgentTypes DEF Store
    <2>2. agent' \in [Agents -> Syncs \cup Refreshes \cup {Idle}]
      BY <1>4, <2>1, AfterTyped DEF Store, TypeOK
    <2>3. stored' \in Tokens \cup {NoToken}
      BY <1>4, <2>1 DEF Store, Updated
    <2>4. QED
      BY <1>4, <2>2, <2>3 DEF Store, TypeOK, platformVars
  <1>5. CASE StoreError(u)
    <2>1. agent[u].pair \in Tokens /\ agent[u].token \in Tokens
      BY <1>5, AgentTypes DEF StoreError
    <2>2. agent' \in [Agents -> Syncs \cup Refreshes \cup {Idle}]
      BY <1>5, <2>1, AfterTyped DEF StoreError, TypeOK
    <2>3. left' \in 0..MaxDisturbances
      BY <1>5, TokenAssumption DEF StoreError, Disturb, TypeOK
    <2>4. QED
      BY <1>5, <2>1, <2>2, <2>3 DEF StoreError, TypeOK, dbVars, platformVars
  <1>6. CASE Crash(u)
    <2>1. left' \in 0..MaxDisturbances
      BY <1>6, TokenAssumption DEF Crash, Disturb, TypeOK
    <2>2. QED
      BY <1>6, <2>1 DEF Crash, TypeOK, dbVars, platformVars
  <1>7. QED
    BY <1>1, <1>2, <1>3, <1>4, <1>5, <1>6 DEF Refresh

(* So do the syncs. *)
LEMMA SyncTyped ==
  ASSUME TypeOK, NEW w \in Workers, Sync(w)
  PROVE  TypeOK'
  <1>1. w \in Agents
    BY DEF Agents
  <1>2. /\ agent' \in [Agents -> Syncs \cup Refreshes \cup {Idle}]
        /\ status' \in {status, "needs_reauth"}
        /\ UNCHANGED <<stored, platformVars, canary, lost, left>>
    <2>1. CASE Load(w)
      BY <1>1, <2>1 DEF Load, Loadable, TypeOK, Syncs, dbVars
    <2>2. CASE EnsureFresh(w)
      <3>1. agent[w].token \in Tokens
        BY <1>1, <2>2, AgentTypes DEF EnsureFresh
      <3>2. QED
        BY <1>1, <2>2, <3>1 DEF EnsureFresh, TypeOK, Syncs, Refreshes, dbVars
    <2>3. CASE CallEnds(w) \/ MarkRevoked(w)
      BY <1>1, <2>3 DEF CallEnds, MarkRevoked, TypeOK, dbVars
    <2>4. CASE CallRejected(w)
      <3>1. agent[w] \in Syncs
        BY <1>1, <2>4, AgentTypes DEF CallRejected
      <3>2. QED
        BY <1>1, <2>4, <3>1 DEF CallRejected, TypeOK, Syncs, dbVars
    <2>5. QED
      BY <2>1, <2>2, <2>3, <2>4 DEF Sync
  <1>3. QED
    BY <1>2 DEF TypeOK, platformVars

(* And the crons, the user and time. *)
LEMMA OthersTyped ==
  ASSUME TypeOK,
         \/ CronScan \/ CronFlag
         \/ CanaryScan \/ Probe \/ CanaryWrite \/ CanaryCrash
         \/ Reconnect \/ Disconnect \/ Revoke
         \/ \E n \in Tokens : Age(n)
  PROVE  TypeOK'
  <1>1. CASE CronScan \/ CronFlag
    <2>1. Cron \in Agents
      BY DEF Agents
    <2>2. agent' \in [Agents -> Syncs \cup Refreshes \cup {Idle}]
      BY <1>1, <2>1 DEF CronScan, CronFlag, TypeOK, Refreshes
    <2>3. QED
      BY <1>1, <2>2 DEF CronScan, CronFlag, TypeOK, dbVars, platformVars
  <1>2. CASE CanaryScan \/ CanaryWrite
    BY <1>2 DEF CanaryScan, CanaryWrite, TypeOK, Probes, dbVars, platformVars
  <1>6. CASE CanaryCrash
    <2>1. left' \in 0..MaxDisturbances
      BY <1>6, TokenAssumption DEF CanaryCrash, Disturb, TypeOK
    <2>2. QED
      BY <1>6, <2>1 DEF CanaryCrash, TypeOK, dbVars, platformVars
  <1>3. CASE Probe
    <2>1. canary \in Probes
      BY <1>3 DEF Probe, ProbeHealthy, ProbeRejected, ProbeTransient, TypeOK, Idle
    <2>2. canary' \in Probes \cup {Idle}
      BY <1>3, <2>1 DEF Probe, ProbeHealthy, ProbeRejected, ProbeTransient, Healed, Probes
    <2>3. QED
      BY <1>3, <2>2 DEF Probe, ProbeHealthy, ProbeRejected, ProbeTransient, TypeOK, dbVars,
                        platformVars
  <1>4. CASE Reconnect \/ Disconnect \/ Revoke
    <2>1. left' \in 0..MaxDisturbances
      BY <1>4, TokenAssumption DEF Reconnect, Disconnect, Revoke, Disturb, TypeOK
    <2>2. CASE Reconnect
      <3>1. issued + 1 \in Tokens
        BY <2>2, TokenAssumption DEF Reconnect, TypeOK, Tokens
      <3>2. QED
        BY <2>1, <2>2, <3>1 DEF Reconnect, TypeOK
    <2>3. CASE Disconnect
      BY <2>1, <2>3 DEF Disconnect, TypeOK, platformVars
    <2>4. CASE Revoke
      <3>1. 1..issued \subseteq Tokens
        BY TokenAssumption DEF TypeOK, Tokens
      <3>2. QED
        BY <2>1, <2>4, <3>1 DEF Revoke, TypeOK, dbVars
    <2>5. QED
      BY <1>4, <2>2, <2>3, <2>4
  <1>5. ASSUME NEW n \in Tokens, Age(n) PROVE TypeOK'
    <2>1. Older[age[n]] \in Ages
      BY <1>5 DEF Age, TypeOK, Ages, Older
    <2>2. QED
      BY <1>5, <2>1 DEF Age, TypeOK, dbVars
  <1>7. QED
    BY <1>1, <1>2, <1>3, <1>4, <1>5, <1>6

(* Every reachable state is well-typed: no sync and no refresh ever works     *)
(* without a token.                                                           *)
THEOREM TokenTyped == Spec => []TypeOK
  <1>1. Init => TypeOK
    BY TokenAssumption DEF Init, TypeOK, Tokens, Ages
  <1>2. TypeOK /\ [Next]_vars => TypeOK'
    <2> SUFFICES ASSUME TypeOK, [Next]_vars PROVE TypeOK'
      OBVIOUS
    <2>1. CASE Next
      BY <2>1, RefreshTyped, SyncTyped, OthersTyped DEF Next
    <2>2. CASE UNCHANGED vars
      BY <2>2 DEF vars, dbVars, platformVars, TypeOK
    <2>3. QED
      BY <2>1, <2>2
  <1>3. QED
    BY <1>1, <1>2, PTL DEF Spec

(* A disconnect deletes the row, and the refresh that is on its way finds     *)
(* none to update: the row does not come back before the user does.           *)
THEOREM DisconnectIsFinal == Spec => []DisconnectForgets
  <1>1. Init => DisconnectForgets
    BY DEF Init, DisconnectForgets
  <1>2. DisconnectForgets /\ [Next]_vars => DisconnectForgets'
    <2> SUFFICES ASSUME DisconnectForgets, [Next]_vars PROVE DisconnectForgets'
      OBVIOUS
    <2>1. ASSUME NEW u \in Agents, Refresh(u) \/ Crash(u) PROVE DisconnectForgets'
      <3>1. CASE Store(u)
        BY <3>1 DEF Store, Updated, DisconnectForgets
      <3>2. CASE ~Store(u)
        BY <2>1, <3>2 DEF Refresh, Granted, Refused, Outage, StoreError, Crash, dbVars,
                          DisconnectForgets
      <3>3. QED
        BY <3>1, <3>2
    <2>2. ASSUME NEW w \in Workers, Sync(w) PROVE DisconnectForgets'
      BY <2>2 DEF Sync, Load, EnsureFresh, CallEnds, CallRejected, MarkRevoked, dbVars,
                  DisconnectForgets
    <2>3. CASE CronScan \/ CronFlag \/ CanaryScan \/ Probe \/ CanaryWrite \/ CanaryCrash
      BY <2>3 DEF CronScan, CronFlag, CanaryScan, Probe, ProbeHealthy, ProbeRejected,
                  ProbeTransient, CanaryWrite, CanaryCrash, dbVars, DisconnectForgets
    <2>4. CASE Reconnect \/ Disconnect \/ Revoke \/ \E n \in Tokens : Age(n)
      BY <2>4 DEF Reconnect, Disconnect, Revoke, Age, dbVars, DisconnectForgets
    <2>5. CASE UNCHANGED vars
      BY <2>5 DEF vars, dbVars, DisconnectForgets
    <2>6. QED
      BY <2>1, <2>2, <2>3, <2>4, <2>5 DEF Next
  <1>3. QED
    BY <1>1, <1>2, PTL DEF Spec
-----------------------------------------------------------------------------
(* The invariant survives every step that leaves the row and the platform     *)
(* alone, loses no pair but to a fault, and hands out no pair but the row's.  *)
LEMMA Quiet ==
  ASSUME PairInv,
         UNCHANGED <<stored, issued, accepted, revoked, next>>,
         lost \subseteq lost',
         \A v \in Agents : agent'[v].at \in {"exchange", "store"} =>
           \/ agent'[v] = agent[v]
           \/ agent'[v].at = "exchange" /\ agent'[v].pair = stored,
         \A v \in Agents : agent[v].at = "store" =>
           agent'[v] = agent[v] \/ agent[v].pair \in lost'
  PROVE  PairsApart'
  <1>1. IssuedOnly'
    BY DEF PairInv, PairsApart, IssuedOnly
  <1>2. HeldAlone'
    <2> SUFFICES ASSUME NEW v \in Agents, NEW n \in Tokens, Holds(v, n)'
                 PROVE  /\ n \in accepted \cup revoked
                        /\ stored # n
                        /\ \A x \in Agents : ~Presents(x, n)' /\ (Holds(x, n)' => x = v)
      BY DEF HeldAlone
    <2>1. Holds(v, n)
      BY DEF Holds
    <2>2. /\ n \in accepted \cup revoked
          /\ stored # n
          /\ \A x \in Agents : ~Presents(x, n) /\ (Holds(x, n) => x = v)
      BY <2>1 DEF PairInv, PairsApart, HeldAlone
    <2>3. ASSUME NEW x \in Agents PROVE ~Presents(x, n)' /\ (Holds(x, n)' => x = v)
      BY <2>2 DEF Presents, Holds
    <2>4. QED
      BY <2>2, <2>3
  <1>3. PairKept'
    BY DEF PairInv, PairsApart, PairKept
  <1>4. QED
    BY <1>1, <1>2, <1>3 DEF PairsApart

(* A new pair is nobody's, and the one it replaces was its owner's alone. *)
LEMMA IssueConserves ==
  ASSUME PairInv, NEW u \in Agents, agent[u].at = "exchange", agent[u].pair \in accepted,
         Issue(agent[u].pair), stored' = stored, lost \subseteq lost',
         \A v \in Agents : v # u => agent'[v] = agent[v],
         \/ agent'[u].at = "store" /\ agent'[u].pair = issued + 1
         \/ agent'[u].at \notin {"exchange", "store"} /\ issued + 1 \in lost'
  PROVE  PairsApart'
  <1> DEFINE n == agent[u].pair
  <1>1. /\ n \in Tokens
        /\ issued \in Nat
        /\ next \in [Tokens -> Tokens \cup {NoToken}]
    BY AgentTypes DEF PairInv, TypeOK, Tokens
  <1>2. /\ issued' = issued + 1
        /\ accepted' = (accepted \ {n}) \cup {issued + 1}
        /\ next' = [next EXCEPT ![n] = issued + 1]
        /\ revoked' = revoked
    BY DEF Issue
  <1>3. IssuedOnly /\ HeldAlone /\ PairKept
    BY DEF PairInv, PairsApart
  <1>4. IssuedOnly'
    <2>1. stored' <= issued'
      BY <1>1, <1>2, <1>3 DEF IssuedOnly, PairInv, TypeOK, Tokens, NoToken
    <2>2. accepted' \subseteq 1..issued'
      <3>1. 1..issued \subseteq 1..issued' /\ issued + 1 \in 1..issued'
        BY <1>1, <1>2
      <3>2. accepted' \subseteq accepted \cup {issued + 1}
        BY <1>2
      <3>3. accepted \subseteq 1..issued
        BY <1>3 DEF IssuedOnly
      <3>4. QED
        BY <3>1, <3>2, <3>3
    <2>3. ASSUME NEW v \in Agents, agent'[v].at \in {"exchange", "store"}
          PROVE  agent'[v].pair <= issued'
      <3>1. CASE v = u
        BY <1>1, <1>2, <2>3, <3>1
      <3>2. CASE v # u
        <4>1. agent[v].pair \in Tokens /\ agent[v].pair <= issued
          BY <1>3, <2>3, <3>2, AgentTypes DEF IssuedOnly, PairInv
        <4>2. QED
          BY <1>1, <1>2, <3>2, <4>1 DEF Tokens
      <3>3. QED
        BY <3>1, <3>2
    <2>4. QED
      BY <2>1, <2>2, <2>3 DEF IssuedOnly
  <1>5. HeldAlone'
    <2> SUFFICES ASSUME NEW v \in Agents, NEW m \in Tokens, Holds(v, m)'
                 PROVE  /\ m \in accepted' \cup revoked'
                        /\ stored' # m
                        /\ \A x \in Agents : ~Presents(x, m)' /\ (Holds(x, m)' => x = v)
      BY DEF HeldAlone
    <2>1. CASE v = u
      <3>1. m = issued + 1
        BY <2>1 DEF Holds
      <3>2. stored # m
        BY <1>1, <1>3, <3>1 DEF IssuedOnly
      <3>3. ASSUME NEW x \in Agents, x # u PROVE ~Presents(x, m)' /\ ~Holds(x, m)'
        <4>1. agent'[x] = agent[x]
          BY <3>3
        <4>2. agent[x].at \in {"exchange", "store"} => agent[x].pair # m
          BY <1>1, <1>3, <3>1 DEF IssuedOnly
        <4>3. QED
          BY <4>1, <4>2 DEF Presents, Holds
      <3>4. ~Presents(u, m)'
        BY <2>1 DEF Holds, Presents
      <3>5. QED
        BY <1>2, <2>1, <3>1, <3>2, <3>3, <3>4
    <2>2. CASE v # u
      <3>1. Holds(v, m)
        BY <2>2 DEF Holds
      <3>2. m # n /\ m <= issued
        BY <1>3, <3>1 DEF HeldAlone, Presents, IssuedOnly, Holds
      <3>3. m \in accepted' \cup revoked' /\ stored' # m
        BY <1>2, <1>3, <3>1, <3>2 DEF HeldAlone
      <3>4. ASSUME NEW x \in Agents PROVE ~Presents(x, m)' /\ (Holds(x, m)' => x = v)
        <4>1. CASE x = u
          <5>1. m # issued + 1
            BY <1>1, <3>2 DEF Tokens
          <5>2. QED
            BY <4>1, <5>1 DEF Presents, Holds
        <4>2. CASE x # u
          BY <1>3, <3>1, <4>2 DEF HeldAlone, Presents, Holds
        <4>3. QED
          BY <4>1, <4>2
      <3>5. QED
        BY <3>3, <3>4
    <2>3. QED
      BY <2>1, <2>2
  <1>6. PairKept'
    <2>1. CASE stored = n
      <3>1. next'[stored] = issued + 1
        BY <1>1, <1>2, <2>1
      <3>2. QED
        BY <3>1 DEF PairKept
    <2>2. CASE stored # n
      <3>1. stored \in accepted \cup revoked \cup {NoToken} =>
              stored' \in accepted' \cup revoked' \cup {NoToken}
        BY <1>2, <2>2
      <3>2. stored \notin accepted \cup revoked \cup {NoToken} => next'[stored] = next[stored]
        BY <1>1, <1>2, <2>2 DEF PairInv, TypeOK
      <3>3. ASSUME NEW v \in Agents, agent[v].at = "store", agent[v].pair = next[stored]
            PROVE  agent'[v].at = "store" /\ agent'[v].pair = next[stored]
        BY <3>3
      <3>4. QED
        BY <1>3, <3>1, <3>2, <3>3 DEF PairKept
    <2>3. QED
      BY <2>1, <2>2
  <1>7. QED
    BY <1>4, <1>5, <1>6 DEF PairsApart

(* Writing a pair to the row moves it from its holder to where it is kept. *)
LEMMA StoreConserves ==
  ASSUME PairInv, NEW u \in Agents, Store(u)
  PROVE  PairsApart'
  <1> DEFINE p == agent[u].pair
  <1>1. /\ p \in Tokens
        /\ Holds(u, p)
        /\ agent' \in [Agents -> Syncs \cup Refreshes \cup {Idle}]
        /\ UNCHANGED <<issued, accepted, revoked, next, lost>>
        /\ stored' \in {NoToken, p}
        /\ stored = NoToken => stored' = NoToken
        /\ \A v \in Agents : v # u => agent'[v] = agent[v]
    <2>1. p \in Tokens
      BY AgentTypes DEF PairInv, Store
    <2>2. agent' \in [Agents -> Syncs \cup Refreshes \cup {Idle}]
      BY <2>1, AgentTypes, AfterTyped DEF PairInv, Store, TypeOK
    <2>3. \A v \in Agents : v # u => agent'[v] = agent[v]
      BY DEF Store, PairInv, TypeOK
    <2>4. QED
      BY <2>1, <2>2, <2>3 DEF Store, Updated, Holds, platformVars
  <1>2. agent'[u].at \notin {"exchange", "store"}
    <2>1. agent'[u] = After(u, IF stored = NoToken THEN agent[u].token ELSE p)
      BY DEF Store, PairInv, TypeOK
    <2>2. (IF stored = NoToken THEN agent[u].token ELSE p) \in Tokens
      BY <1>1, AgentTypes DEF PairInv, Store
    <2>3. QED
      BY <2>1, <2>2, AfterTyped
  <1>3. /\ p \in accepted \cup revoked
        /\ \A x \in Agents : ~Presents(x, p) /\ (Holds(x, p) => x = u)
    BY <1>1 DEF PairInv, PairsApart, HeldAlone
  <1>4. IssuedOnly'
    <2>1. stored' <= issued'
      BY <1>1 DEF PairInv, PairsApart, IssuedOnly, Holds, TypeOK, NoToken, Tokens
    <2>2. \A v \in Agents : agent'[v].at \in {"exchange", "store"} => agent'[v].pair <= issued'
      BY <1>1, <1>2 DEF PairInv, PairsApart, IssuedOnly
    <2>3. QED
      BY <1>1, <2>1, <2>2 DEF PairInv, PairsApart, IssuedOnly
  <1>5. HeldAlone'
    <2> SUFFICES ASSUME NEW v \in Agents, NEW n \in Tokens, Holds(v, n)'
                 PROVE  /\ n \in accepted \cup revoked
                        /\ stored' # n
                        /\ \A x \in Agents : ~Presents(x, n)' /\ (Holds(x, n)' => x = v)
      BY <1>1 DEF HeldAlone
    <2>1. v # u /\ Holds(v, n)
      BY <1>1, <1>2 DEF Holds
    <2>2. n # p
      BY <1>3, <2>1
    <2>3. /\ n \in accepted \cup revoked
          /\ \A x \in Agents : ~Presents(x, n) /\ (Holds(x, n) => x = v)
      BY <2>1 DEF PairInv, PairsApart, HeldAlone
    <2>4. stored' # n
      BY <1>1, <2>2 DEF NoToken, Tokens
    <2>5. ASSUME NEW x \in Agents PROVE ~Presents(x, n)' /\ (Holds(x, n)' => x = v)
      BY <1>1, <1>2, <2>3 DEF Presents, Holds
    <2>6. QED
      BY <2>3, <2>4, <2>5
  <1>6. PairKept'
    BY <1>1, <1>3 DEF PairKept
  <1>7. QED
    BY <1>4, <1>5, <1>6 DEF PairsApart

(* The steps of a refresh conserve the pairs. *)
LEMMA RefreshConserves ==
  ASSUME PairInv, NEW u \in Agents, Refresh(u) \/ Crash(u)
  PROVE  PairsApart'
  <1>1. CASE Granted(u)
    <2>1. agent'[u].at = "store" /\ agent'[u].pair = issued + 1
      BY <1>1, AgentTypes DEF Granted, PairInv, TypeOK, Refreshes
    <2>2. \A v \in Agents : v # u => agent'[v] = agent[v]
      BY <1>1 DEF Granted, PairInv, TypeOK
    <2>3. QED
      BY <1>1, <2>1, <2>2, IssueConserves DEF Granted, dbVars
  <1>2. CASE Refused(u)
    <2>1. agent[u].pair \in Tokens /\ agent[u].token \in Tokens /\ agent[u].at = "exchange"
      BY <1>2, AgentTypes DEF Refused, PairInv
    <2>2. agent'[u] = RefusedFor(u) /\ \A v \in Agents : v # u => agent'[v] = agent[v]
      BY <1>2 DEF Refused, PairInv, TypeOK
    <2>3. RefusedFor(u).at \notin {"exchange", "store"}
      <3>1. CASE u = Cron
        BY <2>1, <3>1, AgentTypes DEF RefusedFor, PairInv, Refreshes
      <3>2. CASE u # Cron
        BY <2>1, <3>2, AfterTyped DEF RefusedFor, OutageFor
      <3>3. QED
        BY <3>1, <3>2
    <2>4. QED
      BY <1>2, <2>1, <2>2, <2>3, Quiet DEF Refused, dbVars, platformVars
  <1>3. CASE Outage(u)
    <2>1. agent[u].pair \in Tokens /\ agent[u].token \in Tokens /\ agent[u].at = "exchange"
      BY <1>3, AgentTypes DEF Outage, PairInv
    <2>2. /\ agent'[u] = After(u, agent[u].token)
          /\ \A v \in Agents : v # u => agent'[v] = agent[v]
      BY <1>3 DEF Outage, PairInv, TypeOK
    <2>3. agent'[u].at \notin {"exchange", "store"}
      BY <2>1, <2>2, AfterTyped
    <2>4. CASE UNCHANGED <<platformVars, lost, left>>
      BY <1>3, <2>1, <2>2, <2>3, <2>4, Quiet DEF Outage, dbVars, platformVars
    <2>5. CASE /\ agent[u].pair \in accepted
               /\ Issue(agent[u].pair)
               /\ lost' = lost \cup {issued + 1}
      BY <1>3, <2>1, <2>2, <2>3, <2>5, IssueConserves DEF Outage, dbVars
    <2>6. QED
      BY <1>3, <2>4, <2>5 DEF Outage
  <1>4. CASE Store(u)
    BY <1>4, StoreConserves
  <1>5. CASE StoreError(u)
    <2>1. agent[u].pair \in Tokens /\ agent[u].token \in Tokens
      BY <1>5, AgentTypes DEF StoreError, PairInv
    <2>2. /\ agent'[u] \in {After(u, agent[u].token), Idle}
          /\ \A v \in Agents : v # u => agent'[v] = agent[v]
      BY <1>5 DEF StoreError, PairInv, TypeOK
    <2>3. agent'[u].at \notin {"exchange", "store"}
      BY <2>1, <2>2, AfterTyped DEF Idle
    <2>4. QED
      BY <1>5, <2>2, <2>3, Quiet DEF StoreError, dbVars, platformVars
  <1>6. CASE Crash(u)
    <2>1. agent'[u] = Idle /\ agent[u].at # "store" /\ \A v \in Agents : v # u => agent'[v] = agent[v]
      BY <1>6 DEF Crash, PairInv, TypeOK
    <2>2. QED
      BY <1>6, <2>1, Quiet DEF Crash, dbVars, platformVars, Idle
  <1>7. QED
    BY <1>1, <1>2, <1>3, <1>4, <1>5, <1>6 DEF Refresh

(* Syncs and crons present the row's pair or none. *)
LEMMA SyncConserves ==
  ASSUME PairInv,
         \/ \E w \in Workers : Sync(w)
         \/ CronScan \/ CronFlag
         \/ CanaryScan \/ Probe \/ CanaryWrite \/ CanaryCrash
         \/ \E n \in Tokens : Age(n)
         \/ UNCHANGED vars
  PROVE  PairsApart'
  <1>1. ASSUME NEW w \in Workers, Sync(w) PROVE PairsApart'
    <2>1. w \in Agents
      BY DEF Agents
    <2>2. UNCHANGED <<stored, issued, accepted, revoked, next, lost>>
      BY <1>1 DEF Sync, Load, EnsureFresh, CallEnds, CallRejected, MarkRevoked, dbVars,
                  platformVars
    <2>3. \A v \in Agents : v # w => agent'[v] = agent[v]
      BY <1>1 DEF Sync, Load, EnsureFresh, CallEnds, CallRejected, MarkRevoked, PairInv, TypeOK
    <2>4. /\ agent[w].at # "store"
          /\ agent'[w].at \in {"exchange", "store"} =>
               agent'[w].at = "exchange" /\ agent'[w].pair = stored
      <3>1. CASE Load(w) \/ CallEnds(w) \/ MarkRevoked(w)
        BY <2>1, <3>1 DEF Load, CallEnds, MarkRevoked, PairInv, TypeOK, Idle
      <3>2. CASE EnsureFresh(w)
        BY <2>1, <3>2 DEF EnsureFresh, PairInv, TypeOK
      <3>3. CASE CallRejected(w)
        BY <2>1, <3>3, AgentTypes DEF CallRejected, PairInv, TypeOK, Syncs
      <3>4. QED
        BY <1>1, <3>1, <3>2, <3>3 DEF Sync
    <2>5. QED
      BY <2>2, <2>3, <2>4, Quiet
  <1>2. CASE CronScan \/ CronFlag
    <2>1. Cron \in Agents
      BY DEF Agents
    <2>2. UNCHANGED <<stored, issued, accepted, revoked, next, lost>>
      BY <1>2 DEF CronScan, CronFlag, dbVars, platformVars
    <2>3. \A v \in Agents : v # Cron => agent'[v] = agent[v]
      BY <1>2 DEF CronScan, CronFlag, PairInv, TypeOK
    <2>4. /\ agent[Cron].at # "store"
          /\ agent'[Cron].at \in {"exchange", "store"} =>
               agent'[Cron].at = "exchange" /\ agent'[Cron].pair = stored
      BY <1>2, <2>1 DEF CronScan, CronFlag, PairInv, TypeOK, Idle
    <2>5. QED
      BY <2>2, <2>3, <2>4, Quiet
  <1>3. CASE \/ CanaryScan \/ Probe \/ CanaryWrite \/ CanaryCrash
             \/ \E n \in Tokens : Age(n)
             \/ UNCHANGED vars
    <2>1. UNCHANGED <<stored, issued, accepted, revoked, next, lost, agent>>
      BY <1>3 DEF CanaryScan, Probe, ProbeHealthy, ProbeRejected, ProbeTransient, CanaryWrite,
                  CanaryCrash, Age, vars, dbVars, platformVars
    <2>2. QED
      BY <2>1, Quiet
  <1>4. QED
    BY <1>1, <1>2, <1>3

(* A new authorization is a pair nobody knows; a disconnect leaves no row;    *)
(* a withdrawal leaves no pair but withdrawn ones.                            *)
LEMMA UserConserves ==
  ASSUME PairInv, Reconnect \/ Disconnect \/ Revoke
  PROVE  PairsApart'
  <1>1. /\ issued \in Nat
        /\ IssuedOnly /\ HeldAlone /\ PairKept
        /\ UNCHANGED <<agent, next, lost>>
    BY DEF PairInv, PairsApart, TypeOK, Tokens, Reconnect, Disconnect, Revoke, platformVars
  <1>2. CASE Reconnect
    <2>1. /\ issued' = issued + 1
          /\ stored' = issued + 1
          /\ accepted' = accepted \cup {issued + 1}
          /\ revoked' = revoked
      BY <1>2 DEF Reconnect
    <2>2. IssuedOnly'
      <3>1. accepted' \subseteq 1..issued'
        BY <1>1, <2>1 DEF IssuedOnly
      <3>2. ASSUME NEW v \in Agents, agent[v].at \in {"exchange", "store"}
            PROVE  agent[v].pair <= issued'
        <4>1. agent[v].pair \in Tokens /\ agent[v].pair <= issued
          BY <1>1, <3>2, AgentTypes DEF IssuedOnly, PairInv
        <4>2. QED
          BY <1>1, <2>1, <4>1 DEF Tokens
      <3>3. QED
        BY <1>1, <2>1, <3>1, <3>2 DEF IssuedOnly
    <2>3. HeldAlone'
      <3>1. ASSUME NEW v \in Agents, NEW n \in Tokens, Holds(v, n) PROVE stored' # n
        BY <1>1, <2>1, <3>1 DEF IssuedOnly, Holds, Tokens
      <3>2. QED
        BY <1>1, <2>1, <3>1 DEF HeldAlone, Holds, Presents
    <2>4. PairKept'
      BY <2>1 DEF PairKept
    <2>5. QED
      BY <2>2, <2>3, <2>4 DEF PairsApart
  <1>3. CASE Disconnect
    <2>1. stored' = NoToken /\ UNCHANGED <<issued, accepted, revoked>>
      BY <1>3 DEF Disconnect, platformVars
    <2>2. IssuedOnly'
      BY <1>1, <2>1 DEF IssuedOnly, NoToken
    <2>3. HeldAlone'
      BY <1>1, <2>1 DEF HeldAlone, Holds, Presents, NoToken, Tokens
    <2>4. PairKept'
      BY <2>1 DEF PairKept
    <2>5. QED
      BY <2>2, <2>3, <2>4 DEF PairsApart
  <1>4. CASE Revoke
    <2>1. accepted' = {} /\ revoked' = 1..issued /\ UNCHANGED <<stored, issued>>
      BY <1>4 DEF Revoke, dbVars
    <2>2. IssuedOnly'
      BY <1>1, <2>1 DEF IssuedOnly
    <2>3. HeldAlone'
      <3>1. ASSUME NEW v \in Agents, NEW n \in Tokens, Holds(v, n) PROVE n \in revoked'
        BY <1>1, <2>1, <3>1 DEF IssuedOnly, Holds, Tokens
      <3>2. QED
        BY <1>1, <2>1, <3>1 DEF HeldAlone, Holds, Presents
    <2>4. PairKept'
      BY <1>1, <2>1 DEF PairKept, IssuedOnly, PairInv, TypeOK, Tokens, NoToken
    <2>5. QED
      BY <2>2, <2>3, <2>4 DEF PairsApart
  <1>5. QED
    BY <1>2, <1>3, <1>4

(* No overlap of syncs, cron, reconnects and disconnects loses a pair: only a *)
(* fault between the exchange and the update leaves the row with a refresh    *)
(* token that has been used.                                                  *)
THEOREM NoPairLost == Spec => []PairKept
  <1>1. Init => PairsApart
    BY TokenAssumption DEF Init, PairsApart, IssuedOnly, HeldAlone, Holds, PairKept, Idle, Tokens
  <1>2. TypeOK /\ PairsApart /\ [Next]_vars => PairsApart'
    <2> SUFFICES ASSUME PairInv, [Next]_vars PROVE PairsApart'
      BY DEF PairInv
    <2>1. QED
      BY RefreshConserves, SyncConserves, UserConserves DEF Next
  <1>3. PairsApart => PairKept
    BY DEF PairsApart
  <1>4. QED
    BY <1>1, <1>2, <1>3, TokenTyped, PTL DEF Spec
=============================================================================
