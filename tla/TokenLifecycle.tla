--------------------------- MODULE TokenLifecycle ---------------------------
(***************************************************************************)
(* The tokens of one account on a platform whose refresh tokens rotate     *)
(* (Twitch, TikTok): syncs of several products that refresh on use, the    *)
(* hourly refresh cron, the daily canary, and the user who revokes,        *)
(* reconnects or disconnects.                                              *)
(*                                                                         *)
(* Token n stands for the n-th pair the platform issued: an access token   *)
(* that ages and a refresh token that works once.  Other accounts share    *)
(* nothing with this one but the crons' loops, whose rows are all read at  *)
(* their start.                                                            *)
(***************************************************************************)
EXTENDS Naturals

CONSTANTS
  Workers,         \* workers syncing a product of the account each
  Cron,            \* the refresh cron
  MaxTokens,       \* bound: pairs the platform issues
  MaxDisturbances  \* bound: faults, crashes and requests in a behaviour

ASSUME TokenAssumption ==
  /\ Cron \notin Workers
  /\ MaxTokens \in Nat \ {0}
  /\ MaxDisturbances \in Nat

VARIABLES
  status,    \* accounts.status
  stored,    \* the pair in the oauth_tokens row, if there is one
  agent,     \* who may be refreshing: the workers and the cron
  canary,    \* the canary's probe
  issued,    \* pairs issued so far
  accepted,  \* platform: the pairs whose refresh token it accepts
  revoked,   \* platform: the pairs the user has withdrawn
  age,       \* how close each access token is to its expiry
  next,      \* history: the pair issued in exchange for each
  lost,      \* history: pairs that a fault kept from the row
  left       \* disturbances that may still happen

dbVars == <<status, stored>>
platformVars == <<issued, accepted, revoked, age, next>>
vars == <<dbVars, platformVars, agent, canary, lost, left>>

Tokens == 1..MaxTokens
NoToken == 0
Agents == Workers \cup {Cron}

(* due: within the cron's lead; late: within ensureFresh's. *)
Ages == {"fresh", "due", "late", "expired"}
Older == [fresh |-> "due", due |-> "late", late |-> "expired"]

Idle == [at |-> "idle"]
Syncs == [at : {"loaded", "call", "revoked"}, token : Tokens]
Refreshes == [at : {"exchange", "store", "flag"}, token : Tokens, pair : Tokens]
Probes == [at : {"probe", "heal", "flag"}, token : Tokens, was : {"ready", "needs_reauth"}]

TypeOK ==
  /\ status \in {"ready", "needs_reauth", "disconnected"}
  /\ stored \in Tokens \cup {NoToken}
  /\ agent \in [Agents -> Syncs \cup Refreshes \cup {Idle}]
  /\ canary \in Probes \cup {Idle}
  /\ issued \in Tokens
  /\ accepted \subseteq Tokens
  /\ revoked \subseteq Tokens
  /\ age \in [Tokens -> Ages]
  /\ next \in [Tokens -> Tokens \cup {NoToken}]
  /\ lost \subseteq Tokens
  /\ left \in 0..MaxDisturbances

Init ==
  /\ status = "ready"
  /\ stored = 1
  /\ agent = [u \in Agents |-> Idle]
  /\ canary = Idle
  /\ issued = 1
  /\ accepted = {1}
  /\ revoked = {}
  /\ age = [n \in Tokens |-> "fresh"]
  /\ next = [n \in Tokens |-> NoToken]
  /\ lost = {}
  /\ left = MaxDisturbances

Disturb == left > 0 /\ left' = left - 1

(* The platform serves an access token. *)
Works(n) == age[n] # "expired" /\ n \notin revoked

(* A worker goes on with the token it has; the cron's row is done. *)
After(u, n) == IF u = Cron THEN Idle ELSE [at |-> "call", token |-> n]
-----------------------------------------------------------------------------
(* refresh(accountId, refreshToken), for the worker and for the cron. *)

(* A new pair for a refresh token, which dies with it. *)
Issue(n) ==
  /\ issued < MaxTokens
  /\ issued' = issued + 1
  /\ accepted' = (accepted \ {n}) \cup {issued + 1}
  /\ next' = [next EXCEPT ![n] = issued + 1]
  /\ UNCHANGED <<revoked, age>>

Granted(u) ==
  /\ agent[u].at = "exchange"
  /\ agent[u].pair \in accepted
  /\ Issue(agent[u].pair)
  /\ agent' = [agent EXCEPT ![u].at = "store", ![u].pair = issued + 1]
  /\ UNCHANGED <<dbVars, canary, lost, left>>

(* A mutant: a rejected grant taken for an outage. *)
OutageFor(u) == After(u, agent[u].token)
RefusedFor(u) == IF u = Cron THEN [agent[u] EXCEPT !.at = "flag"] ELSE OutageFor(u)

(* A permanent error: the cron flags, ensureFresh falls back. *)
Refused(u) ==
  /\ agent[u].at = "exchange"
  /\ agent[u].pair \notin accepted
  /\ agent' = [agent EXCEPT ![u] = RefusedFor(u)]
  /\ UNCHANGED <<dbVars, platformVars, canary, lost, left>>

(* A transient one, or, if the platform has rotated by then, a lost answer. *)
Outage(u) ==
  /\ agent[u].at = "exchange"
  /\ \/ UNCHANGED <<platformVars, lost, left>>
     \/ /\ Disturb
        /\ agent[u].pair \in accepted
        /\ Issue(agent[u].pair)
        /\ lost' = lost \cup {issued + 1}
  /\ agent' = [agent EXCEPT ![u] = After(u, agent[u].token)]
  /\ UNCHANGED <<dbVars, canary>>

(* Mutants: the new pair not written; the row created again if it is gone. *)
NotWritten(n) == stored
Upserted(n) == n
Updated(n) == IF stored = NoToken THEN NoToken ELSE n

(* oAuthToken.update throws when the row is gone: the pair is dropped. *)
Store(u) ==
  /\ agent[u].at = "store"
  /\ stored' = Updated(agent[u].pair)
  /\ agent' = [agent EXCEPT ![u] =
       After(u, IF stored = NoToken THEN agent[u].token ELSE agent[u].pair)]
  /\ UNCHANGED <<status, platformVars, canary, lost, left>>

(* The update fails, or the process dies before it. *)
StoreError(u) ==
  /\ agent[u].at = "store"
  /\ Disturb
  /\ lost' = lost \cup {agent[u].pair}
  /\ agent' \in {[agent EXCEPT ![u] = After(u, agent[u].token)], [agent EXCEPT ![u] = Idle]}
  /\ UNCHANGED <<dbVars, platformVars, canary>>
-----------------------------------------------------------------------------
(* A sync. *)

Loadable == status = "ready" /\ stored # NoToken

Load(w) ==
  /\ agent[w] = Idle
  /\ Loadable
  /\ agent' = [agent EXCEPT ![w] = [at |-> "loaded", token |-> stored]]
  /\ UNCHANGED <<dbVars, platformVars, canary, lost, left>>

(* ensureFresh reads the row again. *)
EnsureFresh(w) ==
  /\ agent[w].at = "loaded"
  /\ agent' = [agent EXCEPT ![w] =
       IF stored # NoToken /\ age[stored] \in {"late", "expired"}
         THEN [at |-> "exchange", token |-> agent[w].token, pair |-> stored]
         ELSE [at |-> "call", token |-> agent[w].token]]
  /\ UNCHANGED <<dbVars, platformVars, canary, lost, left>>

(* The fetch ends, well or with an error that says nothing of the token ... *)
CallEnds(w) ==
  /\ agent[w].at = "call"
  /\ agent' = [agent EXCEPT ![w] = Idle]
  /\ UNCHANGED <<dbVars, platformVars, canary, lost, left>>

(* ... or the platform rejects the token (TokenRevokedError). *)
CallRejected(w) ==
  /\ agent[w].at = "call"
  /\ ~Works(agent[w].token)
  /\ agent' = [agent EXCEPT ![w].at = "revoked"]
  /\ UNCHANGED <<dbVars, platformVars, canary, lost, left>>

MarkRevoked(w) ==
  /\ agent[w].at = "revoked"
  /\ status' = "needs_reauth"
  /\ agent' = [agent EXCEPT ![w] = Idle]
  /\ UNCHANGED <<stored, platformVars, canary, lost, left>>
-----------------------------------------------------------------------------
(* The refresh cron. *)

CronScan ==
  /\ agent[Cron] = Idle
  /\ status = "ready"
  /\ stored # NoToken
  /\ age[stored] # "fresh"
  /\ agent' = [agent EXCEPT ![Cron] = [at |-> "exchange", token |-> stored, pair |-> stored]]
  /\ UNCHANGED <<dbVars, platformVars, canary, lost, left>>

(* flagNeedsReauth, whatever the row says by now. *)
CronFlag ==
  /\ agent[Cron].at = "flag"
  /\ status' = "needs_reauth"
  /\ agent' = [agent EXCEPT ![Cron] = Idle]
  /\ UNCHANGED <<stored, platformVars, canary, lost, left>>

(* A process dies, or one of its writes to the account fails. *)
Crash(u) ==
  /\ agent[u].at \notin {"idle", "store"}
  /\ Disturb
  /\ agent' = [agent EXCEPT ![u] = Idle]
  /\ UNCHANGED <<dbVars, platformVars, canary, lost>>
-----------------------------------------------------------------------------
(* The canary.  It probes the quiet accounts that are ready: how long ago *)
(* the last sync was is left open.                                        *)

CanaryScan ==
  /\ canary = Idle
  /\ status # "disconnected"
  /\ stored # NoToken
  /\ canary' = [at |-> "probe", token |-> stored, was |-> status]
  /\ UNCHANGED <<dbVars, platformVars, agent, lost, left>>

(* A mutant: the probe of a flagged account changes nothing. *)
NotHealed == Idle
Healed == IF canary.was = "needs_reauth" THEN [canary EXCEPT !.at = "heal"] ELSE Idle

ProbeHealthy ==
  /\ canary.at = "probe"
  /\ Works(canary.token)
  /\ canary' = Healed
  /\ UNCHANGED <<dbVars, platformVars, agent, lost, left>>

ProbeRejected ==
  /\ canary.at = "probe"
  /\ ~Works(canary.token)
  /\ canary' = IF canary.was = "ready" THEN [canary EXCEPT !.at = "flag"] ELSE Idle
  /\ UNCHANGED <<dbVars, platformVars, agent, lost, left>>

ProbeTransient ==
  /\ canary.at = "probe"
  /\ canary' = Idle
  /\ UNCHANGED <<dbVars, platformVars, agent, lost, left>>

(* Both writes follow the status read by the scan. *)
CanaryWrite ==
  /\ canary.at \in {"heal", "flag"}
  /\ status' = IF canary.at = "heal" THEN "ready" ELSE "needs_reauth"
  /\ canary' = Idle
  /\ UNCHANGED <<stored, platformVars, agent, lost, left>>

(* The process dies, or the write fails and ends the sweep. *)
CanaryCrash ==
  /\ canary # Idle
  /\ Disturb
  /\ canary' = Idle
  /\ UNCHANGED <<dbVars, platformVars, agent, lost>>
-----------------------------------------------------------------------------
(* The user, and time. *)

(* seedAccount, with the pair of a new authorization. *)
Reconnect ==
  /\ Disturb
  /\ issued < MaxTokens
  /\ issued' = issued + 1
  /\ accepted' = accepted \cup {issued + 1}
  /\ stored' = issued + 1
  /\ status' = "ready"
  /\ UNCHANGED <<revoked, age, next, agent, canary, lost>>

Disconnect ==
  /\ Disturb
  /\ status' = "disconnected"
  /\ stored' = NoToken
  /\ UNCHANGED <<platformVars, agent, canary, lost>>

(* At the platform: every pair of the account is dead. *)
Revoke ==
  /\ Disturb
  /\ accepted' = {}
  /\ revoked' = 1..issued
  /\ UNCHANGED <<dbVars, issued, age, next, agent, canary, lost>>

(* An access token ages, after those issued before it. *)
Age(n) ==
  /\ n <= issued
  /\ age[n] # "expired"
  /\ \A m \in 1..(n - 1) : age[m] # age[n]
  /\ age' = [age EXCEPT ![n] = Older[@]]
  /\ UNCHANGED <<dbVars, issued, accepted, revoked, next, agent, canary, lost, left>>
-----------------------------------------------------------------------------
Refresh(u) == Granted(u) \/ Refused(u) \/ Outage(u) \/ Store(u) \/ StoreError(u)

Sync(w) ==
  Load(w) \/ EnsureFresh(w) \/ CallEnds(w) \/ CallRejected(w) \/ MarkRevoked(w)

Probe == ProbeHealthy \/ ProbeRejected \/ ProbeTransient

Next ==
  \/ \E u \in Agents : Refresh(u) \/ Crash(u)
  \/ \E w \in Workers : Sync(w)
  \/ CronScan
  \/ CronFlag
  \/ CanaryScan
  \/ Probe
  \/ CanaryWrite
  \/ CanaryCrash
  \/ Reconnect
  \/ Disconnect
  \/ Revoke
  \/ \E n \in Tokens : Age(n)

Spec == Init /\ [][Next]_vars

(* The crons run again and finish their rows, tokens come near their expiry *)
(* and what the platform has to say of a token it says in the end.          *)
Fairness ==
  /\ WF_vars(CronScan)
  /\ WF_vars(Refresh(Cron))
  /\ SF_vars(Refused(Cron))
  /\ WF_vars(CronFlag)
  /\ WF_vars(CanaryScan /\ status = "needs_reauth")
  /\ WF_vars(Probe)
  /\ SF_vars(ProbeHealthy)
  /\ WF_vars(CanaryWrite)
  /\ \A n \in Tokens : WF_vars(Age(n) /\ age[n] = "fresh")

FairSpec == Spec /\ Fairness
-----------------------------------------------------------------------------
(* The row's refresh token works, unless the user withdrew it, someone is on  *)
(* the way to replace it, or a fault came between the exchange and the row:   *)
(* no overlap of syncs, cron and reconnects loses a pair.                     *)
PairKept ==
  stored \in accepted \cup revoked \cup {NoToken}
  \/ next[stored] \in lost
  \/ \E u \in Agents : agent[u].at = "store" /\ agent[u].pair = next[stored]

(* A refresh in flight does not bring back a token that a disconnect deleted. *)
DisconnectForgets == status = "disconnected" => stored = NoToken

(* A ready account whose grant is gone is flagged, though no sync uses it. *)
DeadIsFlagged ==
  (status = "ready" /\ stored \in revoked) ~> ~(status = "ready" /\ stored \in revoked)

(* An account flagged by mistake does not stay flagged while its token works. *)
FlaggedByMistake == status = "needs_reauth" /\ stored # NoToken /\ Works(stored)
FalseFlagHeals == FlaggedByMistake ~> ~FlaggedByMistake
=============================================================================
