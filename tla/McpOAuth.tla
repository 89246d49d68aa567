------------------------------ MODULE McpOAuth ------------------------------
(***************************************************************************)
(* The authorization server of the MCP endpoint: a grant mints a code, the *)
(* token endpoint exchanges it for a pair of an access and a refresh token,*)
(* a refresh revokes the pair's row and issues another, and a client may   *)
(* revoke a token.  Every Mongo call is a step of its own, several         *)
(* requests are in hand at a time, and the process may stop.               *)
(*                                                                         *)
(* A code stands for the session (client, workspace, scope) it was granted *)
(* for; access tokens' hour and a pair's two hashes are left out: a pair   *)
(* is live while its refresh token is good.                                *)
(***************************************************************************)
EXTENDS FiniteSets

CONSTANTS
  Codes,    \* authorization codes: sessions
  Pairs,    \* rows of mcp_oauth_tokens
  Calls,    \* requests at the token endpoint at a time
  None

VARIABLES
  code,     \* mcp_oauth_codes
  pair,     \* mcp_oauth_tokens: the row of each pair, or None
  call,     \* what each request is doing
  reason    \* history: why a session may have come to its end

vars == <<code, pair, call, reason>>

CodeStates == {"absent", "open", "used", "expired"}
Row == [of : Codes, revoked : BOOLEAN, expired : BOOLEAN]

ASSUME OAuthAssumption == None \notin Row

Idle == [at |-> "idle"]
Work == [at : {"rotate"}, of : Codes, old : Pairs] \cup [at : {"check", "issue"}, of : Codes]
Reasons == {"refused", "revoked", "expired", "crash"}

Live(p) == pair[p] # None /\ ~pair[p].revoked /\ ~pair[p].expired
InHand(c) == \E k \in Calls : call[k] # Idle /\ call[k].of = c

(* While a request exchanges a code, no other works on its session, which has *)
(* no pair yet.                                                               *)
ExchangedOnce ==
  \A k \in Calls : call[k].at = "check" =>
    /\ \A l \in Calls \ {k} : call[l] # Idle => call[l].of # call[k].of
    /\ \A p \in Pairs : pair[p] # None => pair[p].of # call[k].of

TypeOK ==
  /\ code \in [Codes -> CodeStates]
  /\ pair \in [Pairs -> Row \cup {None}]
  /\ call \in [Calls -> Work \cup {Idle}]
  /\ reason \in [Codes -> SUBSET Reasons]
  /\ \A k \in Calls : call[k] # Idle => code[call[k].of] = "used"
  /\ \A k \in Calls : call[k].at = "rotate" => pair[call[k].old] # None /\ pair[call[k].old].of = call[k].of
  /\ \A p \in Pairs : pair[p] # None => code[pair[p].of] = "used"
  /\ ExchangedOnce
-----------------------------------------------------------------------------
Init ==
  /\ code = [c \in Codes |-> "absent"]
  /\ pair = [p \in Pairs |-> None]
  /\ call = [k \in Calls |-> Idle]
  /\ reason = [c \in Codes |-> {}]

(* The consent's handoff mints a code. *)
Grant(c) ==
  /\ code[c] = "absent"
  /\ code' = [code EXCEPT ![c] = "open"]
  /\ UNCHANGED <<pair, call, reason>>

Does(k, work) == call' = [call EXCEPT ![k] = work]
Ends(c, why) == reason' = [reason EXCEPT ![c] = @ \cup {why}]

(* Mutant: the filter without `used: false`. *)
Unexpired(c) == code[c] \in {"open", "used"}

Unused(c) == code[c] = "open"

(* consumeCode(): one findOneAndUpdate. *)
Consume(k, c) ==
  /\ call[k] = Idle
  /\ Unused(c)
  /\ code' = [code EXCEPT ![c] = "used"]
  /\ Does(k, [at |-> "check", of |-> c])
  /\ UNCHANGED <<pair, reason>>

(* The client, the redirect URI or the verifier is not the code's: the code *)
(* is spent all the same.                                                   *)
Refuse(k) ==
  /\ call[k].at = "check"
  /\ Does(k, Idle)
  /\ Ends(call[k].of, "refused")
  /\ UNCHANGED <<code, pair>>

Accept(k) ==
  /\ call[k].at = "check"
  /\ Does(k, [at |-> "issue", of |-> call[k].of])
  /\ UNCHANGED <<code, pair, reason>>

(* refresh() reads the row, revokes it and issues a pair, in three calls. *)
ReadRefresh(k, p) ==
  /\ call[k] = Idle
  /\ Live(p)
  /\ Does(k, [at |-> "rotate", of |-> pair[p].of, old |-> p])
  /\ UNCHANGED <<code, pair, reason>>

Rotate(k) ==
  /\ call[k].at = "rotate"
  /\ pair' = [pair EXCEPT ![call[k].old].revoked = TRUE]
  /\ Does(k, [at |-> "issue", of |-> call[k].of])
  /\ UNCHANGED <<code, reason>>

Issue(k) ==
  /\ call[k].at = "issue"
  /\ \E p \in Pairs :
       /\ pair[p] = None
       /\ pair' = [pair EXCEPT ![p] = [of |-> call[k].of, revoked |-> FALSE, expired |-> FALSE]]
  /\ Does(k, Idle)
  /\ UNCHANGED <<code, reason>>

(* Mutant: every pair there is of the client. *)
AllOf(p) == {q \in Pairs : pair[q] # None}

(* revoke() marks the row that has the token. *)
RowOf(p) == {p}

Revoke(p) ==
  /\ pair[p] # None
  /\ pair' = [q \in Pairs |-> IF q \in RowOf(p) THEN [pair[q] EXCEPT !.revoked = TRUE] ELSE pair[q]]
  /\ Ends(pair[p].of, "revoked")
  /\ UNCHANGED <<code, call>>

ExpireCode(c) ==
  /\ code[c] = "open"
  /\ code' = [code EXCEPT ![c] = "expired"]
  /\ UNCHANGED <<pair, call, reason>>

ExpirePair(p) ==
  /\ pair[p] # None
  /\ pair' = [pair EXCEPT ![p].expired = TRUE]
  /\ Ends(pair[p].of, "expired")
  /\ UNCHANGED <<code, call>>

(* The process stops, or a Mongo call of a request fails. *)
Crash(k) ==
  /\ call[k] # Idle
  /\ Does(k, Idle)
  /\ Ends(call[k].of, "crash")
  /\ UNCHANGED <<code, pair>>

Next ==
  \/ \E c \in Codes : Grant(c) \/ ExpireCode(c) \/ \E k \in Calls : Consume(k, c)
  \/ \E k \in Calls : Refuse(k) \/ Accept(k) \/ Rotate(k) \/ Issue(k) \/ Crash(k)
  \/ \E p \in Pairs : Revoke(p) \/ ExpirePair(p) \/ \E k \in Calls : ReadRefresh(k, p)

Spec == Init /\ [][Next]_vars
-----------------------------------------------------------------------------
(* A session is over once its code is spent, no pair of it is live and no    *)
(* request works on it.                                                      *)
Over(c) == code[c] \in {"used", "expired"} /\ ~InHand(c) /\ \A p \in Pairs : Live(p) => pair[p].of # c

(* Nothing revives a session that is over: neither its code nor a refresh    *)
(* token rotated, revoked or expired before, presented again however late.   *)
OverStaysOver == [][\A c \in Codes : Over(c) => Over(c)']_vars

(* A session does not end unless its client had the exchange refused or       *)
(* revoked a token of it, a refresh token ran out or a request was cut short: *)
(* refreshes that race each other do not revoke each other's new pair.        *)
EndsForAReason == \A c \in Codes : Over(c) /\ code[c] = "used" => reason[c] # {}
=============================================================================
