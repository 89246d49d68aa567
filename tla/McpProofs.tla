----------------------------- MODULE McpProofs -----------------------------
(* Proofs about McpOAuth: its type invariant, that a session that is over   *)
(* stays over, and that a session ends for a reason.                        *)
EXTENDS McpOAuth, TLAPS

(* What the type invariant says of the variables' ranges, and of what a *)
(* request or a pair belongs to.                                        *)
Types ==
  /\ code \in [Codes -> CodeStates]
  /\ pair \in [Pairs -> Row \cup {None}]
  /\ call \in [Calls -> Work \cup {Idle}]
  /\ reason \in [Codes -> SUBSET Reasons]

Belongs ==
  /\ \A k \in Calls : call[k] # Idle => code[call[k].of] = "used"
  /\ \A k \in Calls : call[k].at = "rotate" => pair[call[k].old] # None /\ pair[call[k].old].of = call[k].of
  /\ \A p \in Pairs : pair[p] # None => code[pair[p].of] = "used"

LEMMA TypeOKParts == TypeOK <=> Types /\ Belongs /\ ExchangedOnce
  BY DEF TypeOK, Types, Belongs

LEMMA InitTypeOK == Init => TypeOK
  BY DEF Init, TypeOK, ExchangedOnce, CodeStates, Idle

(* The steps of one request once it is in hand. *)
Works(k) == Refuse(k) \/ Accept(k) \/ Rotate(k) \/ Issue(k) \/ Crash(k)

(* A request in hand works on a session, and a pair is one of a session. *)
LEMMA WorkHolds ==
  ASSUME Types, NEW k \in Calls, call[k] # Idle
  PROVE  /\ call[k].of \in Codes /\ call[k].at \in {"check", "issue", "rotate"}
         /\ call[k].at = "rotate" => call[k].old \in Pairs
  BY DEF Types, Work, Idle

LEMMA PairHolds ==
  ASSUME Types, NEW p \in Pairs, pair[p] # None
  PROVE  pair[p] \in Row
  BY DEF Types

LEMMA WorksOnWork ==
  ASSUME NEW k \in Calls, Works(k)
  PROVE  call[k] # Idle
  BY DEF Works, Refuse, Accept, Rotate, Issue, Crash, Idle

LEMMA RowUpdates ==
  ASSUME NEW r \in Row
  PROVE  /\ [r EXCEPT !.revoked = TRUE] \in Row /\ [r EXCEPT !.revoked = TRUE].of = r.of
         /\ [r EXCEPT !.expired = TRUE] \in Row /\ [r EXCEPT !.expired = TRUE].of = r.of
         /\ [r EXCEPT !.revoked = TRUE].revoked
         /\ [r EXCEPT !.expired = TRUE].expired
  BY DEF Row

LEMMA TypesKept == TypeOK /\ [Next]_vars => Types'
  <1> SUFFICES ASSUME Types, Belongs, [Next]_vars PROVE Types' BY TypeOKParts
  <1>1. ASSUME NEW c \in Codes, Grant(c) PROVE Types' BY <1>1 DEF Types, Grant, CodeStates
  <1>2. ASSUME NEW c \in Codes, ExpireCode(c) PROVE Types' BY <1>2 DEF Types, ExpireCode, CodeStates
  <1>3. ASSUME NEW c \in Codes, NEW k \in Calls, Consume(k, c) PROVE Types'
    BY <1>3 DEF Types, Consume, Does, CodeStates, Work
  <1>4. ASSUME NEW k \in Calls, Works(k) PROVE Types'
    <2>1. call[k] # Idle BY <1>4, WorksOnWork
    <2>2. call[k].of \in Codes /\ (call[k].at = "rotate" => call[k].old \in Pairs) BY <2>1, WorkHolds
    <2>3. CASE Refuse(k) BY <2>2, <2>3 DEF Types, Refuse, Does, Ends, Reasons
    <2>4. CASE Accept(k) BY <2>2, <2>4 DEF Types, Accept, Does, Work
    <2>5. CASE Rotate(k)
      <3>1. call' \in [Calls -> Work \cup {Idle}] BY <2>2, <2>5 DEF Types, Rotate, Does, Work
      <3>2. pair[call[k].old] \in Row BY <2>2, <2>5, PairHolds DEF Belongs, Rotate
      <3>3. pair' \in [Pairs -> Row \cup {None}] BY <3>2, <2>5, RowUpdates DEF Types, Rotate
      <3>4. QED BY <3>1, <3>3, <2>5 DEF Types, Rotate
    <2>6. CASE Issue(k) BY <2>2, <2>6 DEF Types, Issue, Does, Row
    <2>7. CASE Crash(k) BY <2>2, <2>7 DEF Types, Crash, Does, Ends, Reasons
    <2>8. QED BY <1>4, <2>3, <2>4, <2>5, <2>6, <2>7 DEF Works
  <1>5. ASSUME NEW p \in Pairs, Revoke(p) PROVE Types'
    <2>1. pair[p] \in Row BY <1>5, PairHolds DEF Revoke
    <2>2. pair' \in [Pairs -> Row \cup {None}] BY <2>1, <1>5, RowUpdates DEF Types, Revoke, RowOf
    <2>3. pair[p].of \in Codes BY <2>1 DEF Row
    <2>4. QED BY <2>2, <2>3, <1>5 DEF Types, Revoke, Ends, Reasons
  <1>6. ASSUME NEW p \in Pairs, ExpirePair(p) PROVE Types'
    <2>1. pair[p] \in Row BY <1>6, PairHolds DEF ExpirePair
    <2>2. pair' \in [Pairs -> Row \cup {None}] BY <2>1, <1>6, RowUpdates DEF Types, ExpirePair
    <2>3. pair[p].of \in Codes BY <2>1 DEF Row
    <2>4. QED BY <2>2, <2>3, <1>6 DEF Types, ExpirePair, Ends, Reasons
  <1>7. ASSUME NEW p \in Pairs, NEW k \in Calls, ReadRefresh(k, p) PROVE Types'
    <2>1. pair[p].of \in Codes BY <1>7, PairHolds DEF ReadRefresh, Live, Row
    <2>2. QED BY <2>1, <1>7 DEF Types, ReadRefresh, Does, Work
  <1>8. CASE UNCHANGED vars BY <1>8 DEF vars, Types
  <1>9. QED BY <1>1, <1>2, <1>3, <1>4, <1>5, <1>6, <1>7, <1>8 DEF Next, Works

(* How a step changes a pair: it may mark it, and rows do not go or change *)
(* hands; a new row is of the session of a request that issues.            *)
Marks ==
  \A q \in Pairs : pair[q] # None =>
    /\ pair'[q] # None /\ pair'[q].of = pair[q].of
    /\ pair'[q] # pair[q] => pair'[q].revoked \/ pair'[q].expired
NewIsIssued ==
  \A q \in Pairs : pair[q] = None /\ pair'[q] # None =>
    \E k \in Calls : call[k].at = "issue" /\ call' = [call EXCEPT ![k] = Idle] /\ pair'[q].of = call[k].of

LEMMA PairsOnlyMarked == TypeOK /\ [Next]_vars => Marks /\ NewIsIssued
  <1> SUFFICES ASSUME Types, Belongs, [Next]_vars PROVE Marks /\ NewIsIssued BY TypeOKParts
  <1>1. CASE UNCHANGED pair BY <1>1 DEF Marks, NewIsIssued
  <1>2. ASSUME NEW k \in Calls, Rotate(k) PROVE Marks /\ NewIsIssued
    <2>1. call[k].old \in Pairs BY <1>2, WorkHolds DEF Rotate, Idle
    <2> DEFINE r == pair[call[k].old]
               s == [r EXCEPT !.revoked = TRUE]
    <2>2. r \in Row BY <2>1, <1>2, PairHolds DEF Belongs, Rotate
    <2>3. s # None /\ s.of = r.of /\ r # None /\ (s.revoked \/ s.expired) BY <2>2, RowUpdates, OAuthAssumption
    <2>4. pair' = [pair EXCEPT ![call[k].old] = s] BY <1>2 DEF Rotate
    <2> HIDE DEF s
    <2>5. QED BY <2>1, <2>3, <2>4 DEF Marks, NewIsIssued, Types
  <1>3. ASSUME NEW k \in Calls, Issue(k) PROVE Marks /\ NewIsIssued
    <2> DEFINE s == [of |-> call[k].of, revoked |-> FALSE, expired |-> FALSE]
    <2>1. PICK p \in Pairs : pair[p] = None /\ pair' = [pair EXCEPT ![p] = s] BY <1>3 DEF Issue
    <2>2. s.of = call[k].of OBVIOUS
    <2>3. call[k].at = "issue" /\ call' = [call EXCEPT ![k] = Idle] BY <1>3 DEF Issue, Does
    <2> HIDE DEF s
    <2>4. \A q \in Pairs : pair'[q] = IF q = p THEN s ELSE pair[q] BY <2>1 DEF Types
    <2>5. QED BY <2>1, <2>2, <2>3, <2>4 DEF Marks, NewIsIssued
  <1>4. ASSUME NEW p \in Pairs, Revoke(p) PROVE Marks /\ NewIsIssued
    <2> DEFINE r == pair[p]
               s == [r EXCEPT !.revoked = TRUE]
    <2>1. r \in Row BY <1>4, PairHolds DEF Revoke
    <2>2. s # None /\ s.of = r.of /\ r # None /\ (s.revoked \/ s.expired) BY <2>1, RowUpdates, OAuthAssumption
    <2>3. \A q \in Pairs : pair'[q] = IF q = p THEN s ELSE pair[q] BY <1>4 DEF Revoke, RowOf
    <2> HIDE DEF s
    <2>4. QED BY <2>2, <2>3 DEF Marks, NewIsIssued
  <1>5. ASSUME NEW p \in Pairs, ExpirePair(p) PROVE Marks /\ NewIsIssued
    <2> DEFINE r == pair[p]
               s == [r EXCEPT !.expired = TRUE]
    <2>1. r \in Row BY <1>5, PairHolds DEF ExpirePair
    <2>2. s # None /\ s.of = r.of /\ r # None /\ (s.revoked \/ s.expired) BY <2>1, RowUpdates, OAuthAssumption
    <2>3. pair' = [pair EXCEPT ![p] = s] BY <1>5 DEF ExpirePair
    <2> HIDE DEF s
    <2>4. QED BY <2>2, <2>3 DEF Marks, NewIsIssued, Types
  <1>6. QED
    BY <1>1, <1>2, <1>3, <1>4, <1>5
    DEF Next, vars, Grant, ExpireCode, Consume, Refuse, Accept, Crash, ReadRefresh

(* How a step changes the requests: at most one takes up a session or goes on *)
(* with its own.                                                              *)
NewWork(k) ==
  \/ \E c \in Codes : Consume(k, c)
  \/ \E p \in Pairs : ReadRefresh(k, p)

LEMMA CallsChange == TypeOK /\ [Next]_vars => UNCHANGED call \/ \E k \in Calls : Works(k) \/ NewWork(k)
  BY DEF Next, vars, Works, NewWork, Grant, ExpireCode, Revoke, ExpirePair

LEMMA SpentStaysSpent ==
  ASSUME Types, [Next]_vars, NEW c \in Codes
  PROVE  /\ code[c] = "used" => code'[c] = "used"
         /\ code[c] \in {"used", "expired"} => code'[c] = code[c]
  BY DEF Types, CodeStates, Next, vars, Grant, ExpireCode, Consume, Unused, Refuse, Accept, Rotate, Issue,
         Crash, Revoke, ExpirePair, ReadRefresh

(* A request in hand stays with its session; one that is taken up is of a *)
(* spent code.                                                            *)
LEMMA WorkKept ==
  ASSUME TypeOK, [Next]_vars, NEW k \in Calls, call'[k] # Idle
  PROVE  \/ call[k] # Idle /\ call'[k].of = call[k].of /\ (call'[k].at # "issue" => call'[k] = call[k])
         \/ call[k] = Idle /\ NewWork(k)
  <1>1. CASE UNCHANGED call BY <1>1
  <1>2. ASSUME NEW l \in Calls, Works(l) \/ NewWork(l)
        PROVE  \/ call[k] # Idle /\ call'[k].of = call[k].of /\ (call'[k].at # "issue" => call'[k] = call[k])
               \/ call[k] = Idle /\ NewWork(k)
    <2>1. CASE l # k
      BY <2>1, <1>2 DEF Works, NewWork, Does, Refuse, Accept, Rotate, Issue, Crash, Consume, ReadRefresh, TypeOK
    <2>2. CASE l = k /\ Works(k)
      BY <2>2, WorksOnWork DEF Works, Does, Refuse, Accept, Rotate, Issue, Crash, TypeOK
    <2>3. CASE l = k /\ NewWork(k)
      BY <2>3 DEF NewWork, Consume, ReadRefresh
    <2>4. QED BY <1>2, <2>1, <2>2, <2>3
  <1>3. QED BY <1>1, <1>2, CallsChange
LEMMA BelongsKept == TypeOK /\ [Next]_vars => Belongs'
  <1> SUFFICES ASSUME TypeOK, Types, Belongs, [Next]_vars PROVE Belongs' BY TypeOKParts
  <1>1. ASSUME NEW k \in Calls, call'[k] # Idle PROVE code'[call'[k].of] = "used"
    <2>1. CASE call[k] # Idle /\ call'[k].of = call[k].of
      BY <2>1, WorkHolds, SpentStaysSpent DEF Belongs
    <2>2. CASE NewWork(k)
      <3>1. ASSUME NEW c \in Codes, Consume(k, c) PROVE code'[call'[k].of] = "used"
        BY <3>1 DEF Consume, Does, Types
      <3>2. ASSUME NEW p \in Pairs, ReadRefresh(k, p) PROVE code'[call'[k].of] = "used"
        BY <3>2 DEF ReadRefresh, Does, Types, Live, Belongs
      <3>3. QED BY <2>2, <3>1, <3>2 DEF NewWork
    <2>3. QED BY <1>1, <2>1, <2>2, WorkKept
  <1>2. ASSUME NEW k \in Calls, call'[k].at = "rotate"
        PROVE  pair'[call'[k].old] # None /\ pair'[call'[k].old].of = call'[k].of
    <2>1. call'[k] # Idle BY <1>2 DEF Idle
    <2>2. CASE call[k] # Idle /\ call'[k] = call[k]
      BY <1>2, <2>2, WorkHolds, PairsOnlyMarked DEF Belongs, Marks
    <2>3. CASE NewWork(k)
      <3>1. PICK p \in Pairs : ReadRefresh(k, p)
        BY <1>2, <2>3 DEF NewWork, Consume, Does, Types
      <3>2. call'[k] = [at |-> "rotate", of |-> pair[p].of, old |-> p] /\ pair' = pair /\ pair[p] # None
        BY <3>1 DEF ReadRefresh, Does, Types, Live
      <3>3. QED BY <3>2
    <2>4. QED BY <1>2, <2>1, <2>2, <2>3, WorkKept
  <1>3. ASSUME NEW p \in Pairs, pair'[p] # None PROVE code'[pair'[p].of] = "used"
    <2>1. CASE pair[p] # None
      <3>1. pair'[p].of = pair[p].of BY <2>1, PairsOnlyMarked DEF Marks
      <3>2. pair[p].of \in Codes BY <2>1, PairHolds DEF Row
      <3>3. QED BY <3>1, <3>2, <2>1, SpentStaysSpent DEF Belongs
    <2>2. CASE pair[p] = None
      <3>1. PICK k \in Calls : call[k].at = "issue" /\ pair'[p].of = call[k].of
        BY <1>3, <2>2, PairsOnlyMarked DEF NewIsIssued
      <3>2. call[k] # Idle BY <3>1 DEF Idle
      <3>3. QED BY <3>1, <3>2, WorkHolds, SpentStaysSpent DEF Belongs
    <2>3. QED BY <2>1, <2>2
  <1>4. QED BY <1>1, <1>2, <1>3 DEF Belongs

(* A request that checks a code was the one to consume it: no other request *)
(* and no pair belonged to the code then, and none comes since.             *)
LEMMA ExchangedOnceKept == TypeOK /\ [Next]_vars => ExchangedOnce'
  <1> SUFFICES ASSUME TypeOK, Types, Belongs, ExchangedOnce, [Next]_vars,
                      NEW k \in Calls, call'[k].at = "check"
               PROVE  /\ \A l \in Calls \ {k} : call'[l] # Idle => call'[l].of # call'[k].of
                      /\ \A p \in Pairs : pair'[p] # None => pair'[p].of # call'[k].of
    BY TypeOKParts DEF ExchangedOnce
  <1>0. call'[k] # Idle BY DEF Idle
  <1>1. CASE call[k] # Idle /\ call'[k] = call[k]
    <2>1. ASSUME NEW l \in Calls \ {k}, call'[l] # Idle PROVE call'[l].of # call'[k].of
      <3>1. CASE call[l] # Idle /\ call'[l].of = call[l].of BY <1>1, <3>1 DEF ExchangedOnce
      <3>2. CASE NewWork(l)
        <4>1. ASSUME NEW c \in Codes, Consume(l, c) PROVE call'[l].of # call'[k].of
          <5>1. call'[l].of = c /\ code[c] = "open" BY <4>1 DEF Consume, Does, Types, Unused
          <5>2. QED BY <5>1, <1>1 DEF Belongs
        <4>2. ASSUME NEW p \in Pairs, ReadRefresh(l, p) PROVE call'[l].of # call'[k].of
          <5>1. call'[l].of = pair[p].of /\ pair[p] # None BY <4>2 DEF ReadRefresh, Does, Types, Live
          <5>2. QED BY <5>1, <1>1 DEF ExchangedOnce
        <4>3. QED BY <3>2, <4>1, <4>2 DEF NewWork
      <3>3. QED BY <2>1, <3>1, <3>2, WorkKept
    <2>2. ASSUME NEW p \in Pairs, pair'[p] # None PROVE pair'[p].of # call'[k].of
      <3>1. CASE pair[p] # None BY <3>1, <1>1, PairsOnlyMarked DEF Marks, ExchangedOnce
      <3>2. CASE pair[p] = None
        <4>1. PICK l \in Calls : call[l].at = "issue" /\ pair'[p].of = call[l].of
          BY <2>2, <3>2, PairsOnlyMarked DEF NewIsIssued
        <4>2. call[l] # Idle /\ l # k BY <4>1, <1>1 DEF Idle
        <4>3. QED BY <4>1, <4>2, <1>1 DEF ExchangedOnce
      <3>3. QED BY <3>1, <3>2
    <2>3. QED BY <2>1, <2>2
  <1>2. CASE NewWork(k)
    <2>1. PICK c \in Codes : Consume(k, c) BY <1>2 DEF NewWork, ReadRefresh, Does, Types
    <2>2. call'[k].of = c /\ code[c] = "open" /\ pair' = pair /\ \A l \in Calls \ {k} : call'[l] = call[l]
      BY <2>1 DEF Consume, Does, Types, Unused
    <2>3. QED BY <2>2 DEF Belongs
  <1>3. QED BY <1>0, <1>1, <1>2, WorkKept

(* The requests and pairs belong to spent codes, and a code is exchanged by  *)
(* one request, before any pair of it exists.                                *)
THEOREM TypeCorrect == Spec => []TypeOK
  <1>1. Init => TypeOK BY InitTypeOK
  <1>2. TypeOK /\ [Next]_vars => TypeOK' 
    <2> SUFFICES ASSUME TypeOK, [Next]_vars PROVE TypeOK' OBVIOUS
    <2>1. Types' /\ Belongs' /\ ExchangedOnce' BY TypesKept, BelongsKept, ExchangedOnceKept
    <2>2. QED BY <2>1 DEF TypeOK, Types, Belongs
  <1>3. QED BY <1>1, <1>2, PTL DEF Spec

(* No step brings a pair back to life. *)
LEMMA DeadStaysDead ==
  ASSUME TypeOK, [Next]_vars, NEW p \in Pairs, Live(p)'
  PROVE  \/ Live(p) /\ pair'[p].of = pair[p].of
         \/ \E k \in Calls : call[k] # Idle /\ call[k].of = pair'[p].of
  <1>1. CASE pair[p] # None BY <1>1, PairsOnlyMarked DEF Marks, Live
  <1>2. CASE pair[p] = None
    <2>1. PICK k \in Calls : call[k].at = "issue" /\ pair'[p].of = call[k].of
      BY <1>2, PairsOnlyMarked DEF NewIsIssued, Live
    <2>2. QED BY <2>1 DEF Idle
  <1>3. QED BY <1>1, <1>2

LEMMA OverKept ==
  ASSUME TypeOK, [Next]_vars, NEW c \in Codes, Over(c)
  PROVE  Over(c)'
  <1> USE TypeOKParts
  <1>1. code'[c] \in {"used", "expired"} BY SpentStaysSpent DEF Over
  <1>2. ASSUME NEW k \in Calls, call'[k] # Idle PROVE call'[k].of # c
    <2>1. CASE call[k] # Idle /\ call'[k].of = call[k].of BY <2>1 DEF Over, InHand
    <2>2. CASE NewWork(k)
      <3>1. ASSUME NEW d \in Codes, Consume(k, d) PROVE call'[k].of # c
        BY <3>1 DEF Consume, Does, Types, Unused, Over
      <3>2. ASSUME NEW p \in Pairs, ReadRefresh(k, p) PROVE call'[k].of # c
        BY <3>2 DEF ReadRefresh, Does, Types, Over
      <3>3. QED BY <2>2, <3>1, <3>2 DEF NewWork
    <2>3. QED BY <1>2, <2>1, <2>2, WorkKept
  <1>3. ASSUME NEW p \in Pairs, Live(p)' PROVE pair'[p].of # c
    BY <1>3, DeadStaysDead DEF Over, InHand
  <1>4. QED BY <1>1, <1>2, <1>3 DEF Over, InHand

(* A session that is over is never revived: neither by its code, nor by a *)
(* refresh token that is presented again, however late.                   *)
THEOREM SessionsStayOver == Spec => OverStaysOver
  <1>1. TypeOK /\ [Next]_vars => [\A c \in Codes : Over(c) => Over(c)']_vars BY OverKept
  <1>2. QED BY <1>1, TypeCorrect, PTL DEF Spec, OverStaysOver

(* What keeps a session from its end. *)
Alive(c) == InHand(c) \/ \E p \in Pairs : Live(p) /\ pair[p].of = c

(* What EndsForAReason says, with the session's life for its end. *)
LEMMA EndsOrLives ==
  EndsForAReason <=> \A c \in Codes : code[c] = "used" => Alive(c) \/ reason[c] # {}
  BY DEF EndsForAReason, Over, Alive

LEMMA EndsAdds ==
  ASSUME Types, NEW d \in Codes, NEW why, Ends(d, why)
  PROVE  reason'[d] # {} /\ \A c \in Codes : reason[c] # {} => reason'[c] # {}
  BY DEF Types, Ends

LEMMA ReasonsStay ==
  ASSUME Types, [Next]_vars, NEW c \in Codes, reason[c] # {}
  PROVE  reason'[c] # {}
  <1>1. ASSUME NEW k \in Calls, Refuse(k) \/ Crash(k) PROVE reason'[c] # {}
    <2>1. call[k] # Idle BY <1>1, WorksOnWork DEF Works
    <2>2. call[k].of \in Codes BY <2>1, WorkHolds
    <2>3. QED BY <1>1, <2>2, EndsAdds DEF Refuse, Crash
  <1>2. ASSUME NEW p \in Pairs, Revoke(p) \/ ExpirePair(p) PROVE reason'[c] # {}
    <2>1. pair[p] \in Row BY <1>2, PairHolds DEF Revoke, ExpirePair
    <2>2. pair[p].of \in Codes BY <2>1 DEF Row
    <2>3. QED BY <1>2, <2>2, EndsAdds DEF Revoke, ExpirePair
  <1>3. CASE UNCHANGED reason BY <1>3
  <1>4. QED
    BY <1>1, <1>2, <1>3
    DEF Next, vars, Grant, ExpireCode, Consume, Accept, Rotate, Issue, ReadRefresh

(* A request in hand stays so, has a pair issued, or leaves a reason. *)
LEMMA RequestServes ==
  ASSUME TypeOK, [Next]_vars, NEW k \in Calls, call[k] # Idle, NEW c \in Codes, call[k].of = c
  PROVE  Alive(c)' \/ reason'[c] # {}
  <1> USE TypeOKParts
  <1>1. CASE call'[k] # Idle /\ call'[k].of = c BY <1>1 DEF Alive, InHand
  <1>2. CASE Refuse(k) \/ Crash(k) BY <1>2, EndsAdds DEF Refuse, Crash
  <1>3. CASE Issue(k)
    <2> DEFINE s == [of |-> c, revoked |-> FALSE, expired |-> FALSE]
    <2>1. PICK p \in Pairs : pair' = [pair EXCEPT ![p] = s] BY <1>3 DEF Issue
    <2>2. s \in Row /\ s.of = c /\ ~s.revoked /\ ~s.expired BY DEF Row
    <2>3. pair'[p] = s BY <2>1 DEF Types
    <2>4. Live(p)' /\ pair'[p].of = c BY <2>2, <2>3, OAuthAssumption DEF Live
    <2>5. QED BY <2>4 DEF Alive
  <1>4. CASE Accept(k) \/ Rotate(k)
    <2>1. call'[k] = [at |-> "issue", of |-> c] BY <1>4 DEF Accept, Rotate, Does, Types
    <2>2. call'[k] # Idle /\ call'[k].of = c BY <2>1 DEF Idle
    <2>3. QED BY <2>2, <1>1
  <1>5. CASE UNCHANGED call BY <1>1, <1>5
  <1>6. ASSUME NEW l \in Calls, Works(l) \/ NewWork(l), l # k PROVE call'[k] = call[k]
    BY <1>6 DEF Works, NewWork, Does, Refuse, Accept, Rotate, Issue, Crash, Consume, ReadRefresh, Types
  <1>7. ~NewWork(k) BY DEF NewWork, Consume, ReadRefresh
  <1>8. QED BY <1>1, <1>2, <1>3, <1>4, <1>5, <1>6, <1>7, CallsChange DEF Works

(* A live pair stays so, or its request rotates it, or it leaves a reason. *)
LEMMA PairServes ==
  ASSUME TypeOK, [Next]_vars, NEW p \in Pairs, Live(p), NEW c \in Codes, pair[p].of = c
  PROVE  Alive(c)' \/ reason'[c] # {}
  <1> USE TypeOKParts
  <1>1. CASE pair'[p] = pair[p] BY <1>1 DEF Alive, Live
  <1>2. ASSUME NEW k \in Calls, Rotate(k), call[k].old = p PROVE Alive(c)'
    <2>1. call[k].of = c BY <1>2 DEF Rotate, Belongs
    <2>2. call'[k] = [at |-> "issue", of |-> c] BY <1>2, <2>1 DEF Rotate, Does, Types
    <2>3. call'[k] # Idle /\ call'[k].of = c BY <2>2 DEF Idle
    <2>4. QED BY <2>3 DEF Alive, InHand
  <1>3. CASE Revoke(p) \/ ExpirePair(p) BY <1>3, EndsAdds DEF Revoke, ExpirePair
  <1>4. ASSUME NEW k \in Calls, Rotate(k), call[k].old # p PROVE pair'[p] = pair[p]
    BY <1>4 DEF Rotate, Types
  <1>5. ASSUME NEW k \in Calls, Issue(k) PROVE pair'[p] = pair[p]
    BY <1>5 DEF Issue, Types, Live
  <1>6. ASSUME NEW q \in Pairs, Revoke(q) \/ ExpirePair(q), q # p PROVE pair'[p] = pair[p]
    BY <1>6 DEF Revoke, RowOf, ExpirePair, Types
  <1>7. QED
    BY <1>1, <1>2, <1>3, <1>4, <1>5, <1>6
    DEF Next, vars, Grant, ExpireCode, Consume, Refuse, Accept, Crash, ReadRefresh

(* A code that is spent now was consumed in this step. *)
LEMMA SpentByConsume ==
  ASSUME Types, [Next]_vars, NEW c \in Codes, code[c] # "used", code'[c] = "used"
  PROVE  \E k \in Calls : Consume(k, c)
  <1>1. ASSUME NEW d \in Codes, Grant(d) \/ ExpireCode(d) PROVE FALSE
    BY <1>1 DEF Grant, ExpireCode, Types
  <1>2. ASSUME NEW d \in Codes, NEW k \in Calls, Consume(k, d) PROVE d = c
    BY <1>2 DEF Consume, Types
  <1>3. code' # code OBVIOUS
  <1>4. QED
    BY <1>1, <1>2, <1>3
    DEF Next, vars, Refuse, Accept, Rotate, Issue, Crash, Revoke, ExpirePair, ReadRefresh

LEMMA EndsKept == TypeOK /\ EndsForAReason /\ [Next]_vars => EndsForAReason'
  <1> SUFFICES ASSUME TypeOK, EndsForAReason, [Next]_vars, NEW c \in Codes, Over(c)', code'[c] = "used"
               PROVE  reason'[c] # {}
    BY DEF EndsForAReason
  <1> USE TypeOKParts
  <1>0. ~Alive(c)' BY DEF Over, Alive
  <1>1. CASE code[c] = "used"
    <2>1. CASE reason[c] # {} BY <2>1, ReasonsStay
    <2>2. CASE InHand(c)
      <3>1. PICK k \in Calls : call[k] # Idle /\ call[k].of = c BY <2>2 DEF InHand
      <3>2. QED BY <3>1, <1>0, RequestServes
    <2>3. CASE \E p \in Pairs : Live(p) /\ pair[p].of = c
      <3>1. PICK p \in Pairs : Live(p) /\ pair[p].of = c BY <2>3
      <3>2. QED BY <3>1, <1>0, PairServes
    <2>4. QED BY <1>1, <2>1, <2>2, <2>3, EndsOrLives DEF Alive
  <1>2. CASE code[c] # "used"
    <2>1. PICK k \in Calls : Consume(k, c) BY <1>2, SpentByConsume
    <2>2. call'[k] = [at |-> "check", of |-> c] BY <2>1 DEF Consume, Does, Types
    <2>3. call'[k] # Idle /\ call'[k].of = c BY <2>2 DEF Idle
    <2>4. QED BY <2>3, <1>0 DEF Alive, InHand
  <1>3. QED BY <1>1, <1>2

(* A session does not end without a refused exchange, a revocation, an expired *)
(* refresh token or a request cut short, however refreshes race each other.    *)
THEOREM SessionsEndForAReason == Spec => []EndsForAReason
  <1>1. Init => EndsForAReason BY DEF Init, EndsForAReason
  <1>2. QED BY <1>1, EndsKept, TypeCorrect, PTL DEF Spec
=============================================================================
