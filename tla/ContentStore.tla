---------------------------- MODULE ContentStore ----------------------------
(***************************************************************************)
(* What a sync does with the posts it fetched: CanonicalWriteService reads *)
(* the stored documents, merges the fetched ones over them and writes them *)
(* back; the dispatcher then announces new posts, and changed metrics at   *)
(* most once per interval.  The products of an account share its documents *)
(* and hold a lock each, so that their syncs overlap: two that store posts *)
(* (feeds), or a feed and the deep analytics, which are folded into the    *)
(* posts that are stored.  An operator may erase the account meanwhile.    *)
(***************************************************************************)
EXTENDS Integers, FiniteSets

CONSTANTS
  Posts,
  Recent,      \* those within the window of refreshes
  Feeds,       \* products that store posts
  Deep,        \* the product engagement_deep
  Catalog,     \* the products of each platform
  Last,        \* bound: the last version of each post's numbers
  MaxSyncs,    \* bound: syncs that fetch something
  MaxFaults    \* bound: failing calls and crashes

Products == Feeds \cup {Deep}

ASSUME ContentAssumption ==
  /\ Recent \subseteq Posts /\ Deep \notin Feeds /\ Catalog \subseteq SUBSET Products
  /\ Last \in [Posts -> Nat] /\ MaxSyncs \in Nat /\ MaxFaults \in Nat

VARIABLES
  products,  \* of the account's platform
  account,   \* whether its row exists
  live,      \* the version of each post's numbers when it was last fetched, 0 before
  doc,       \* the stored document of each post
  hand,      \* the sync in hand of each product
  throttle,  \* the refresh_emit keys
  erase,     \* what an operator's erase has come to
  stale,     \* history: posts a product changed since it was last announced
  excused,   \* history: those of them whose announcement may not come
  late,      \* history: posts written after an erase went past them
  spare       \* syncs and faults still allowed

storeVars == <<products, account, live, doc, hand, throttle, erase, stale, excused, late, spare>>

Versions == UNION {0..Last[p] : p \in Posts}
Unknown == 0   \* a number that no call has filled: null, or an empty part of the deep analytics
Documents == [stored : BOOLEAN, metric : Versions, deep : Versions]
Absent == [stored |-> FALSE, metric |-> Unknown, deep |-> Unknown]
Idle == [at |-> "idle"]
Busy(k) == hand[k] # Idle
Stored == {p \in Posts : doc[p].stored}

(* What a sync holds of some of the posts. *)
Fetched == UNION {[S -> Versions] : S \in SUBSET Posts}
ReadBack == UNION {[S -> Documents] : S \in SUBSET Posts}
Hands == [at : {"fetched", "fold"}, got : Fetched] \cup
         [at : {"write"}, got : Fetched, prev : ReadBack, added : BOOLEAN, updated : BOOLEAN,
          alone : BOOLEAN, effect : BOOLEAN]

StoreTypeOK ==
  /\ products \in Catalog /\ account \in BOOLEAN
  /\ live \in [Posts -> Versions]
  /\ doc \in [Posts -> Documents]
  /\ \A p \in Posts \ Stored : doc[p] = Absent
  /\ hand \in [Products -> Hands \cup {Idle}]
  /\ \A k \in Products : Busy(k) =>
       /\ k \in products /\ (hand[k].at = "fold" <=> k = Deep)
       /\ \A p \in DOMAIN hand[k].got : hand[k].got[p] <= live[p]
       /\ hand[k].at = "write" => DOMAIN hand[k].prev = DOMAIN hand[k].got
  /\ throttle \in [Feeds -> BOOLEAN]
  /\ erase \in {"idle", "drop"} /\ (~account => erase = "idle")
  /\ stale \in [Feeds -> SUBSET Posts] /\ excused \in [Feeds -> SUBSET Posts]
  /\ \A k \in Feeds : excused[k] \subseteq stale[k]
  /\ late \subseteq Posts
  /\ spare \in [syncs : 0..MaxSyncs, faults : 0..MaxFaults]
-----------------------------------------------------------------------------
StoreInit ==
  /\ products \in Catalog /\ account = TRUE
  /\ live = [p \in Posts |-> 0]
  /\ doc = [p \in Posts |-> Absent]
  /\ hand = [k \in Products |-> Idle]
  /\ throttle = [k \in Feeds |-> FALSE]
  /\ erase = "idle"
  /\ stale = [k \in Feeds |-> {}] /\ excused = [k \in Feeds |-> {}]
  /\ late = {}
  /\ spare = [syncs |-> MaxSyncs, faults |-> MaxFaults]

(* The worker has the account and fetches some posts, which may be new or  *)
(* have new numbers, and any of which may come without: a call that fails  *)
(* softly leaves its part out.  The deep analytics are of stored posts.    *)
Fetch(k) ==
  /\ account /\ k \in products /\ ~Busy(k)
  /\ spare.syncs > 0 /\ spare' = [spare EXCEPT !.syncs = @ - 1]
  /\ \E S \in SUBSET (IF k = Deep THEN Stored ELSE Posts) \ {{}}, moved \in SUBSET Posts :
       /\ moved \subseteq {p \in S : live[p] < Last[p]} /\ \A p \in S \ moved : live[p] > 0
       /\ live' = [p \in Posts |-> IF p \in moved THEN live[p] + 1 ELSE live[p]]
       /\ \E got \in [S -> Versions] :
            /\ \A p \in S : got[p] \in {live'[p], Unknown}
            /\ hand' = [hand EXCEPT ![k] = IF k = Deep THEN [at |-> "fold", got |-> got]
                                           ELSE [at |-> "fetched", got |-> got]]
  /\ UNCHANGED <<products, account, doc, throttle, erase, stale, excused, late>>

(* Mutant: the fetched document replaces the stored one. *)
Replace(prev, metric) == [stored |-> TRUE, metric |-> metric, deep |-> Unknown]

(* coalesceMerge of a fetched document over the stored one. *)
Merge(prev, metric) ==
  [stored |-> TRUE, metric |-> IF metric = Unknown THEN prev.metric ELSE metric, deep |-> prev.deep]

(* Mutant: the first number of a post is no change. *)
KnownChanged(p, prev, metric) ==
  p \in Recent /\ prev.stored /\ prev.metric # Unknown /\ prev.metric # Merge(prev, metric).metric

(* Mutant: compared with what was fetched, not with what is stored of it. *)
FetchedDiffers(p, prev, metric) == p \in Recent /\ prev.stored /\ prev.metric # metric

(* engagementChanged, of an existing post within the window. *)
Changed(p, prev, metric) ==
  p \in Recent /\ prev.stored /\ prev.metric # Merge(prev, metric).metric

(* The documents are read, and the operations made of what was read. *)
Load(k) ==
  /\ Busy(k) /\ hand[k].at = "fetched"
  /\ LET got == hand[k].got
     IN  hand' = [hand EXCEPT ![k] =
           [at |-> "write", got |-> got, prev |-> [p \in DOMAIN got |-> doc[p]],
            added |-> FALSE, updated |-> \E p \in DOMAIN got : Changed(p, doc[p], got[p]),
            alone |-> TRUE, effect |-> FALSE]]
  /\ UNCHANGED <<products, account, live, doc, throttle, erase, stale, excused, late, spare>>

Without(f, p) == [q \in DOMAIN f \ {p} |-> f[q]]

(* One operation of the unordered bulkWrite, an upsert of the document. *)
Write(k, p) ==
  /\ Busy(k) /\ hand[k].at = "write" /\ p \in DOMAIN hand[k].got
  /\ LET s == hand[k]
         kept == Merge(s.prev[p], s.got[p])
         news == ~doc[p].stored \/ (p \in Recent /\ doc[p].metric # kept.metric)
         alone == doc[p] = s.prev[p]
     IN  /\ doc' = [doc EXCEPT ![p] = kept]
         /\ stale' = [stale EXCEPT ![k] = IF news THEN @ \cup {p} ELSE @]
         /\ excused' = [excused EXCEPT ![k] = IF news /\ ~alone THEN @ \cup {p} ELSE @]
         /\ hand' = [hand EXCEPT ![k] =
              [s EXCEPT !.got = Without(s.got, p), !.prev = Without(s.prev, p), !.added = @ \/ ~doc[p].stored,
                        !.alone = @ /\ alone, !.effect = @ \/ news]]
  /\ late' = IF erase = "drop" \/ ~account THEN late \cup {p} ELSE late
  /\ UNCHANGED <<products, account, live, throttle, erase, spare>>

(* What is left of the fold after p. *)
Shortened(p) ==
  LET s == hand[Deep] IN IF DOMAIN s.got = {p} THEN Idle ELSE [s EXCEPT !.got = Without(s.got, p)]

(* Mutant: the fold upserts. *)
FoldUpserts(p) ==
  /\ Busy(Deep) /\ p \in DOMAIN hand[Deep].got
  /\ doc' = [doc EXCEPT ![p].deep = hand[Deep].got[p]]
  /\ hand' = [hand EXCEPT ![Deep] = Shortened(p)]
  /\ UNCHANGED <<products, account, live, throttle, erase, stale, excused, late, spare>>

(* One operation of the fold, which inserts nothing and sets what came as  *)
(* it came, an empty part over a full one too.  What it announces is       *)
(* another product than the feeds'.                                        *)
Fold(p) ==
  /\ Busy(Deep) /\ p \in DOMAIN hand[Deep].got
  /\ doc' = IF doc[p].stored THEN [doc EXCEPT ![p].deep = hand[Deep].got[p]] ELSE doc
  /\ hand' = [hand EXCEPT ![Deep] = Shortened(p)]
  /\ UNCHANGED <<products, account, live, throttle, erase, stale, excused, late, spare>>

(* Consumers read the posts again. *)
Announce(k) ==
  /\ stale' = [f \in Feeds |-> IF f = k THEN {} ELSE stale[f]]
  /\ excused' = [f \in Feeds |-> IF f = k THEN {} ELSE excused[f]]

(* The delta is complete: an addition is announced, and a change of numbers *)
(* if nothing was added.                                                   *)
Written(k) == Busy(k) /\ hand[k].at = "write" /\ DOMAIN hand[k].got = {}
Refresh(s) == ~s.added /\ s.updated

Fire(k) ==
  /\ Written(k) /\ hand' = [hand EXCEPT ![k] = Idle]
  /\ LET s == hand[k] IN
     \/ /\ ~account \/ (~s.added /\ ~s.updated)
        /\ UNCHANGED <<throttle, stale, excused>>
     \/ account /\ s.added /\ Announce(k) /\ UNCHANGED throttle
     \/ /\ account /\ Refresh(s) /\ throttle[k]
        /\ excused' = [excused EXCEPT ![k] = @ \cup stale[k]]
        /\ UNCHANGED <<throttle, stale>>
     \/ /\ account /\ Refresh(s) /\ ~throttle[k]
        /\ throttle' = [throttle EXCEPT ![k] = TRUE]
        /\ Announce(k)
  /\ UNCHANGED <<products, account, live, doc, erase, late, spare>>

(* The interval of a throttle passes. *)
Lapse(k) ==
  /\ throttle[k] /\ throttle' = [throttle EXCEPT ![k] = FALSE]
  /\ UNCHANGED <<products, account, live, doc, hand, erase, stale, excused, late, spare>>

(* A client has the posts within the window announced. *)
ManualRefresh(k) ==
  /\ account /\ k \in products /\ \E p \in Recent : doc[p].stored
  /\ Announce(k)
  /\ UNCHANGED <<products, account, live, doc, hand, throttle, erase, late, spare>>

Fault == spare.faults > 0 /\ spare' = [spare EXCEPT !.faults = @ - 1]

(* A call fails or the worker dies; the throttle may be taken by then. *)
Fails(k) ==
  /\ Fault /\ Busy(k) /\ hand' = [hand EXCEPT ![k] = Idle]
  /\ throttle' \in {throttle} \cup
       IF Written(k) /\ account /\ Refresh(hand[k])
       THEN {[throttle EXCEPT ![k] = TRUE]} ELSE {}
  /\ excused' = [f \in Feeds |-> IF f = k THEN excused[f] \cup stale[f] ELSE excused[f]]
  /\ UNCHANGED <<products, account, live, doc, erase, stale, late>>

(* Mutant: contents is missing in ERASE_MONGO_TARGETS. *)
PurgeOthers ==
  /\ account /\ erase = "idle" /\ erase' = "drop" /\ late' = {}
  /\ UNCHANGED <<products, account, live, doc, hand, throttle, stale, excused, spare>>

(* eraseAccount: the documents go, then the row, and with it the jobs. *)
Purge ==
  /\ account /\ erase = "idle" /\ erase' = "drop"
  /\ doc' = [p \in Posts |-> Absent] /\ late' = {}
  /\ stale' = [k \in Feeds |-> {}] /\ excused' = [k \in Feeds |-> {}]
  /\ UNCHANGED <<products, account, live, hand, throttle, spare>>

Drop ==
  /\ erase = "drop" /\ erase' = "idle" /\ account' = FALSE
  /\ stale' = [k \in Feeds |-> {}] /\ excused' = [k \in Feeds |-> {}]
  /\ UNCHANGED <<products, live, doc, hand, throttle, late, spare>>

EraseFails ==
  /\ Fault /\ erase # "idle" /\ erase' = "idle" /\ late' = {}
  /\ UNCHANGED <<products, account, live, doc, hand, throttle, stale, excused>>

StoreNext ==
  \/ \E p \in Posts : Fold(p)
  \/ \E k \in Products : Fetch(k) \/ Fails(k)
  \/ \E k \in Feeds : Load(k) \/ Fire(k) \/ Lapse(k) \/ ManualRefresh(k) \/ \E p \in Posts : Write(k, p)
  \/ Purge \/ Drop \/ EraseFails

StoreSpec == StoreInit /\ [][StoreNext]_storeVars
-----------------------------------------------------------------------------
(* A write is of a document that has changed since it was read. *)
Overwrites(p) ==
  \E k \in Feeds : Busy(k) /\ hand[k].at = "write" /\ p \in DOMAIN hand[k].got /\ hand[k].prev[p] # doc[p]

(* The fold of a report that came without the numbers of p. *)
Empties(p) == Busy(Deep) /\ p \in DOMAIN hand[Deep].got /\ hand[Deep].got[p] = Unknown

(* What a step may take of a post that stays stored. *)
StepKeeps(p) ==
  doc[p].stored /\ doc'[p].stored =>
    /\ doc[p].metric # Unknown /\ doc'[p].metric = Unknown => Overwrites(p)
    /\ doc'[p].deep < doc[p].deep => Overwrites(p) \/ (Empties(p) /\ doc'[p].deep = Unknown)

(* Last known good: a number that was stored is not lost to a feed that did *)
(* not fill it, nor to one of another product, nor to a fold of an older   *)
(* report.  Two things do lose it: a write over a document that changed    *)
(* since it was read, and a fold of deep analytics that came empty, which  *)
(* empties the deep numbers and no other.                                  *)

KeepsKnown == [][\A p \in Posts : StepKeeps(p)]_storeVars

(* What a sync changed in a post that is new or within the window has been *)
(* announced when it is over, unless it wrote over somebody else, a fault  *)
(* came or the throttle of its product was taken within the interval.      *)
ChangesAnnounced == account => \A k \in Feeds : ~Busy(k) => stale[k] \subseteq excused[k]

(* A feed announces news only if its writes made some: a fetch that misses  *)
(* a number is no change.                                                  *)
NewsHasCause ==
  \A k \in Feeds : Written(k) /\ hand[k].alone =>
    (hand[k].added \/ hand[k].updated => hand[k].effect)

(* What is left of an erased account was written between the purge of its  *)
(* documents and the row's end or after, by syncs that began before that   *)
(* end: those under way at the purge, and those that still found the row.  *)
(* What was stored before the purge is gone, however often it failed.      *)
ErasedStaysErased == ~account => Stored \subseteq late
=============================================================================
