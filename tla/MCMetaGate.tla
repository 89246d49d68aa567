----------------------------- MODULE MCMetaGate -----------------------------
(* MetaGate with a Facebook job of two parallel calls and a Threads job,     *)
(* against a scheduler that takes one row a tick.                            *)
EXTENDS MetaGate

CONSTANTS m1, t1, page, c1, c2

OneMeta == {m1}
OneThreads == {t1}
OneAsset == {page}
OnPage == [j \in Meta |-> page]
TwoCalls == {c1, c2}
Said2 == {[app |-> Full, assets |-> <<>>],
          [app |-> Calm, assets |-> <<[key |-> page, pct |-> Calm, wait |-> 1]>>]}
UpToOne == {0, 1}
=============================================================================
