--------------------------- MODULE MCContentStore ---------------------------
(* Two posts, one of them too old for a refresh, and platforms with two feeds *)
(* or a feed and the deep analytics.                                         *)
EXTENDS ContentStore, TLC
CONSTANTS p, q, new, mentions
TwoPosts == {p, q}
Young == {p}
TwoFeeds == {new, mentions}
Moves == [x \in TwoPosts |-> IF x = p THEN 2 ELSE 1]
Platforms == {TwoFeeds} \cup {{f, Deep} : f \in TwoFeeds}
Alike == Permutations(TwoFeeds)
=============================================================================
