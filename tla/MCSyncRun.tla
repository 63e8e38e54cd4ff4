----------------------------- MODULE MCSyncRun ------------------------------
(***************************************************************************)
(* SyncRun on small instances: contents c1 and c2 are of the same size, so *)
(* that only stamps and digests tell them apart; c3 is larger.             *)
(***************************************************************************)
EXTENDS SyncRun

CONSTANTS f1, f2, c1, c2, c3

OneFile == {f1}
TwoFiles == {f1, f2}
NoFiles == {}
OneContent == {c1}
TwoContents == {c1, c2}
ThreeContents == {c1, c2, c3}
Sizes == [c \in Contents |-> IF c = c3 THEN 2 ELSE 1]
=============================================================================
