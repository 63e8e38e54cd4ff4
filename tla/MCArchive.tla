----------------------------- MODULE MCArchive -----------------------------
(***************************************************************************)
(* Archive on a small tree: a file, a longer and a shorter version of it,  *)
(* and one of the same size.                                               *)
(***************************************************************************)
EXTENDS Archive

CONSTANTS f1, f2

MCOrder == <<f1, f2>>
MCContents == {<<1>>, <<2>>, <<2, 3>>}
MCFresh == {<<1>>, <<2, 3>>}
=============================================================================
