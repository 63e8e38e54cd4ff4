--------------------------- MODULE MCManifestServer --------------------------
(***************************************************************************)
(* ManifestServer on a small instance.                                     *)
(***************************************************************************)
EXTENDS ManifestServer

CONSTANTS s1, f1, r1, r2

OneSub == {s1}
OneName == {f1}
TwoReqs == {r1, r2}
=============================================================================
