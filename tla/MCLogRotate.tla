---------------------------- MODULE MCLogRotate -----------------------------
(***************************************************************************)
(* LogRotate for a daemon, a run by hand, and a job of another user.       *)
(***************************************************************************)
EXTENDS LogRotate, TLC

CONSTANTS daemon, manual, other

Three == {daemon, manual, other}
Symmetry == Permutations(Procs)
=============================================================================
