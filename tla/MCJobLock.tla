----------------------------- MODULE MCJobLock ------------------------------
(***************************************************************************)
(* JobLock on small instances: two daemons and a manual run of one job,    *)
(* staleAfter of a few ticks.                                              *)
(***************************************************************************)
EXTENDS JobLock

CONSTANTS d1, d2, m1

MCProcs == {d1, d2, m1}
MCDaemons == {d1, d2}
=============================================================================
