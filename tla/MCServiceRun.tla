---------------------------- MODULE MCServiceRun ----------------------------
(***************************************************************************)
(* ServiceRun for every schedule of at most two times of the day, and days *)
(* of which at most one is longer or shorter than the others.              *)
(***************************************************************************)
EXTENDS ServiceRun, FiniteSetsExt

AllSchedules == {{}} \cup kSubset(1, 0 .. Normal - 1) \cup kSubset(2, 0 .. Normal - 1)

OneChange ==
  {[d \in 1 .. 6 |-> (d - 1) * Normal + IF d > k THEN n ELSE 0] :
     k \in 1 .. 3, n \in {-1, 0, 1}}
=============================================================================
