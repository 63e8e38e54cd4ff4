------------------------------ MODULE JobMutex ------------------------------
(***************************************************************************)
(* What the job lock promises, with no files and no clock: a run of a job  *)
(* begins only while no other run of that job is going on.  The promise    *)
(* ends with the first process that dies.                                  *)
(***************************************************************************)
CONSTANT Procs      \* the processes that run the same job

VARIABLES inside,   \* the processes whose run is going on
          died      \* some process of the job has died

Init == /\ inside = {}
        /\ died = FALSE

\* lock.go:12 "It prevents two overlapping syncs of the same job".
Enter(p) == /\ inside = {} \/ died
            /\ inside' = inside \cup {p}
            /\ UNCHANGED died

Leave(p) == /\ p \in inside
            /\ inside' = inside \ {p}
            /\ UNCHANGED died

Die(p) == /\ inside' = inside \ {p}
          /\ died' = TRUE

Next == \E p \in Procs : Enter(p) \/ Leave(p) \/ Die(p)

Spec == Init /\ [][Next]_<<inside, died>>
=============================================================================
