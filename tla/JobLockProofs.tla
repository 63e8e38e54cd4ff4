--------------------------- MODULE JobLockProofs ----------------------------
(***************************************************************************)
(* What JobLock guarantees for any number of processes, deaths and ticks:  *)
(* a living creator's file is fresh, so that only abandoned files are      *)
(* taken over; and up to the first death runs exclude each other.          *)
(***************************************************************************)
EXTENDS JobLock, TLAPS

-----------------------------------------------------------------------------
(* Type correctness.                                                       *)

\* Every step of the lock keeps the types.
LEMMA TypeCorrectStep ==
  ASSUME TypeOK, [Next]_vars
  PROVE  TypeOK'
<1> USE OwnerAssumption, TimeAssumption, CrashAssumption
<1> USE DEF TypeOK, Attempts
<1>1. CASE Tick
  <2>1. \A p \in Procs : Holding(p) => timer[p] + 1 \in 0..Late
    BY <1>1 DEF Tick
  <2>2. timer' \in [Procs -> 0..Late]
    BY <1>1, <2>1 DEF Tick
  <2>3. age' \in 0..(Stale + 1)
    BY <1>1 DEF Tick
  <2> QED
    BY <1>1, <2>2, <2>3 DEF Tick
<1>2. ASSUME NEW p \in Procs, Start(p) PROVE TypeOK'
  BY <1>2 DEF Start
<1>3. ASSUME NEW p \in Procs, Acquire(p) PROVE TypeOK'
  <2>1. CASE CreateNew(p)
    BY <2>1 DEF CreateNew
  <2>2. CASE CreateExists(p)
    BY <2>2 DEF CreateExists
  <2>3. CASE StatVanished(p)
    BY <2>3 DEF StatVanished, Retry
  <2>4. CASE StatFresh(p)
    BY <2>4 DEF StatFresh
  <2>5. CASE StatStale(p)
    BY <2>5 DEF StatStale
  <2>6. CASE Steal(p)
    BY <2>6 DEF Steal, Retry
  <2> QED
    BY <1>3, <2>1, <2>2, <2>3, <2>4, <2>5, <2>6 DEF Acquire
<1>4. ASSUME NEW p \in Procs, Beat(p) PROVE TypeOK'
  BY <1>4 DEF Beat
<1>5. ASSUME NEW p \in Procs, Finish(p) \/ Release(p) PROVE TypeOK'
  BY <1>5 DEF Finish, Release
<1>6. ASSUME NEW p \in Procs, Crash(p) PROVE TypeOK'
  BY <1>6 DEF Crash
<1>7. CASE UNCHANGED vars
  BY <1>7 DEF vars
<1> QED
  BY <1>1, <1>2, <1>3, <1>4, <1>5, <1>6, <1>7 DEF Next, Run

\* Every variable of the lock keeps its type, whoever dies and however late
\* the heartbeats are (lock.go:43-100).
THEOREM TypeCorrect == Spec => []TypeOK
<1>1. Init => TypeOK
  BY OwnerAssumption, TimeAssumption, CrashAssumption DEF Init, TypeOK, Attempts
<1> QED
  BY <1>1, TypeCorrectStep, PTL DEF Spec

-----------------------------------------------------------------------------
(* With deaths: a lock file with a living creator stays fresh, so only     *)
(* abandoned files are ever taken over.                                    *)

\* Every step, deaths included, keeps a living creator's file fresh.
LEMMA FreshWhileAliveStep ==
  ASSUME TypeOK, FreshWhileAlive, [Next]_vars
  PROVE  FreshWhileAlive'
<1> USE OwnerAssumption, TimeAssumption DEF TypeOK, FreshWhileAlive, Holding
<1>1. CASE Tick
  BY <1>1 DEF Tick
<1>2. ASSUME NEW p \in Procs, Start(p) PROVE FreshWhileAlive'
  BY <1>2 DEF Start
<1>3. ASSUME NEW p \in Procs, Acquire(p) PROVE FreshWhileAlive'
  <2>1. CASE CreateNew(p)
    BY <2>1 DEF CreateNew
  <2>2. CASE CreateExists(p)
    BY <2>2 DEF CreateExists
  <2>3. CASE StatVanished(p)
    BY <2>3 DEF StatVanished, Retry
  <2>4. CASE StatFresh(p) \/ StatStale(p)
    BY <2>4 DEF StatFresh, StatStale
  <2>5. CASE Steal(p)
    BY <2>5 DEF Steal
  <2> QED
    BY <1>3, <2>1, <2>2, <2>3, <2>4, <2>5 DEF Acquire
<1>4. ASSUME NEW p \in Procs, Beat(p) PROVE FreshWhileAlive'
  BY <1>4 DEF Beat
<1>5. ASSUME NEW p \in Procs, Finish(p) PROVE FreshWhileAlive'
  BY <1>5 DEF Finish
<1>6. ASSUME NEW p \in Procs, Release(p) PROVE FreshWhileAlive'
  BY <1>6 DEF Release
<1>7. ASSUME NEW p \in Procs, Crash(p) PROVE FreshWhileAlive'
  BY <1>7 DEF Crash
<1>8. CASE UNCHANGED vars
  BY <1>8 DEF vars
<1> QED
  BY <1>1, <1>2, <1>3, <1>4, <1>5, <1>6, <1>7, <1>8 DEF Next, Run

\* Whoever dies, the file of a living creator is as fresh as its heartbeat
\* (lock.go:77-90).
THEOREM AliveIsFresh == Spec => []FreshWhileAlive
<1>1. Init => FreshWhileAlive
  BY OwnerAssumption DEF Init, FreshWhileAlive
<1> QED
  BY <1>1, TypeCorrect, FreshWhileAliveStep, PTL DEF Spec

\* With heartbeats no later than staleAfter, a contender decides to take over
\* only the lock of a dead process (lock.go:61-67), whatever crashed before.
THEOREM TakeoverSafe ==
  ASSUME Late <= Stale
  PROVE  Spec => TakeoverOnlyOfOrphans
<1>1. ASSUME TypeOK, FreshWhileAlive, [Next]_vars,
             NEW p \in Procs, pc[p] = "stat", pc'[p] = "steal"
      PROVE  owner = Orphan
  <2>0. PICK q \in Procs : Run(q) \/ Crash(q)
    BY <1>1 DEF Next, Tick, vars
  <2>1. StatStale(p)
    <3>1. \/ CreateExists(q) \/ StatVanished(q) \/ StatFresh(q) \/ StatStale(q)
          \/ Start(q) \/ CreateNew(q) \/ Steal(q) \/ Beat(q) \/ Finish(q)
          \/ Release(q) \/ Crash(q)
      BY <2>0 DEF Run, Acquire
    <3>2. CASE StatStale(q)
      BY <1>1, <3>2 DEF StatStale, TypeOK
    <3>3. CASE CreateExists(q) \/ StatFresh(q) \/ Start(q) \/ CreateNew(q)
      BY <1>1, <3>3 DEF CreateExists, StatFresh, Start, CreateNew, TypeOK
    <3>4. CASE StatVanished(q) \/ Steal(q)
      BY <1>1, <3>4 DEF StatVanished, Steal, Retry, TypeOK
    <3>5. CASE Beat(q) \/ Finish(q) \/ Release(q) \/ Crash(q)
      BY <1>1, <3>5 DEF Beat, Finish, Release, Crash, TypeOK
    <3> QED
      BY <3>1, <3>2, <3>3, <3>4, <3>5
  <2>2. owner # Free /\ age > Stale
    BY <2>1 DEF StatStale
  <2>3. owner \notin Procs
    BY <1>1, <2>2, TimeAssumption DEF FreshWhileAlive, TypeOK
  <2> QED
    BY <1>1, <2>2, <2>3 DEF TypeOK
<1>2. TypeOK /\ FreshWhileAlive /\ [Next]_vars
      => [\A p \in Procs : pc[p] = "stat" /\ pc'[p] = "steal" => owner = Orphan]_vars
  BY <1>1
<1> QED
  BY <1>2, TypeCorrect, AliveIsFresh, PTL DEF Spec, TakeoverOnlyOfOrphans

-----------------------------------------------------------------------------
(* Up to the first death every holder owns the file at the lock path, and  *)
(* a takeover never begins.                                                *)

\* Every step keeps the lock's invariant: a death only ends what it promises,
\* and without one no file grows old enough for a takeover (lock.go:60-67).
LEMMA LockInvStep ==
  ASSUME Late <= Stale, LockInv, [Next]_vars
  PROVE  LockInv'
<1> USE OwnerAssumption, TimeAssumption DEF Holding
<1>1. TypeOK'
  BY TypeCorrectStep DEF LockInv
<1>2. FreshWhileAlive'
  BY FreshWhileAliveStep DEF LockInv
<1>3. ASSUME crashes' = 0
      PROVE  HolderOwnsFile' /\ NoTakeover'
  <2>0. crashes = 0 /\ \A p \in Procs : ~Crash(p)
    BY <1>3, CrashAssumption DEF LockInv, TypeOK, Next, Tick, Run, Acquire, Start, CreateNew,
       CreateExists, StatVanished, StatFresh, StatStale, Steal, Beat, Finish, Release,
       Crash, vars
  <2> USE <2>0 DEF LockInv, TypeOK, HolderOwnsFile, NoTakeover
  <2>1. CASE Tick
    BY <2>1 DEF Tick
  <2>2. ASSUME NEW p \in Procs, Start(p) PROVE HolderOwnsFile' /\ NoTakeover'
    BY <2>2 DEF Start
  <2>3. ASSUME NEW p \in Procs, Acquire(p) PROVE HolderOwnsFile' /\ NoTakeover'
    <3>1. CASE CreateNew(p)
      BY <3>1 DEF CreateNew
    <3>2. CASE CreateExists(p) \/ StatFresh(p)
      BY <3>2 DEF CreateExists, StatFresh
    <3>3. CASE StatVanished(p)
      BY <3>3 DEF StatVanished, Retry
    <3>4. CASE StatStale(p)
      \* The file's creator lives, so the file cannot be that old.
      <4>1. owner \in Procs
        BY <3>4 DEF StatStale
      <4>2. age <= Late
        BY <4>1 DEF FreshWhileAlive
      <4> QED
        BY <3>4, <4>2 DEF StatStale
    <3>5. CASE Steal(p)
      BY <3>5 DEF Steal
    <3> QED
      BY <2>3, <3>1, <3>2, <3>3, <3>4, <3>5 DEF Acquire
  <2>4. ASSUME NEW p \in Procs, Beat(p) PROVE HolderOwnsFile' /\ NoTakeover'
    BY <2>4 DEF Beat
  <2>5. ASSUME NEW p \in Procs, Finish(p) PROVE HolderOwnsFile' /\ NoTakeover'
    BY <2>5 DEF Finish
  <2>6. ASSUME NEW p \in Procs, Release(p) PROVE HolderOwnsFile' /\ NoTakeover'
    BY <2>6 DEF Release
  <2>7. CASE UNCHANGED vars
    BY <2>7 DEF vars
  <2> QED
    BY <2>0, <2>1, <2>2, <2>3, <2>4, <2>5, <2>6, <2>7 DEF Next, Run
<1> QED
  BY <1>1, <1>2, <1>3 DEF LockInv

\* The free lock satisfies the lock's invariant.
LEMMA LockInvInit == Init => LockInv
BY OwnerAssumption, TimeAssumption, CrashAssumption
   DEF Init, LockInv, TypeOK, HolderOwnsFile, FreshWhileAlive, NoTakeover, Holding, Attempts

\* The lock's invariant holds whenever heartbeats are no later than staleAfter
\* (lock.go:43-100).
THEOREM LockInvariant ==
  ASSUME Late <= Stale
  PROVE  Spec => []LockInv
BY LockInvInit, LockInvStep, PTL DEF Spec

\* Two runs of a job never overlap (lock.go:12) before a process of the job has
\* died, for any number of processes.
THEOREM Exclusion ==
  ASSUME Late <= Stale
  PROVE  Spec => []ExclusiveUntilDeath
<1>1. LockInv => ExclusiveUntilDeath
  BY DEF LockInv, HolderOwnsFile, MutualExclusion, ExclusiveUntilDeath
<1> QED
  BY <1>1, LockInvariant, PTL

\* The lock implements the abstract mutex: until a process has died, a run
\* begins only when no run is on.
THEOREM Refinement ==
  ASSUME Late <= Stale
  PROVE  Spec => ImplementsMutex
<1> DEFINE inside == {p \in Procs : Holding(p)}
           died == crashes > 0
<1>1. Init => Mutex!Init
  BY DEF Init, Mutex!Init, Holding
<1>2. ASSUME LockInv, [Next]_vars
      PROVE  [Mutex!Next]_<<inside, died>>
  <2> USE <1>2 DEF LockInv, TypeOK, HolderOwnsFile, Holding
  <2>1. CASE Tick
    BY <2>1 DEF Tick
  <2>2. ASSUME NEW p \in Procs, CreateNew(p) PROVE Mutex!Enter(p)
    <3>1. inside = {} \/ died
      BY <2>2, OwnerAssumption, CrashAssumption DEF CreateNew
    <3>2. inside' = inside \cup {p} /\ UNCHANGED died
      BY <2>2 DEF CreateNew
    <3> QED
      BY <3>1, <3>2 DEF Mutex!Enter
  <2>3. ASSUME NEW p \in Procs, Release(p) PROVE Mutex!Leave(p)
    BY <2>3 DEF Release, Mutex!Leave
  <2>4. ASSUME NEW p \in Procs, Acquire(p), ~CreateNew(p)
        PROVE  UNCHANGED <<inside, died>>
    <3>1. CASE CreateExists(p) \/ StatFresh(p) \/ StatStale(p)
      BY <3>1 DEF CreateExists, StatFresh, StatStale
    <3>2. CASE StatVanished(p) \/ Steal(p)
      BY <3>2 DEF StatVanished, Steal, Retry
    <3> QED
      BY <2>4, <3>1, <3>2 DEF Acquire
  <2>5. ASSUME NEW p \in Procs, Start(p) \/ Beat(p) \/ Finish(p)
        PROVE  UNCHANGED <<inside, died>>
    BY <2>5 DEF Start, Beat, Finish
  <2>6. ASSUME NEW p \in Procs, Crash(p) PROVE Mutex!Die(p)
    BY <2>6, CrashAssumption DEF Crash, Mutex!Die
  <2>7. CASE UNCHANGED vars
    BY <2>7 DEF vars
  <2> QED
    BY <2>1, <2>2, <2>3, <2>4, <2>5, <2>6, <2>7 DEF Next, Run, Mutex!Next
<1> QED
  BY <1>1, <1>2, LockInvariant, PTL DEF Spec, ImplementsMutex, Mutex!Spec
=============================================================================
