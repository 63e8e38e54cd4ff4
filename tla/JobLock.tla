------------------------------ MODULE JobLock -------------------------------
(***************************************************************************)
(* The advisory lock that keeps two runs of one job apart (client/lock.go) *)
(* and the callers that take it around every run (cmd_sync.go).            *)
(*                                                                         *)
(* The lock is a file: creating it with O_EXCL takes it, a heartbeat keeps *)
(* its modification time fresh, and a contender that finds it older than   *)
(* staleAfter removes it and tries again.  Every system call of            *)
(* AcquireLock is a step of its own, because the other processes run       *)
(* between any two of them.                                                *)
(*                                                                         *)
(* Time is counted in ticks.  The only clocks are the age of the lock file *)
(* and, per holder, the time since its last heartbeat; the age saturates   *)
(* at Stale + 1, beyond which the code makes no difference.                *)
(***************************************************************************)
EXTENDS Naturals

CONSTANTS Procs,       \* processes that run the same job (daemon, manual run)
          Free,        \* owner of the lock file when there is no file
          Orphan,      \* owner of a lock file whose creator has died
          Stale,       \* staleAfter, in ticks
          BeatEvery,   \* period of the heartbeat ticker (stale / 3), in ticks
          Late,        \* longest time a live holder leaves the file untouched
          MaxCrashes   \* bound: how many processes may die

ASSUME OwnerAssumption ==
    Free \notin Procs /\ Orphan \notin Procs /\ Free # Orphan
ASSUME TimeAssumption ==
    /\ Stale \in Nat /\ BeatEvery \in Nat /\ Late \in Nat
    /\ BeatEvery <= Late
ASSUME CrashAssumption == MaxCrashes \in Nat

VARIABLES owner,    \* who created the file at the lock path: a process, Orphan or Free
          age,      \* time since the modification time of that file
          pc,       \* where each process is
          attempt,  \* loop counter of AcquireLock
          timer,    \* time since the holder last touched the lock path
          crashes   \* processes that have died so far

vars == <<owner, age, pc, attempt, timer, crashes>>

Attempts == 2

TypeOK ==
    /\ owner \in Procs \cup {Free, Orphan}
    /\ age \in 0..(Stale + 1)
    /\ pc \in [Procs -> {"idle", "create", "stat", "steal", "running", "releasing"}]
    /\ attempt \in [Procs -> 0..(Attempts - 1)]
    /\ timer \in [Procs -> 0..Late]
    /\ crashes \in 0..MaxCrashes

Holding(p) == pc[p] \in {"running", "releasing"}

Init ==
    /\ owner = Free
    /\ age = 0
    /\ pc = [p \in Procs |-> "idle"]
    /\ attempt = [p \in Procs |-> 0]
    /\ timer = [p \in Procs |-> 0]
    /\ crashes = 0

-----------------------------------------------------------------------------
(* AcquireLock, one system call at a time.                                 *)

\* A daemon tick or a manual run begins: runLocked calls AcquireLock.
Start(p) ==
    /\ pc[p] = "idle"
    /\ pc' = [pc EXCEPT ![p] = "create"]
    /\ attempt' = [attempt EXCEPT ![p] = 0]
    /\ UNCHANGED <<owner, age, timer, crashes>>

\* open(O_CREATE|O_EXCL) succeeds: the lock is ours and the heartbeat starts.
CreateNew(p) ==
    /\ pc[p] = "create"
    /\ owner = Free
    /\ owner' = p
    /\ age' = 0
    /\ timer' = [timer EXCEPT ![p] = 0]
    /\ pc' = [pc EXCEPT ![p] = "running"]
    /\ UNCHANGED <<attempt, crashes>>

\* open(O_CREATE|O_EXCL) reports that the file exists.
CreateExists(p) ==
    /\ pc[p] = "create"
    /\ owner # Free
    /\ pc' = [pc EXCEPT ![p] = "stat"]
    /\ UNCHANGED <<owner, age, attempt, timer, crashes>>

\* `continue`: another round of the loop, or ErrLocked after the last one.
Retry(p) ==
    IF attempt[p] + 1 < Attempts
    THEN /\ attempt' = [attempt EXCEPT ![p] = @ + 1]
         /\ pc' = [pc EXCEPT ![p] = "create"]
    ELSE /\ pc' = [pc EXCEPT ![p] = "idle"]
         /\ UNCHANGED attempt

\* The file vanished between open and stat.
StatVanished(p) ==
    /\ pc[p] = "stat"
    /\ owner = Free
    /\ Retry(p)
    /\ UNCHANGED <<owner, age, timer, crashes>>

\* stat shows a heartbeat that is recent enough: ErrLocked.
StatFresh(p) ==
    /\ pc[p] = "stat"
    /\ owner # Free
    /\ age <= Stale
    /\ pc' = [pc EXCEPT ![p] = "idle"]
    /\ UNCHANGED <<owner, age, attempt, timer, crashes>>

\* Mutation of StatStale: a lock exactly staleAfter old counts as abandoned.
StatStaleAtLimit(p) ==
    /\ pc[p] = "stat"
    /\ owner # Free
    /\ age >= Stale
    /\ pc' = [pc EXCEPT ![p] = "steal"]
    /\ UNCHANGED <<owner, age, attempt, timer, crashes>>

\* stat shows an old heartbeat: the contender decides to take the lock over.
StatStale(p) ==
    /\ pc[p] = "stat"
    /\ owner # Free
    /\ age > Stale
    /\ pc' = [pc EXCEPT ![p] = "steal"]
    /\ UNCHANGED <<owner, age, attempt, timer, crashes>>

\* Mutation of Steal: the takeover forgets to remove the old file.
StealKeepsFile(p) ==
    /\ pc[p] = "steal"
    /\ Retry(p)
    /\ UNCHANGED <<owner, age, timer, crashes>>

\* os.Remove(path) of a takeover: it removes whatever is at the path by now.
Steal(p) ==
    /\ pc[p] = "steal"
    /\ owner' = Free
    /\ age' = 0
    /\ Retry(p)
    /\ UNCHANGED <<timer, crashes>>

-----------------------------------------------------------------------------
(* The holder.                                                             *)

\* Mutation of Beat: the ticker fires but the file is not touched.
BeatMisses(p) ==
    /\ pc[p] = "running"
    /\ timer[p] >= BeatEvery
    /\ timer' = [timer EXCEPT ![p] = 0]
    /\ UNCHANGED <<owner, age, pc, attempt, crashes>>

\* The heartbeat touches the lock path, whoever owns the file there now.
Beat(p) ==
    /\ pc[p] = "running"
    /\ timer[p] >= BeatEvery
    /\ timer' = [timer EXCEPT ![p] = 0]
    /\ age' = 0
    /\ UNCHANGED <<owner, pc, attempt, crashes>>

\* Mutation of Finish: the lock path is removed while the run goes on.
FinishRemovesEarly(p) ==
    /\ pc[p] = "running"
    /\ owner' = Free
    /\ age' = 0
    /\ pc' = [pc EXCEPT ![p] = "releasing"]
    /\ UNCHANGED <<attempt, timer, crashes>>

\* The run is over: Release stops the heartbeat and waits for its goroutine.
Finish(p) ==
    /\ pc[p] = "running"
    /\ pc' = [pc EXCEPT ![p] = "releasing"]
    /\ UNCHANGED <<owner, age, attempt, timer, crashes>>

\* Release removes the lock path without looking at what is there.
Release(p) ==
    /\ pc[p] = "releasing"
    /\ owner' = Free
    /\ age' = 0
    /\ pc' = [pc EXCEPT ![p] = "idle"]
    /\ UNCHANGED <<attempt, timer, crashes>>

-----------------------------------------------------------------------------
(* The environment.                                                        *)

\* The process is killed or the machine loses power; a service manager may
\* start it again, which is Start.  The lock file outlives its creator.
Crash(p) ==
    /\ pc[p] # "idle"
    /\ crashes < MaxCrashes
    /\ crashes' = crashes + 1
    /\ pc' = [pc EXCEPT ![p] = "idle"]
    /\ owner' = IF owner = p THEN Orphan ELSE owner
    /\ UNCHANGED <<age, attempt, timer>>

\* Time passes, but a live holder touches or removes the file within Late.
Tick ==
    /\ \A p \in Procs : Holding(p) => timer[p] < Late
    /\ timer' = [p \in Procs |-> IF Holding(p) THEN timer[p] + 1 ELSE timer[p]]
    /\ age' = IF owner = Free \/ age > Stale THEN age ELSE age + 1
    /\ UNCHANGED <<owner, pc, attempt, crashes>>

Acquire(p) == \/ CreateNew(p) \/ CreateExists(p) \/ StatVanished(p)
              \/ StatFresh(p) \/ StatStale(p) \/ Steal(p)

Run(p) == Start(p) \/ Acquire(p) \/ Beat(p) \/ Finish(p) \/ Release(p)

Next == Tick \/ \E p \in Procs : Run(p) \/ Crash(p)

Spec == Init /\ [][Next]_vars

CONSTANT Daemons    \* the processes that start a run again and again

\* Time passes, system calls return and runs end; a daemon's interval timer
\* always fires again.  Nobody has to crash.
Fairness ==
    /\ WF_vars(Tick)
    /\ \A p \in Procs : WF_vars(Acquire(p) \/ Beat(p)) /\ WF_vars(Finish(p))
                        /\ WF_vars(Release(p))
    /\ \A p \in Daemons : WF_vars(Start(p))

FairSpec == Spec /\ Fairness

-----------------------------------------------------------------------------
(* Properties.                                                             *)

\* Two runs of a job never overlap (lock.go:12).
MutualExclusion ==
    \A p, q \in Procs : Holding(p) /\ Holding(q) => p = q

\* With heartbeats no later than staleAfter, no two runs overlap before the
\* first process of the job has died.  (After a death they may: MutualExclusion.)
ExclusiveUntilDeath == crashes = 0 => MutualExclusion

\* A lock file with a living creator belongs to a run that is going on, and is
\* never older than that run's last heartbeat.  True whoever dies.
FreshWhileAlive ==
    owner \in Procs => Holding(owner) /\ age <= timer[owner]

\* The lock path of a holder always holds its own file: what its heartbeat
\* touches and what its Release removes is never another run's lock.
HolderOwnsFile ==
    \A p \in Procs : Holding(p) => owner = p

\* Nothing is abandoned, so nobody takes a lock over.
NoTakeover ==
    /\ owner # Orphan
    /\ \A p \in Procs : pc[p] # "steal"

\* The inductive invariant of the lock.
LockInv ==
    /\ TypeOK
    /\ FreshWhileAlive
    /\ crashes = 0 => HolderOwnsFile /\ NoTakeover

\* The lock lets runs in and out as the abstract mutex does (JobMutex.tla).
Mutex == INSTANCE JobMutex WITH inside <- {p \in Procs : Holding(p)},
                                died <- crashes > 0
ImplementsMutex == Mutex!Spec

\* A contender decides on a takeover only when the file's creator is dead,
\* whatever crashes and takeovers came before.
TakeoverOnlyOfOrphans ==
    [][\A p \in Procs : pc[p] = "stat" /\ pc'[p] = "steal" => owner = Orphan]_vars

\* The lock left by a dead process does not stay for ever.
OrphanReclaimed == (owner = Orphan) ~> (owner # Orphan)

\* However runs crash, the job never stops running for good.
JobKeepsRunning == []<>(\E p \in Procs : pc[p] = "running")
=============================================================================
