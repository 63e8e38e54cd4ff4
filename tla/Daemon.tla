------------------------------- MODULE Daemon -------------------------------
(***************************************************************************)
(* The daemon that runs a job over and over (cmd_sync.go: runDaemon,       *)
(* nextRun; config.go: parseClock, ScheduleSeconds): at times of the day,  *)
(* or some time after the last run has ended, until its context is done.   *)
(* Time is counted in units from the midnight the calendar begins with; a  *)
(* day has Normal of them, one more or one less where clocks are put back  *)
(* or forward.  A run is a stretch of time here, module SyncRun opens it.  *)
(***************************************************************************)
EXTENDS Integers, Sequences

CONSTANTS
  Normal,      \* 24 hours
  Calendars,   \* when the days begin
  Schedules,   \* sync.schedule: sets of times since midnight; {} if it is not set
  Interval, Jitter,   \* sync.interval, sync.jitter
  MaxRun,      \* bound: how long a run may take
  MaxTime,     \* bound: how far time goes
  Never

ASSUME DaemonAssumption ==
  /\ {Normal, Interval, Jitter, MaxRun, MaxTime} \subseteq Nat /\ Normal > 1 /\ Interval > 0
  /\ \A c \in Calendars :
       /\ c \in Seq(Nat) /\ c # <<>> /\ c[1] = 0
       /\ \A d \in 1 .. Len(c) - 1 : c[d + 1] - c[d] \in {Normal - 1, Normal, Normal + 1}
       /\ MaxTime + Normal < c[Len(c)]   \* the days that time gets to are all there
  /\ \A s \in Schedules : s \subseteq 0 .. Normal - 1
  /\ Never \notin Nat

VARIABLES
  calendar, times, onStart,   \* the calendar; sync.schedule, sync.run_on_start
  now,
  phase,     \* where the daemon is
  next,      \* what its timer is set to
  until,     \* when the run under way ends, if nothing cancels it
  ctxDone,   \* it was told to stop
  armed, last   \* ghosts: when the timer was set, when the last run began

settings == <<calendar, times, onStart>>
daemonVars == <<phase, next, until, armed, last>>

DaemonTypeOK ==
  /\ calendar \in Calendars /\ times \in Schedules /\ onStart \in BOOLEAN
  /\ now \in 0 .. MaxTime
  /\ phase \in {"off", "start", "plan", "wait", "run", "ended"}
  /\ {next, until, armed} \subseteq Nat
  /\ last \in Nat \cup {Never}
  /\ ctxDone \in BOOLEAN

\* It may start at any time of the first day.
DaemonInit ==
  /\ calendar \in Calendars /\ times \in Schedules /\ onStart \in BOOLEAN
  /\ now \in 0 .. MaxTime /\ now < calendar[2]
  /\ phase = "off"
  /\ next = 0 /\ until = 0 /\ armed = 0
  /\ ctxDone = FALSE
  /\ last = Never

-----------------------------------------------------------------------------
(* The calendar.                                                           *)

LastDay == Len(calendar)
Midnight(d) == calendar[d]

Length(d) == Midnight(d + 1) - Midnight(d)

DayOf(t) == CHOOSE d \in 1 .. LastDay - 1 : Midnight(d) <= t /\ t < Midnight(d + 1)

Earliest(S) == CHOOSE t \in S : \A u \in S : t <= u

\* time.Date of the day, and the seconds of the schedule added to it.
Slots(d) == {Midnight(d) + s : s \in times}

\* What is left of the schedule on the day that t falls on.
Left(t) == {u \in Slots(DayOf(t)) : u > now}

\* Mutant: only what is left of today.
nextRunToday ==
  IF times = {} THEN {now + Interval + j : j \in {0} \cup 0 .. Jitter - 1}
  ELSE IF Left(now) # {} THEN {Earliest(Left(now))}
  ELSE {now + Normal}

\* nextRun: today, then the day that 24 hours from now fall on, else 24 hours from now.
nextRun ==
  IF times = {} THEN {now + Interval + j : j \in {0} \cup 0 .. Jitter - 1}
  ELSE IF Left(now) # {} THEN {Earliest(Left(now))}
  ELSE IF Left(now + Normal) # {} THEN {Earliest(Left(now + Normal))}
  ELSE {now + Normal}

-----------------------------------------------------------------------------
(* runDaemon.                                                              *)

\* RunOnce under the lock; another process may hold it, the agent be out of reach.
BeginRun ==
  /\ phase' = "run"
  /\ \E n \in 0 .. MaxRun : until' = now + n
  /\ last' = now

Start ==
  /\ phase = "start"
  /\ IF onStart THEN BeginRun ELSE phase' = "plan" /\ UNCHANGED <<until, last>>
  /\ UNCHANGED <<settings, now, next, ctxDone, armed>>

\* The run is over, or its context is done.
EndRun ==
  /\ phase = "run"
  /\ now = until \/ ctxDone
  /\ phase' = "plan"
  /\ UNCHANGED <<settings, now, next, until, ctxDone, armed, last>>

Arm ==
  /\ phase = "plan"
  /\ next' \in nextRun
  /\ armed' = now
  /\ phase' = "wait"
  /\ UNCHANGED <<settings, now, until, ctxDone, last>>

\* select takes either case if both are ready.
Fire ==
  /\ phase = "wait"
  /\ now >= next
  /\ BeginRun
  /\ UNCHANGED <<settings, now, next, ctxDone, armed>>

StopWaiting ==
  /\ phase = "wait"
  /\ ctxDone
  /\ phase' = "ended"
  /\ UNCHANGED <<settings, now, next, until, ctxDone, armed, last>>

DaemonStep == Start \/ EndRun \/ Arm \/ Fire \/ StopWaiting

\* Time passes where the daemon waits: a timer that is due fires, a run ends in time.
Tick ==
  /\ now < MaxTime
  /\ (phase = "wait" /\ now < next) \/ (phase = "run" /\ now < until)
  /\ now' = now + 1
  /\ UNCHANGED <<settings, daemonVars, ctxDone>>

-----------------------------------------------------------------------------

\* The slots that a waiting daemon sleeps through are on a short day, and it went to sleep
\* in the last hour before that day; and it wakes at a slot, unless it went to sleep in
\* the first hour of a long day (cmd_sync.go:265: 24 hours are taken for a day).
SleepsToTheNextSlot ==
  phase = "wait" /\ times # {} =>
    /\ \A d \in 1 .. LastDay - 1 : \A t \in Slots(d) :
         armed < t /\ t < next => Length(d) < Normal /\ armed = Midnight(d) - 1
    /\ \/ \E d \in 1 .. LastDay - 1 : next \in Slots(d)
       \/ \E d \in 1 .. LastDay - 1 : armed = Midnight(d) /\ Length(d) > Normal

\* Whatever the clock change, two runs are never more than two days and a run apart.
NeverSilentForLong ==
  phase \in {"wait", "run"} /\ times # {} /\ last # Never /\ ~ctxDone =>
    now - last <= 2 * Normal + MaxRun
=============================================================================
