-------------------------- MODULE ServiceRunProofs --------------------------
(***************************************************************************)
(* When the daemon wakes, for any schedule, any calendar and any number of *)
(* clock changes, and what the service controller is told, whatever the    *)
(* two threads of the service do when.  The argument for the calendar: the *)
(* slots of a day lie between its midnight and the next one, so a slot the *)
(* daemon sleeps through is of a day that 24 hours step over.              *)
(***************************************************************************)
EXTENDS ServiceRun, WellFoundedInduction, TLAPS

-----------------------------------------------------------------------------
(* The calendar.                                                           *)

\* Induction, as a least element: what fails for some number fails for a first one.
LEMMA LeastNat ==
  ASSUME NEW T, T \subseteq Nat, T # {}
  PROVE \E x \in T : \A y \in T : x <= y
<1>1. IsWellFoundedOn(OpToRel(<, Nat), Nat)
  BY NatLessThanWellFounded
<1>2. \E x \in T : \A y \in T : ~ (<<y, x>> \in OpToRel(<, Nat))
  BY <1>1, WFMin
<1>3. \E x \in T : \A y \in T : ~ (<<y, x>> \in {ss \in Nat \X Nat : ss[1] < ss[2]})
  BY <1>2 DEF OpToRel
<1>4. PICK x \in T : \A y \in T : ~ (<<y, x>> \in {ss \in Nat \X Nat : ss[1] < ss[2]})
  BY <1>3
<1>5. ASSUME NEW y \in T PROVE x <= y
  <2>1. <<y, x>> \in Nat \X Nat /\ <<y, x>>[1] = y /\ <<y, x>>[2] = x
    OBVIOUS
  <2>2. ~ (y < x)
    BY <1>4, <2>1
  <2> QED
    BY <2>2
<1> QED
  BY <1>5

LEMMA EarliestIsFirst ==
  ASSUME NEW S, S \subseteq Nat, S # {}
  PROVE  Earliest(S) \in S /\ \A u \in S : Earliest(S) <= u
<1>1. \E t \in S : \A u \in S : t <= u
  BY LeastNat
<1> QED
  BY <1>1 DEF Earliest

\* A day is as long as 24 hours, or an hour more or less, and begins after the one before.
LEMMA DaysFollow ==
  ASSUME calendar \in Calendars
  PROVE  /\ LastDay \in Nat /\ LastDay > 1
         /\ \A d \in 1 .. LastDay : Midnight(d) \in Nat
         /\ Midnight(1) = 0 /\ MaxTime + Normal < Midnight(LastDay)
         /\ \A d \in 1 .. LastDay - 1 : Length(d) \in {Normal - 1, Normal, Normal + 1}
         /\ \A d, e \in 1 .. LastDay : d <= e => Midnight(d) <= Midnight(e)
<1>0. Normal \in Nat /\ Normal > 1 /\ MaxTime \in Nat
  BY DaemonAssumption
<1>1. /\ calendar \in Seq(Nat) /\ calendar # <<>> /\ calendar[1] = 0
      /\ \A d \in 1 .. Len(calendar) - 1 :
           calendar[d + 1] - calendar[d] \in {Normal - 1, Normal, Normal + 1}
      /\ MaxTime + Normal < calendar[Len(calendar)]
  BY DaemonAssumption
<1>2. /\ LastDay \in Nat \ {0} /\ \A d \in 1 .. LastDay : Midnight(d) \in Nat
      /\ Midnight(1) = 0 /\ MaxTime + Normal < Midnight(LastDay)
      /\ \A d \in 1 .. LastDay - 1 : Length(d) \in {Normal - 1, Normal, Normal + 1}
  BY <1>1 DEF LastDay, Midnight, Length
<1>3. LastDay # 1
  BY <1>0, <1>2
<1>4. ASSUME NEW d \in 1 .. LastDay, NEW e \in 1 .. LastDay, d <= e
      PROVE  Midnight(d) <= Midnight(e)
  <2> DEFINE Early == {n \in d .. LastDay : Midnight(n) < Midnight(d)}
  <2>1. Early = {}
    <3> SUFFICES ASSUME Early # {} PROVE FALSE
      OBVIOUS
    <3>1. PICK n \in Early : \A m \in Early : n <= m
      <4>1. Early \subseteq Nat
        BY <1>2
      <4> HIDE DEF Early
      <4> QED
        BY <4>1, LeastNat
    <3>2. n \in d .. LastDay /\ Midnight(n) < Midnight(d)
      OBVIOUS
    <3>3. n # d
      BY <1>2, <3>2
    <3>4. n - 1 \in d .. LastDay /\ n - 1 \in 1 .. LastDay - 1 /\ ~ (n <= n - 1) /\ n - 1 + 1 = n
      BY <1>2, <3>2, <3>3
    <3>5. ~ (Midnight(n - 1) < Midnight(d))
      BY <3>1, <3>4
    <3>6. Midnight(n) - Midnight(n - 1) \in {Normal - 1, Normal, Normal + 1}
      BY <1>2, <3>4 DEF Length
    <3>7. Midnight(n) \in Nat /\ Midnight(n - 1) \in Nat /\ Midnight(d) \in Nat
      BY <1>2, <3>2, <3>4
    <3> QED
      BY <1>0, <3>2, <3>5, <3>6, <3>7
  <2>2. e \in d .. LastDay /\ Midnight(d) \in Nat /\ Midnight(e) \in Nat
    BY <1>2, <1>4
  <2> QED
    BY <2>1, <2>2
<1> QED
  BY <1>2, <1>3, <1>4

\* Every moment that matters is on one day.
LEMMA DayHasTime ==
  ASSUME calendar \in Calendars, NEW t \in 0 .. MaxTime + Normal
  PROVE  /\ DayOf(t) \in 1 .. LastDay - 1
         /\ Midnight(DayOf(t)) <= t /\ t < Midnight(DayOf(t) + 1)
<1> DEFINE Later == {d \in 1 .. LastDay : t < Midnight(d)}
<1>0. Normal \in Nat /\ MaxTime \in Nat /\ t \in Nat
  BY DaemonAssumption
<1>1. LastDay \in Later
  BY <1>0, DaysFollow
<1>2. PICK d \in Later : \A e \in Later : d <= e
  <2>1. Later \subseteq Nat /\ Later # {}
    BY <1>1, DaysFollow
  <2> HIDE DEF Later
  <2> QED
    BY <2>1, LeastNat
<1>3. d \in 1 .. LastDay /\ t < Midnight(d)
  OBVIOUS
<1>4. d # 1
  BY <1>0, <1>3, DaysFollow
<1>5. d - 1 \in 1 .. LastDay - 1 /\ d - 1 \in 1 .. LastDay /\ d - 1 + 1 = d /\ ~ (d <= d - 1)
  BY <1>3, <1>4, DaysFollow
<1>6. ~ (t < Midnight(d - 1))
  BY <1>2, <1>5
<1>7. Midnight(d - 1) <= t /\ t < Midnight(d - 1 + 1)
  BY <1>0, <1>3, <1>5, <1>6, DaysFollow
<1>8. \E e \in 1 .. LastDay - 1 : Midnight(e) <= t /\ t < Midnight(e + 1)
  BY <1>5, <1>7
<1> QED
  BY <1>8 DEF DayOf

\* The slots of a day are between its midnight and the next one.
LEMMA SlotsOfDay ==
  ASSUME calendar \in Calendars, times \in Schedules, NEW d \in 1 .. LastDay - 1,
         NEW t \in Slots(d)
  PROVE  /\ t \in Nat /\ Midnight(d) <= t /\ t <= Midnight(d) + Normal - 1
         /\ t <= Midnight(d + 1)
         /\ \A e \in 1 .. LastDay : d < e => t <= Midnight(e)
<1>1. PICK s \in times : t = Midnight(d) + s
  BY DEF Slots
<1>2. s \in 0 .. Normal - 1 /\ Normal \in Nat /\ Normal > 1
  BY DaemonAssumption
<1>3. /\ LastDay \in Nat /\ d \in 1 .. LastDay /\ d + 1 \in 1 .. LastDay /\ d \in Nat
      /\ Midnight(d) \in Nat /\ Midnight(d + 1) \in Nat
      /\ Midnight(d + 1) - Midnight(d) \in {Normal - 1, Normal, Normal + 1}
  BY DaysFollow DEF Length
<1>4. t \in Nat /\ Midnight(d) <= t /\ t <= Midnight(d) + Normal - 1 /\ t <= Midnight(d + 1)
  BY <1>1, <1>2, <1>3
<1>5. ASSUME NEW e \in 1 .. LastDay, d < e PROVE t <= Midnight(e)
  <2>1. d + 1 <= e
    BY <1>3, <1>5
  <2>2. Midnight(d + 1) <= Midnight(e) /\ Midnight(e) \in Nat
    BY <1>3, <2>1, DaysFollow
  <2> QED
    BY <1>3, <1>4, <2>2
<1> QED
  BY <1>4, <1>5

\* What nextRun does with a schedule: a is now, n what it returns.
Wakes(a, n) ==
  /\ n \in Nat /\ a < n /\ n <= a + 2 * Normal
  /\ \A d \in 1 .. LastDay - 1 : \A t \in Slots(d) :
       a < t /\ t < n => Length(d) < Normal /\ a = Midnight(d) - 1
  /\ \/ \E d \in 1 .. LastDay - 1 : n \in Slots(d)
     \/ \E d \in 1 .. LastDay - 1 : a = Midnight(d) /\ Length(d) > Normal

LEMMA NextRunWakes ==
  ASSUME calendar \in Calendars, times \in Schedules, times # {}, now \in 0 .. MaxTime,
         NEW n \in nextRun
  PROVE  Wakes(now, n)
<1> DEFINE D == DayOf(now)
           E == DayOf(now + Normal)
<1>1. now \in Nat /\ Normal \in Nat /\ Normal > 1 /\ MaxTime \in Nat
  BY DaemonAssumption
<1>2. /\ D \in 1 .. LastDay - 1 /\ Midnight(D) <= now /\ now < Midnight(D + 1)
      /\ E \in 1 .. LastDay - 1 /\ Midnight(E) <= now + Normal /\ now + Normal < Midnight(E + 1)
  <2>1. now \in 0 .. MaxTime + Normal /\ now + Normal \in 0 .. MaxTime + Normal
    BY <1>1
  <2> QED
    BY <2>1, DayHasTime
<1>3. /\ LastDay \in Nat
      /\ \A d \in 1 .. LastDay - 1 : d \in 1 .. LastDay /\ d + 1 \in 1 .. LastDay /\ d \in Nat
      /\ \A d \in 1 .. LastDay : Midnight(d) \in Nat
      /\ \A d \in 1 .. LastDay - 1 :
           Midnight(d + 1) - Midnight(d) \in {Normal - 1, Normal, Normal + 1}
      /\ \A d, e \in 1 .. LastDay : d <= e => Midnight(d) <= Midnight(e)
  BY DaysFollow DEF Length
<1>4. /\ Left(now) = {u \in Slots(D) : u > now}
      /\ Left(now + Normal) = {u \in Slots(E) : u > now}
  BY DEF Left
<1> HIDE DEF D, E
\* Slots of days before this one are over.
<1>5. ASSUME NEW d \in 1 .. LastDay - 1, NEW t \in Slots(d), d < D PROVE t <= now
  BY <1>1, <1>2, <1>3, <1>5, SlotsOfDay
\* Slots of different days are in the order of the days.
<1>6. ASSUME NEW d \in 1 .. LastDay - 1, NEW e \in 1 .. LastDay - 1,
             NEW t \in Slots(d), NEW u \in Slots(e), d < e
      PROVE  t <= u
  <2>1. t <= Midnight(e) /\ Midnight(e) <= u /\ t \in Nat /\ u \in Nat /\ Midnight(e) \in Nat
    BY <1>3, <1>6, SlotsOfDay
  <2> QED
    BY <2>1
<1>7. CASE Left(now) # {}
  <2>1. n = Earliest(Left(now))
    BY <1>7 DEF nextRun
  <2>2. Left(now) \subseteq Nat
    BY <1>2, <1>4, SlotsOfDay
  <2>3. n \in Left(now) /\ \A u \in Left(now) : n <= u
    BY <1>7, <2>1, <2>2, EarliestIsFirst
  <2>4. n \in Slots(D) /\ n > now
    BY <1>4, <2>3
  <2>5. n \in Nat /\ n <= Midnight(D) + Normal - 1 /\ Midnight(D) \in Nat
    BY <1>2, <1>3, <2>4, SlotsOfDay
  <2>6. now < n /\ n <= now + 2 * Normal
    BY <1>1, <1>2, <2>4, <2>5
  <2>7. ASSUME NEW d \in 1 .. LastDay - 1, NEW t \in Slots(d), now < t, t < n PROVE FALSE
    <3>0. t \in Nat /\ d \in Nat /\ D \in Nat
      BY <1>2, <1>3, SlotsOfDay
    <3>1. CASE d < D
      BY <1>1, <1>5, <2>7, <3>0, <3>1
    <3>2. CASE d = D
      BY <1>1, <1>4, <2>3, <2>5, <2>7, <3>0, <3>2
    <3>3. CASE D < d
      BY <1>2, <1>6, <2>4, <2>5, <2>7, <3>0, <3>3
    <3> QED
      BY <3>0, <3>1, <3>2, <3>3
  <2> QED
    BY <1>2, <2>4, <2>5, <2>6, <2>7 DEF Wakes
<1>8. ASSUME Left(now) = {}, Left(now + Normal) # {} PROVE Wakes(now, n)
  <2>1. n = Earliest(Left(now + Normal))
    BY <1>8 DEF nextRun
  <2>2. Left(now + Normal) \subseteq Nat
    BY <1>2, <1>4, SlotsOfDay
  <2>3. n \in Left(now + Normal) /\ \A u \in Left(now + Normal) : n <= u
    BY <1>8, <2>1, <2>2, EarliestIsFirst
  <2>4. n \in Slots(E) /\ n > now
    BY <1>4, <2>3
  <2>5. n \in Nat /\ n <= Midnight(E) + Normal - 1 /\ Midnight(E) \in Nat
    BY <1>2, <1>3, <2>4, SlotsOfDay
  <2>6. now < n /\ n <= now + 2 * Normal
    BY <1>1, <1>2, <2>4, <2>5
  <2>7. ASSUME NEW d \in 1 .. LastDay - 1, NEW t \in Slots(d), now < t, t < n
        PROVE  Length(d) < Normal /\ now = Midnight(d) - 1
    <3>0. t \in Nat /\ d \in Nat /\ D \in Nat /\ E \in Nat
      BY <1>2, <1>3, SlotsOfDay
    <3>1. ~ (d < D)
      BY <1>1, <1>5, <2>7, <3>0
    <3>2. d # D
      BY <1>1, <1>4, <1>8, <2>7, <3>0
    <3>3. ~ (E < d)
      BY <1>2, <1>6, <2>4, <2>5, <2>7, <3>0
    <3>4. d # E
      BY <1>1, <1>4, <2>3, <2>5, <2>7, <3>0
    <3>5. D + 1 <= d /\ d + 1 <= E
      BY <3>0, <3>1, <3>2, <3>3, <3>4
    <3>6. Midnight(D + 1) <= Midnight(d) /\ Midnight(d + 1) <= Midnight(E)
      BY <1>2, <1>3, <3>5
    <3>7. /\ Midnight(D + 1) \in Nat /\ Midnight(d) \in Nat /\ Midnight(d + 1) \in Nat
          /\ Midnight(d + 1) - Midnight(d) \in {Normal - 1, Normal, Normal + 1}
      BY <1>2, <1>3
    <3>8. Midnight(d + 1) - Midnight(d) < Normal /\ now = Midnight(d) - 1
      BY <1>1, <1>2, <2>5, <3>6, <3>7
    <3> QED
      BY <3>8 DEF Length
  <2> QED
    BY <1>2, <2>4, <2>5, <2>6, <2>7 DEF Wakes
<1>9. ASSUME Left(now) = {}, Left(now + Normal) = {} PROVE Wakes(now, n)
  <2>1. n = now + Normal
    BY <1>9 DEF nextRun
  <2>2. PICK u \in Slots(E) : u <= now
    <3>1. PICK s \in times : TRUE
      OBVIOUS
    <3>2. Midnight(E) + s \in Slots(E)
      BY DEF Slots
    <3>3. Midnight(E) + s \in Nat
      BY <1>2, <3>2, SlotsOfDay
    <3> QED
      BY <1>1, <1>4, <1>9, <3>2, <3>3
  <2>3. Midnight(E) <= now
    BY <1>1, <1>2, <1>3, <2>2, SlotsOfDay
  <2>4. D = E
    <3>0. D \in Nat /\ E \in Nat /\ Midnight(D) \in Nat /\ Midnight(E) \in Nat
          /\ Midnight(D + 1) \in Nat /\ Midnight(E + 1) \in Nat
      BY <1>2, <1>3
    <3>1. ASSUME E < D PROVE FALSE
      <4>1. Midnight(E + 1) <= Midnight(D)
        BY <1>2, <1>3, <3>0, <3>1
      <4> QED
        BY <1>1, <1>2, <3>0, <4>1
    <3>2. ASSUME D < E PROVE FALSE
      <4>1. Midnight(D + 1) <= Midnight(E)
        BY <1>2, <1>3, <3>0, <3>2
      <4> QED
        BY <1>1, <1>2, <2>3, <3>0, <4>1
    <3> QED
      BY <3>0, <3>1, <3>2
  <2>5. now = Midnight(D) /\ Length(D) > Normal
    <3>1. /\ Midnight(D) \in Nat /\ Midnight(D + 1) \in Nat
          /\ Midnight(D + 1) - Midnight(D) \in {Normal - 1, Normal, Normal + 1}
      BY <1>2, <1>3
    <3> QED
      BY <1>1, <1>2, <2>4, <3>1 DEF Length
  <2>6. n \in Nat /\ now < n /\ n <= now + 2 * Normal
    BY <1>1, <2>1
  <2>7. ASSUME NEW d \in 1 .. LastDay - 1, NEW t \in Slots(d), now < t, t < n PROVE FALSE
    <3>0. t \in Nat /\ d \in Nat /\ D \in Nat
      BY <1>2, <1>3, SlotsOfDay
    <3>1. ~ (d < D)
      BY <1>1, <1>5, <2>7, <3>0
    <3>2. d # D
      BY <1>1, <1>4, <1>9, <2>7, <3>0
    <3>3. D + 1 <= d
      BY <3>0, <3>1, <3>2
    <3>4. Midnight(D + 1) <= Midnight(d) /\ Midnight(d) <= t
          /\ Midnight(D + 1) \in Nat /\ Midnight(d) \in Nat
      BY <1>2, <1>3, <3>3, SlotsOfDay
    <3> QED
      BY <1>1, <1>2, <2>1, <2>4, <2>7, <3>0, <3>4
  <2> QED
    BY <1>2, <2>5, <2>6, <2>7 DEF Wakes
<1> QED
  BY <1>7, <1>8, <1>9

-----------------------------------------------------------------------------
(* The service.                                                            *)

\* How far the threads of the service are, and what they have written by then.
Threads ==
  /\ main # "off" => service
  /\ service /\ main \in {"off", "pending", "go"} => phase = "off"
  /\ handler # "off" => service /\ main \in {"done", "stopped", "end"}
  /\ ctxDone => ~service \/ handler = "end"
  /\ main \in {"stopped", "end"} => phase = "ended"

\* What is in the record, and what the service controller has read of it.
Records ==
  /\ record.accepts => main \in {"serve", "done"}
  /\ view.accepts => main \in {"done", "stopped", "end"}
  /\ handler # "off" => record.state \in {"stop pending", "stopped"}
  /\ "stopped" \in {record.state, view.state} => main \in {"stopped", "end"}

\* When runs and timers began, and how long they last.
Timely ==
  /\ phase \in {"off", "start"} => last = Never
  /\ phase = "wait" => now <= next /\ (times # {} => Wakes(armed, next))
  /\ last # Never /\ ~ctxDone =>
       /\ phase = "run" => now <= until /\ until <= last + MaxRun
       /\ phase = "plan" => now <= last + MaxRun
       /\ phase = "wait" => armed <= last + MaxRun

ServiceInductive == TypeOK /\ Threads /\ Records /\ Timely

LEMMA TimerKept ==
  ASSUME UNCHANGED <<settings, armed, next>>, Wakes(armed, next)
  PROVE  Wakes(armed, next)'
BY DEF Wakes, Slots, Length, Midnight, LastDay, settings

\* What nextRun returns, with a schedule or without.
LEMMA NextRunIsLater ==
  ASSUME DaemonTypeOK, NEW n \in nextRun
  PROVE  n \in Nat /\ now <= n
<1>1. now \in Nat /\ Normal \in Nat /\ Interval \in Nat /\ Jitter \in Nat
  BY DaemonAssumption DEF DaemonTypeOK
<1>2. CASE times = {}
  <2>1. PICK j \in {0} \cup 0 .. Jitter - 1 : n = now + Interval + j
    BY <1>2 DEF nextRun
  <2> QED
    BY <1>1, <2>1
<1>3. CASE times # {}
  <2>1. Wakes(now, n)
    BY <1>3, NextRunWakes DEF DaemonTypeOK
  <2> QED
    BY <1>1, <2>1 DEF Wakes
<1> QED
  BY <1>2, <1>3

LEMMA StatusHas ==
  ASSUME NEW s \in {"none", "start pending", "running", "stop pending", "stopped"},
         NEW a \in BOOLEAN
  PROVE  Status(s, a) \in Statuses /\ Status(s, a).state = s /\ Status(s, a).accepts = a
BY DEF Status, Statuses

LEMMA ServiceInit == Init => ServiceInductive
<1> SUFFICES ASSUME Init PROVE ServiceInductive
  OBVIOUS
<1>1. TypeOK
  <2>1. DaemonTypeOK
    <3>1. {next, until, armed} \subseteq Nat /\ last \in Nat \cup {Never} /\ ctxDone \in BOOLEAN
      <4>1. next = 0 /\ until = 0 /\ armed = 0 /\ last = Never /\ ctxDone = FALSE
        BY DEF Init, DaemonInit
      <4>2. ctxDone \in BOOLEAN
        BY <4>1, Zenon
      <4> QED
        BY <4>1, <4>2
    <3>2. now \in 0 .. MaxTime /\ phase = "off"
      BY DEF Init, DaemonInit
    <3>3. calendar \in Calendars /\ times \in Schedules /\ onStart \in BOOLEAN
      BY DEF Init, DaemonInit
    <3> QED
      BY <3>1, <3>2, <3>3 DEF DaemonTypeOK
  <2>2. {record, view} \subseteq Statuses
    BY StatusHas DEF Init
  <2> QED
    BY <2>1, <2>2 DEF Init, TypeOK
<1>2. Threads /\ Records /\ Timely
  BY StatusHas DEF Init, DaemonInit, Threads, Records, Timely
<1> QED
  BY <1>1, <1>2 DEF ServiceInductive

\* The daemon.
LEMMA DaemonMoves ==
  ASSUME ServiceInductive, DaemonStep, UNCHANGED serviceVars
  PROVE  ServiceInductive'
<1> USE DEF ServiceInductive
<1>1. /\ now \in Nat /\ MaxRun \in Nat /\ last \in Nat \cup {Never} /\ Never \notin Nat
      /\ {next, until, armed} \subseteq Nat
  BY DaemonAssumption DEF TypeOK, DaemonTypeOK
<1>2. /\ UNCHANGED settings /\ now' = now /\ ctxDone' = ctxDone
      /\ phase \notin {"off", "ended"} /\ phase' \in {"plan", "wait", "run", "ended"}
  BY DEF DaemonStep, Start, EndRun, Arm, Fire, StopWaiting, BeginRun, settings
<1>3. Threads' /\ Records'
  BY <1>2 DEF Threads, Records, serviceVars, settings
<1>4. CASE BeginRun /\ UNCHANGED <<next, armed>>
  <2>1. /\ phase' = "run" /\ last' = now /\ now <= until' /\ until' <= last' + MaxRun
        /\ until' \in Nat
    BY <1>1, <1>4 DEF BeginRun
  <2>2. TypeOK'
    BY <1>1, <1>2, <1>4, <2>1 DEF TypeOK, DaemonTypeOK, serviceVars, settings
  <2>3. Timely'
    BY <1>2, <2>1 DEF Timely
  <2> QED
    BY <1>3, <2>2, <2>3
<1>5. CASE Start /\ ~BeginRun
  <2>1. phase' = "plan" /\ last = Never /\ UNCHANGED <<until, last, next, armed>>
    BY <1>5 DEF Start, Timely
  <2>2. TypeOK'
    BY <1>2, <2>1 DEF TypeOK, DaemonTypeOK, serviceVars, settings
  <2>3. Timely'
    BY <2>1 DEF Timely
  <2> QED
    BY <1>3, <2>2, <2>3
<1>6. CASE EndRun
  <2>1. /\ phase = "run" /\ phase' = "plan" /\ (now = until \/ ctxDone)
        /\ UNCHANGED <<until, last, next, armed>>
    BY <1>6 DEF EndRun
  <2>2. TypeOK'
    BY <1>2, <2>1 DEF TypeOK, DaemonTypeOK, serviceVars, settings
  <2>3. Timely'
    BY <1>1, <1>2, <2>1 DEF Timely
  <2> QED
    BY <1>3, <2>2, <2>3
<1>7. CASE Arm
  <2>1. /\ phase = "plan" /\ phase' = "wait" /\ next' \in nextRun /\ armed' = now
        /\ UNCHANGED <<until, last>>
    BY <1>7 DEF Arm
  <2>2. next' \in Nat /\ now <= next'
    BY <2>1, NextRunIsLater DEF TypeOK
  <2>3. TypeOK'
    BY <1>1, <1>2, <2>1, <2>2 DEF TypeOK, DaemonTypeOK, serviceVars, settings
  <2>4. times # {} => Wakes(now, next')
    BY <2>1, NextRunWakes DEF TypeOK, DaemonTypeOK
  <2>5. times' # {} => Wakes(armed, next)'
    BY <1>2, <2>1, <2>4 DEF Wakes, Slots, Length, Midnight, LastDay, settings
  <2>6. Timely'
    BY <1>2, <2>1, <2>2, <2>5 DEF Timely
  <2> QED
    BY <1>3, <2>3, <2>6
<1>8. CASE StopWaiting
  <2>1. phase' = "ended" /\ ctxDone /\ UNCHANGED <<until, last, next, armed>>
    BY <1>8 DEF StopWaiting
  <2>2. TypeOK'
    BY <1>2, <2>1 DEF TypeOK, DaemonTypeOK, serviceVars, settings
  <2>3. Timely'
    BY <1>2, <2>1 DEF Timely
  <2> QED
    BY <1>3, <2>2, <2>3
<1> QED
  BY <1>4, <1>5, <1>6, <1>7, <1>8 DEF DaemonStep, Start, Fire

\* The clock.
LEMMA TimePasses ==
  ASSUME ServiceInductive, Tick, UNCHANGED serviceVars
  PROVE  ServiceInductive'
<1> USE DEF ServiceInductive
<1>1. /\ now' = now + 1 /\ now' \in 0 .. MaxTime
      /\ UNCHANGED <<settings, daemonVars, ctxDone>>
      /\ (phase = "wait" /\ now < next) \/ (phase = "run" /\ now < until)
      /\ now \in Nat /\ next \in Nat /\ until \in Nat
  BY DaemonAssumption DEF Tick, TypeOK, DaemonTypeOK
<1>2. TypeOK' /\ Threads' /\ Records'
  BY <1>1 DEF TypeOK, DaemonTypeOK, Threads, Records, serviceVars, daemonVars, settings
<1>3. phase = "wait" /\ times # {} => Wakes(armed, next)'
  BY <1>1, TimerKept DEF Timely, daemonVars
<1>4. Timely'
  BY <1>1, <1>3 DEF Timely, daemonVars, settings
<1> QED
  BY <1>2, <1>4

\* What a step that leaves the daemon and the clock alone does not disturb.
LEMMA TimelyKept ==
  ASSUME Timely, UNCHANGED <<settings, now, daemonVars>>, ctxDone' \/ ~ctxDone
  PROVE  Timely'
<1>1. phase = "wait" /\ times # {} => Wakes(armed, next)'
  BY TimerKept DEF Timely, daemonVars
<1> QED
  BY <1>1 DEF Timely, daemonVars, settings

\* The threads of the service, the service controller and the signals.
LEMMA ServiceMoves ==
  ASSUME ServiceInductive, ServiceStep \/ Control \/ Foreground \/ Signal
  PROVE  ServiceInductive'
<1> USE DEF ServiceInductive
<1>1. CASE Register \/ FillRunning \/ FillStopped \/ Control
  <2>1. UNCHANGED <<settings, now, daemonVars, ctxDone>>
    BY <1>1 DEF Register, FillRunning, FillStopped, Control, Fill
  <2>2. TypeOK'
    <3>1. DaemonTypeOK' /\ {service, cancel, failed}' \subseteq BOOLEAN
      BY <1>1, <2>1 DEF Register, FillRunning, FillStopped, Control, Fill, TypeOK,
         DaemonTypeOK, daemonVars, settings
    <3>2. /\ main' \in {"off", "pending", "go", "running", "serve", "done", "stopped", "end"}
          /\ handler' \in {"off", "pending", "cancel", "end"}
      BY <1>1 DEF Register, FillRunning, FillStopped, Control, TypeOK
    <3>3. {record', view'} \subseteq Statuses
      BY <1>1, StatusHas DEF Register, FillRunning, FillStopped, Control, Fill, TypeOK
    <3> QED
      BY <3>1, <3>2, <3>3 DEF TypeOK
  <2>3. Threads'
    BY <1>1, <2>1 DEF Register, FillRunning, FillStopped, Control, Fill, Threads, Records,
       daemonVars
  <2>4. Records'
    <3>1. CASE Register
      BY <3>1, StatusHas DEF Register, Fill, Threads, Records
    <3>2. CASE FillRunning
      BY <3>2, StatusHas DEF FillRunning, Fill, Threads, Records
    <3>3. CASE FillStopped
      BY <3>3, StatusHas DEF FillStopped, Fill, Threads, Records
    <3>4. CASE Control
      BY <3>4, StatusHas DEF Control, Fill, Threads, Records
    <3> QED
      BY <1>1, <3>1, <3>2, <3>3, <3>4
  <2> QED
    BY <2>1, <2>2, <2>3, <2>4, TimelyKept
<1>2. CASE ReportPending \/ ReportRunning \/ ReportStopped \/ ReportStopPending
  <2>1. UNCHANGED <<settings, now, daemonVars, ctxDone>>
    BY <1>2 DEF ReportPending, ReportRunning, ReportStopped, ReportStopPending, Report
  <2>2. TypeOK'
    BY <1>2, <2>1 DEF ReportPending, ReportRunning, ReportStopped, ReportStopPending, Report,
       TypeOK, DaemonTypeOK, daemonVars, settings
  <2>3. Threads'
    BY <1>2, <2>1 DEF ReportPending, ReportRunning, ReportStopped, ReportStopPending, Report,
       Threads, daemonVars
  <2>4. Records'
    BY <1>2, <2>1 DEF ReportPending, ReportRunning, ReportStopped, ReportStopPending, Report,
       Threads, Records
  <2> QED
    BY <2>1, <2>2, <2>3, <2>4, TimelyKept
<1>3. CASE Go
  <2>1. /\ phase = "off" /\ last = Never /\ phase' \in {"start", "ended"}
        /\ UNCHANGED <<settings, now, next, until, armed, last, ctxDone>>
    BY <1>3 DEF Go, Threads, Timely
  <2>2. TypeOK'
    BY <1>3, <2>1 DEF Go, TypeOK, DaemonTypeOK, settings
  <2>3. Threads' /\ Records'
    <3>1. /\ main = "go" /\ main' = "running" /\ service' = service
          /\ UNCHANGED <<handler, record, view>>
      BY <1>3 DEF Go
    <3>2. service
      BY <3>1 DEF Threads
    <3> QED
      BY <2>1, <3>1, <3>2 DEF Threads, Records
  <2>4. Timely'
    BY <2>1 DEF Timely
  <2> QED
    BY <2>2, <2>3, <2>4
<1>4. CASE Cancel
  <2>1. UNCHANGED <<settings, now, daemonVars>> /\ ~ctxDone
    BY <1>4 DEF Cancel, Threads
  <2>2. TypeOK'
    BY <1>4, <2>1 DEF Cancel, TypeOK, DaemonTypeOK, daemonVars, settings
  <2>3. Threads' /\ Records'
    BY <1>4, <2>1 DEF Cancel, Threads, Records, daemonVars
  <2> QED
    BY <2>1, <2>2, <2>3, TimelyKept
<1>5. CASE Foreground
  <2>1. /\ phase = "off" /\ last = Never /\ phase' = "start" /\ ~service
        /\ UNCHANGED <<settings, now, next, until, armed, last, ctxDone, serviceVars>>
    BY <1>5 DEF Foreground, Timely
  <2>2. TypeOK'
    BY <2>1 DEF TypeOK, DaemonTypeOK, serviceVars, settings
  <2>3. Threads' /\ Records'
    BY <2>1 DEF Threads, Records, serviceVars
  <2>4. Timely'
    BY <2>1 DEF Timely
  <2> QED
    BY <2>2, <2>3, <2>4
<1>6. CASE Signal
  <2>1. ctxDone' = TRUE /\ ~service /\ UNCHANGED <<settings, now, daemonVars, serviceVars>>
    BY <1>6 DEF Signal
  <2>2. TypeOK'
    BY <2>1 DEF TypeOK, DaemonTypeOK, serviceVars, daemonVars, settings
  <2>3. Threads' /\ Records'
    BY <2>1 DEF Threads, Records, serviceVars, daemonVars
  <2> QED
    BY <2>1, <2>2, <2>3, TimelyKept
<1> QED
  BY <1>1, <1>2, <1>3, <1>4, <1>5, <1>6 DEF ServiceStep

LEMMA ServiceStays == ServiceInductive /\ [Next]_vars => ServiceInductive'
<1> SUFFICES ASSUME ServiceInductive, [Next]_vars PROVE ServiceInductive'
  OBVIOUS
<1>1. CASE UNCHANGED vars
  <2>1. TypeOK' /\ Threads' /\ Records'
    BY <1>1 DEF ServiceInductive, TypeOK, DaemonTypeOK, Threads, Records, vars, serviceVars,
       daemonVars, settings
  <2>2. Timely'
    BY <1>1, TimelyKept DEF ServiceInductive, vars
  <2> QED
    BY <2>1, <2>2 DEF ServiceInductive
<1> QED
  BY <1>1, DaemonMoves, TimePasses, ServiceMoves DEF Next

\* A daemon with a schedule sleeps to its next slot, with any number of clock changes:
\* but for a slot on a day that 24 hours step over and a day of which they are not the
\* end; and two runs are never more than two days and a run apart (cmd_sync.go:254-275).
THEOREM DaemonIsPunctual == Spec => []Punctual
<1>1. ServiceInductive => Punctual
  <2> SUFFICES ASSUME ServiceInductive PROVE Punctual
    OBVIOUS
  <2>1. /\ now \in Nat /\ MaxRun \in Nat /\ Normal \in Nat /\ last \in Nat \cup {Never}
        /\ Never \notin Nat /\ {next, until, armed} \subseteq Nat
    BY DaemonAssumption DEF ServiceInductive, TypeOK, DaemonTypeOK
  <2>2. SleepsToTheNextSlot
    BY DEF ServiceInductive, Timely, Wakes, SleepsToTheNextSlot
  <2>3. NeverSilentForLong
    BY <2>1 DEF ServiceInductive, Timely, Wakes, NeverSilentForLong
  <2> QED
    BY <2>2, <2>3 DEF ServiceInductive, Punctual
<1> QED
  BY <1>1, ServiceInit, ServiceStays, PTL DEF Spec

\* Whatever the two threads of a service write over each other: once a stop has been
\* delivered the service controller does not see it run again, and it is not told that
\* the service has stopped before the job has ended (service_windows.go:118-168).
THEOREM NoWayBackFromStop == Spec => NoWayBack
<1>1. ASSUME ServiceInductive, [Next]_vars
      PROVE  [/\ handler # "off" /\ view'.state = "running" => view.state = "running"
              /\ view'.state = "stopped" => phase = "ended"]_vars
  <2>1. handler # "off" => record.state # "running"
    BY <1>1 DEF ServiceInductive, Records
  <2>2. "stopped" \in {record.state, view.state} => phase = "ended"
    BY <1>1 DEF ServiceInductive, Records, Threads
  <2>3. view' = view \/ view' = record
    BY <1>1 DEF Next, DaemonStep, Tick, ServiceStep, Register, ReportPending, Go, FillRunning,
       ReportRunning, FillStopped, ReportStopped, Control, ReportStopPending, Cancel,
       Foreground, Signal, Fill, Report, vars, serviceVars
  <2> QED
    BY <2>1, <2>2, <2>3
<1> QED
  BY <1>1, ServiceInit, ServiceStays, PTL DEF Spec, NoWayBack

=============================================================================
