----------------------------- MODULE ServiceRun -----------------------------
(***************************************************************************)
(* The daemon under a supervisor (cmd_service.go, service_windows.go): as  *)
(* a Windows service, whose main function and control handler run on two   *)
(* threads and share one SERVICE_STATUS record without a lock, or in the   *)
(* foreground with signals.  The service control manager has its own view: *)
(* the record as it was when SetServiceStatus last read it.                *)
(***************************************************************************)
EXTENDS Daemon

VARIABLES
  service,   \* the service controller has started the process
  main,      \* serviceMain
  handler,   \* serviceHandlerCallback
  record,    \* svcRun.status
  view,      \* what the service controller believes
  cancel,    \* svcRun.cancel is set
  failed     \* the run ended on its own, with an error

serviceVars == <<service, main, handler, record, view, cancel, failed>>
vars == <<settings, now, daemonVars, ctxDone, serviceVars>>

Status(s, a) == [state |-> s, accepts |-> a]
Statuses == [state : {"none", "start pending", "running", "stop pending", "stopped"},
             accepts : BOOLEAN]

TypeOK ==
  /\ DaemonTypeOK
  /\ {service, cancel, failed} \subseteq BOOLEAN
  /\ main \in {"off", "pending", "go", "running", "serve", "done", "stopped", "end"}
  /\ handler \in {"off", "pending", "cancel", "end"}
  /\ {record, view} \subseteq Statuses

Init ==
  /\ DaemonInit
  /\ service \in BOOLEAN
  /\ main = "off" /\ handler = "off"
  /\ record = Status("none", FALSE) /\ view = Status("none", FALSE)
  /\ cancel = FALSE /\ failed = FALSE

-----------------------------------------------------------------------------

\* setStatus fills in the record ...
Fill(s, a) ==
  /\ record' = Status(s, a)
  /\ UNCHANGED <<settings, now, daemonVars, ctxDone, service, view, cancel, failed>>

\* ... and SetServiceStatus hands it over, as it is by then.  A service that has
\* reported that it is stopped is not heard any more.
Report ==
  /\ view' = IF view.state = "stopped" THEN view ELSE record
  /\ UNCHANGED <<settings, now, daemonVars, ctxDone, service, record, cancel, failed>>

\* serviceMain: the handler is registered, and the service on its way.
Register ==
  /\ service /\ main = "off"
  /\ main' = "pending"
  /\ Fill("start pending", FALSE)
  /\ UNCHANGED handler

ReportPending ==
  /\ main = "pending"
  /\ main' = "go"
  /\ Report
  /\ UNCHANGED handler

\* The job is started on a goroutine; it may end at once, with an error.
Go ==
  /\ main = "go"
  /\ main' = "running"
  /\ cancel' = TRUE
  /\ \/ phase' = "start" /\ UNCHANGED failed
     \/ phase' = "ended" /\ failed' = TRUE
  /\ UNCHANGED <<settings, now, next, until, armed, last, ctxDone, service, handler,
                 record, view>>

FillRunning ==
  /\ main = "running"
  /\ main' = "serve"
  /\ Fill("running", TRUE)
  /\ UNCHANGED handler

ReportRunning ==
  /\ main = "serve"
  /\ main' = "done"
  /\ Report
  /\ UNCHANGED handler

\* Mutant: the stop is reported before the job has ended.
FillStoppedEarly ==
  /\ main = "done" /\ (phase = "ended" \/ ctxDone)
  /\ main' = "stopped"
  /\ Fill("stopped", FALSE)
  /\ UNCHANGED handler

\* The job has ended.
FillStopped ==
  /\ main = "done" /\ phase = "ended"
  /\ main' = "stopped"
  /\ Fill("stopped", FALSE)
  /\ UNCHANGED handler

ReportStopped ==
  /\ main = "stopped"
  /\ main' = "end"
  /\ Report
  /\ UNCHANGED handler

\* The service controller delivers a stop, or a shutdown, to a service that takes it.
Control ==
  /\ view.accepts
  /\ handler = "off"
  /\ handler' = "pending"
  /\ Fill("stop pending", FALSE)
  /\ UNCHANGED main

ReportStopPending ==
  /\ handler = "pending"
  /\ handler' = "cancel"
  /\ Report
  /\ UNCHANGED main

\* Mutant: the handler leaves it at the report.
CancelForgotten ==
  /\ handler = "cancel"
  /\ handler' = "end"
  /\ UNCHANGED <<settings, now, daemonVars, ctxDone, service, main, record, view, cancel,
                 failed>>

\* The handler cancels the job's context, once there is one.
Cancel ==
  /\ handler = "cancel"
  /\ handler' = "end"
  /\ ctxDone' = cancel
  /\ UNCHANGED <<settings, now, daemonVars, service, main, record, view, cancel, failed>>

\* Not a service: the job runs in the foreground until a signal.
Foreground ==
  /\ ~service /\ phase = "off"
  /\ phase' = "start"
  /\ UNCHANGED <<settings, now, next, until, armed, last, ctxDone, serviceVars>>

Signal ==
  /\ ~service /\ phase # "off"
  /\ ctxDone' = TRUE
  /\ UNCHANGED <<settings, now, daemonVars, serviceVars>>

ServiceStep ==
  \/ Register \/ ReportPending \/ Go \/ FillRunning \/ ReportRunning
  \/ FillStopped \/ ReportStopped
  \/ ReportStopPending \/ Cancel

Next ==
  \/ DaemonStep /\ UNCHANGED serviceVars
  \/ Tick /\ UNCHANGED serviceVars
  \/ ServiceStep
  \/ Control \/ Foreground \/ Signal

Spec == Init /\ [][Next]_vars

\* Threads and goroutines are scheduled; select does not pass over a context that is
\* done for ever.
Fairness ==
  /\ WF_vars(DaemonStep /\ UNCHANGED serviceVars)
  /\ SF_vars(StopWaiting /\ UNCHANGED serviceVars)
  /\ WF_vars(ServiceStep)
  /\ WF_vars(Tick /\ UNCHANGED serviceVars)

FairSpec == Spec /\ Fairness

-----------------------------------------------------------------------------

\* A daemon sleeps to the next slot of its schedule, across changes of the clock, and
\* is not silent for long.
Punctual == TypeOK /\ SleepsToTheNextSlot /\ NeverSilentForLong

\* After it has delivered a stop the service controller never sees the service run
\* again, and it is told that the service has stopped only when the job has ended.
NoWayBack ==
  [][/\ handler # "off" /\ view'.state = "running" => view.state = "running"
     /\ view'.state = "stopped" => phase = "ended"]_vars

\* A stop is carried out and reported, though the two threads write the same record, if
\* the job does not end on its own just then; in the foreground a signal ends it.
StopIsCarriedOut ==
  /\ handler = "pending" ~> view.state = "stopped" \/ failed
  /\ ~service /\ ctxDone ~> phase = "ended"
=============================================================================
