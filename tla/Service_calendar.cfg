\* A day of four units: every schedule, a clock change on any day, a stop at any time.
SPECIFICATION FairSpec
CONSTANTS
    Normal = 4
    Calendars <- OneChange
    Schedules <- AllSchedules
    Interval = 2
    Jitter = 2
    MaxRun = 2
    MaxTime = 13
    Never = Never
INVARIANT
    Punctual
PROPERTIES
    NoWayBack
    StopIsCarriedOut
CHECK_DEADLOCK FALSE
