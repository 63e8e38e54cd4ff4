\* A daemon, a run by hand and a job of another user share a log that keeps two generations.
SPECIFICATION Spec
CONSTANTS
    Procs <- Three
    MaxSize = 2
    MaxFiles = 2
    LineSizes = {2}
    MaxLines = 4
    MaxFaults = 1
    MaxStarts = 4
    daemon = daemon
    manual = manual
    other = other
SYMMETRY Symmetry
INVARIANTS
    LogInv
    LogKept
    SizesBounded
CHECK_DEADLOCK FALSE
