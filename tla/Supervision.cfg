\* Starts and stops under systemd and by hand, three faults.
CONSTANT MaxFaults = 3
SPECIFICATION FairSupervision
INVARIANTS
    SupervisionTypeOK
    NoStray
    UninstalledIsGone
PROPERTIES
    StopEnds
    KeepsServing
    ImplementsLife
\* A service that serves, or is not started again, needs no further step.
CHECK_DEADLOCK FALSE
