SPECIFICATION Spec
CONSTANTS
    Timers = {apt, mandb}
    Dropins = {journald, swap}
    apt = apt
    mandb = mandb
    journald = journald
    swap = swap
    Absent = Absent
    None = None
    MaxCuts = 2
    MaxFails = 2
INVARIANTS RoReported RwReported RwResumes
CHECK_DEADLOCK FALSE
