SPECIFICATION Spec
CONSTANTS
    Timers = {apt, mandb}
    Dropins = {journald, swap}
    apt = apt
    mandb = mandb
    journald = journald
    swap = swap
    Absent = Absent
    None = None
    MaxCuts = 1
    MaxFails = 0
INVARIANTS RwUndoes
CHECK_DEADLOCK FALSE
