SPECIFICATION Spec
CONSTANTS
    Timers = {apt, mandb}
    Dropins = {journald, swap}
    apt = apt
    mandb = mandb
    journald = journald
    swap = swap
    Absent = Absent
    None = None
    MaxCuts = 0
    MaxFails = 0
INVARIANTS RoTakesEffect
CHECK_DEADLOCK FALSE
