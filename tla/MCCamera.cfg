SPECIFICATION Spec
CONSTANTS
    Stall = 3
    Period = 1
    StartWait = 4
    StopWait = 2
    Duration = 2
    MaxTime = 3
    MaxPts = 5
    None = None
INVARIANTS InfoNotMissed FramesFresh TracksSensor
PROPERTIES PtsGrow StopEnds
