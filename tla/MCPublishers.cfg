SPECIFICATION Spec
CONSTANTS
    Labels <- MCLabels
    Threshold = 5
    Outputs <- MCOutputs
    Followed = {"person"}
    Ring = 1
    MaxConnects = 2
    MaxRefusals = 1
INVARIANTS TypeOK AnnouncedIsKnown
PROPERTIES AllAnnounced Clears DetectionsShow
CHECK_DEADLOCK FALSE
