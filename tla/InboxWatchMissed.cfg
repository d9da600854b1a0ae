SPECIFICATION SafeSpec
CONSTANTS
    OldMail = 1
    MaxMail = 3
    MaxExpunges = 0
    MaxFaults = 0
INVARIANT EveryNewMailAnnounced
CHECK_DEADLOCK FALSE
