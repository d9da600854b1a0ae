SPECIFICATION SafeSpec
CONSTANTS
    OldMail = 2
    MaxMail = 3
    MaxExpunges = 1
    MaxFaults = 0
INVARIANT OnlyNewMailAnnounced
CHECK_DEADLOCK FALSE
