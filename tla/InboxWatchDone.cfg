SPECIFICATION SafeSpec
CONSTANTS
    OldMail = 1
    MaxMail = 2
    MaxExpunges = 0
    MaxFaults = 1
INVARIANT DoneOnlyAfterIdle
CHECK_DEADLOCK FALSE
