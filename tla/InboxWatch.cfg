SPECIFICATION Spec
CONSTANTS
    OldMail = 1
    MaxMail = 3
    MaxExpunges = 1
    MaxFaults = 3
INVARIANTS
    EndsOnlyOnStop
    EndsLoggedOut
    MailAccounted
    AnnouncedOnce
    BackoffMatchesOutage
    IInv
PROPERTIES
    StopLeadsToFinish
    Recovers
    ImplementsStream
CHECK_DEADLOCK FALSE
