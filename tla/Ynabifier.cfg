\* Two mails that are new, two fetches, one deletion, no failures but the
\* deaths of the stream task and of the fetches; Apart bounds the run.
SPECIFICATION Spec
CONSTANTS
    OldMail = 0
    MaxMail = 2
    MaxExpunges = 1
    MaxFaults = 0
    MaxYields = 2
    Mortal = {0, 1, 2}
CONSTRAINT Apart
INVARIANTS
    IInv
    FetchedIsAnnouncedOrLater
    DeliversNewMailOnce
    CloseLeavesNothing
PROPERTY ImplementsParts
CHECK_DEADLOCK FALSE
