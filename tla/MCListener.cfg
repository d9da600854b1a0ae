\* Two mails, two Ctrl-C, two workers of which one feeds the stream.
SPECIFICATION Spec
CONSTANTS
    MaxI32 = 4999
    Parts <- MCParts
    MaxParts = 1
    Accounts <- MCAccounts
    Mails <- MCMails
    Workers = {w1, w2}
    Feeders = {w1}
    MaxMails = 2
    MaxPresses = 2
INVARIANTS
    LedgerIsFaithful
    FatesAreTrue
    EndLosesNothing
    OneCtrlCCleansUp
    DoneIsClean
    IInv
PROPERTIES
    EveryMessageIsDealtWith
    EndOfStreamEndsProgram
    IdleCtrlCEndsProgram
CHECK_DEADLOCK FALSE
