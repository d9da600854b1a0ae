\* Two Ctrl-C that come while a transaction is submitted.
SPECIFICATION AnsweringSpec
CONSTANTS
    MaxI32 = 4999
    Parts <- MCParts
    MaxParts = 1
    Accounts <- MCAccounts
    Mails <- MCMails
    Workers = {w1}
    Feeders = {w1}
    MaxMails = 1
    MaxPresses = 2
PROPERTY SecondCtrlCEndsProgram
CHECK_DEADLOCK FALSE
