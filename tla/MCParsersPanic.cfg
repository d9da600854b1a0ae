\* A Citi mail without the expected table.
SPECIFICATION Spec
CONSTANTS
    MaxI32 = 31999
    Parts <- MCParts
    MaxParts = 7
    Mails <- MCMails
    AccountLists <- MCAccountLists
    MaxDollars = 1
INVARIANT ParserReturns
CHECK_DEADLOCK FALSE
