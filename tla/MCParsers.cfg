\* Mails of up to three levels, amounts around a small i32::MAX.
SPECIFICATION Spec
CONSTANTS
    MaxI32 = 31999
    Parts <- MCParts
    MaxParts = 7
    Mails <- MCMails
    AccountLists <- MCAccountLists
    MaxDollars = 40
INVARIANTS
    ShallowestHtml
    FirstOfItsBankSettles
    AmountIsExact
CHECK_DEADLOCK FALSE
