\* A wizard with up to two picks, and a library user with up to two accounts.
SPECIFICATION Spec
CONSTANTS
    b1 = b1  b2 = b2
    a1 = a1  a2 = a2  a3 = a3
    Servers = {placeholder, server}
    Placeholder = placeholder
    Ports = {143, 993}
    DefaultPort = 993
    Tokens = {t}
    Budgets <- MCBudgets
    AccountIds <- MCAccounts
    Owner <- MCOwner
    Parsers = {td, citi}
    MaxAccounts = 2
    MaxPicks = 2
INVARIANTS
    BuilderRemembers
    ConfigIsWhatWasChosen
PROPERTY WizardEnds
CHECK_DEADLOCK FALSE
