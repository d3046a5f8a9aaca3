SPECIFICATION FinanceSpec
CONSTANTS
    cash = cash
    mtn = mtn
    bank1 = bank1
    bank2 = bank2
    r1 = r1
    r2 = r2
    none = none
    Cash = cash
    Mobile <- NoAccounts
    Bank1 = bank1
    Extra <- NoAccounts
    RequestIds <- OneRequest
    None = none
    Amounts = {1}
    Counts = {0}
    MaxEntries = 3
    MaxRecs = 0
    MaxDay = 1
CHECK_DEADLOCK FALSE
INVARIANT InactiveAccountsAreEmpty
