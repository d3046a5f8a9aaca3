SPECIFICATION FinanceSpec
CONSTANTS
    cash = cash
    mtn = mtn
    bank1 = bank1
    bank2 = bank2
    r1 = r1
    r2 = r2
    none = none
    Cash = cash
    Mobile <- NoAccounts
    Bank1 = bank1
    Extra <- NoAccounts
    RequestIds <- TwoRequests
    None = none
    Amounts = {1, 2}
    Counts = {0, 1, 2}
    MaxEntries = 3
    MaxRecs = 2
    MaxDay = 1
CHECK_DEADLOCK FALSE
SYMMETRY RequestSymmetry
INVARIANTS
    AwaitingWithinCash
    DepositsMatchLedger
    ReconciliationsClosedExactly
    RequestsPostOnce
