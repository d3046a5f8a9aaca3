SPECIFICATION BillingSpec
CONSTANTS
    cash = cash
    bank1 = bank1
    r1 = r1
    p1 = p1
    p2 = p2
    p3 = p3
    job1 = job1
    job2 = job2
    car = car
    none = none
    Cash = cash
    Mobile <- Nobody
    Bank1 = bank1
    Extra <- Nobody
    RequestIds <- OneRequest
    None = none
    Amounts = {1, 2}
    Counts = {0}
    MaxEntries = 3
    MaxRecs = 0
    MaxDay = 1
    Vehicles = {car}
    PointsPerService = 1
    RewardThreshold = 2
    RewardPercent = 50
    RewardCost = 2
    Intakes <- BothJobs
    VehicleOf <- BothTheCar
    PriceOf <- Prices
    QualifyingOf <- QualifyingLines
    Discounts = {2}
    Adjustments <- TwoUpOrOneDown
    PaymentRequests <- ThreePayments
    MaxInvoices = 2
    MaxLog = 4
SYMMETRY RequestSymmetry
CHECK_DEADLOCK FALSE
INVARIANTS
    PaymentsAddUp
    PaymentsMatchLedger
    OneInvoicePerJob
    RetriesPayOnce
    EarnedWhilePaid
    UndoneOnce
    RewardsFollowPoints
    RewardsUsedOnce
PROPERTIES
    TotalsSettled
    PointsImplementJournal
