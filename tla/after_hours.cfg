SPECIFICATION AfterHoursSpec
CONSTANTS
    cash = cash
    bank1 = bank1
    r1 = r1
    p1 = p1
    p2 = p2
    job1 = job1
    car = car
    worker = worker
    sweep1 = sweep1
    sweep2 = sweep2
    none = none
    Cash = cash
    Mobile <- Nobody
    Bank1 = bank1
    Extra <- Nobody
    RequestIds <- OneRequest
    None = none
    Amounts = {1}
    Counts = {0}
    MaxEntries = 3
    MaxRecs = 0
    MaxDay = 1
    Vehicles = {car}
    PointsPerService = 1
    RewardThreshold = 2
    RewardPercent = 50
    RewardCost = 2
    Intakes = {job1}
    VehicleOf <- TheCar
    PriceOf <- Prices
    QualifyingOf <- NoPoints
    Discounts = {}
    Adjustments = {}
    PaymentRequests <- TwoPayments
    MaxInvoices = 1
    MaxLog = 0
    Workers = {worker}
    Windows <- OneWindow
    Floats = {1}
    AllowedMethods = {cash}
    Methods = {cash}
    Counted = {2}
    Sweepers <- BothSweeps
    WarnBefore = 1
    RemindAfter = 1
    MaxAuths = 1
    MaxSessions = 2
    MaxHandovers = 1
    MaxTime = 1
CHECK_DEADLOCK FALSE
INVARIANTS
    CustodyAddsUp
    FloatHandedBack
    HandoverStory
    RemindedOnce
PROPERTIES
    HousekeepingDone
