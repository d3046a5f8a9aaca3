SPECIFICATION OfficeSpec
CONSTANTS
    cash = cash
    bank1 = bank1
    r1 = r1
    r2 = r2
    r3 = r3
    ann = ann
    ben = ben
    ordinary = ordinary
    c1 = c1
    cement = cement
    acme = acme
    worker = worker
    none = none
    cy = cy
    n1 = n1
    n2 = n2
    n3 = n3
    staff1 = staff1
    unset = unset
    cust1 = cust1
    cust2 = cust2
    amina = amina
    brian = brian
    car1 = car1
    car2 = car2
    uba = uba
    un1 = un1
    un1s = un1s
    service1 = service1
    service2 = service2
    wash = wash
    washCaps = washCaps
    waxing = waxing
    absent = absent
    phone1 = phone1
    id1 = id1
    id1s = id1s
    handset = handset
    Cash = cash
    Mobile <- Nobody
    Bank1 = bank1
    Extra <- Nobody
    RequestIds <- Requests
    None = none
    Amounts = {1}
    Counts = {0}
    MaxEntries = 4
    MaxRecs = 0
    MaxDay = 2
    Categories = {c1}
    BuiltIn <- Nobody
    ExpenseAmounts = {1, 2}
    MaxExpenses = 2
    MaxRecurring = 1
    MaxDue = 1
    Items = {cement}
    Suppliers = {acme}
    Quantities = {1, 2}
    UnitCosts = {0, 1}
    ReorderLevels = {0, 1}
    MaxMovements = 3
    MaxPurchases = 1
    Staff = {worker}
    AllowanceOf <- OneAllowance
    RequireClockOut = TRUE
    ApprovalRequired = FALSE
    LateDeductions = {1}
    MaxAllowances = 2
    Slots <- ThreeSlots
    Basics = {2}
    Bonuses = {2}
    CapPercent = 50
    Losses = {2}
    Instalments = {1}
    MaxPayrolls = 2
    MaxEarnings = 1
    MaxIncidents = 1
    MaxDeductions = 2
    MaxPayDocuments = 3
    Departments <- Desks
    HiredFor = "monthly"
    Capital = 3
    Holders = {ann, ben}
    Classes = {ordinary}
    Policies <- AnyApproval
    ShareCounts = {1}
    ShareValues = {1}
    PaidInto <- Till
    MaxShareTxns = 2
    MaxContributions = 1
    DividendsOf <- Whole
    DividendAmounts = {1}
    MaxDividends = 1
    MaxAllocations = 2
    People = {ann, ben, cy}
    Numbers = {n1, n2, n3}
    StaffIds = {staff1}
    Founders <- Administrators
    FirstNumber <- TheirNumbers
    Roles = {"manager", "worker"}
    NewRoles = {"worker"}
    Tried = {n1}
    Clerks = {ann}
    Grantable <- Windows
    Unset = unset
    MaxFailures = 2
    ThrottleWindow = 1
    WarnAhead = 1
    MaxCalls = 2
    MaxCutOffs = 1
    MaxGrants = 2
    MaxClock = 2
    Customers = {cust1, cust2}
    Cars = {car1, car2}
    Services = {service1, service2}
    CustomerNames = {amina, brian}
    Phones = {n1}
    Plates <- PlatesSeen
    PlateKey <- PlateAsKey
    ServiceNames <- NamesSeen
    NameKey <- NameAsKey
    CopyLimit = 200
    Absent = absent
    OwnerPhones = {phone1}
    Identifications <- IdsSeen
    IdKey <- IdAsKey
    Devices = {handset}
    Notified <- Told
    MaxNotifiers = 2
    MaxLost = 1
CHECK_DEADLOCK FALSE
INVARIANTS
    DocumentsMatchLedger
    RecoveriesAddUp
    BookedOnce
    OwnershipHistoryHolds
    ReportsAddUp
