SPECIFICATION JobsSpec
CONSTANTS
    car = car
    wash = wash
    polish = polish
    ann = ann
    ben = ben
    none = none
    Vehicles = {car}
    Services = {wash, polish}
    Workers = {ann, ben}
    None = none
    Prices = {1, 2}
    MaxIntakes = 1
    MaxOrders = 3
    MaxInvoices = 2
    MaxHistory = 2
SYMMETRY Interchangeable
CHECK_DEADLOCK FALSE
INVARIANTS
    JobMirrorsOrders
    WorkIsPricedOnce
    InvoicedWorkFrozen
    OneAssignee
PROPERTIES
    WorkIsKept
