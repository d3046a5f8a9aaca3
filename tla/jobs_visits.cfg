SPECIFICATION JobsSpec
CONSTANTS
    car = car
    wash = wash
    polish = polish
    ann = ann
    ben = ben
    none = none
    Vehicles = {car}
    Services = {wash, polish}
    Workers = {ann, ben}
    None = none
    Prices = {1}
    MaxIntakes = 2
    MaxOrders = 3
    MaxInvoices = 1
    MaxHistory = 1
SYMMETRY Interchangeable
CHECK_DEADLOCK FALSE
INVARIANTS
    OneOpenIntake
