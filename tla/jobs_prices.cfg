SPECIFICATION JobsSpec
CONSTANTS
    car = car
    wash = wash
    polish = polish
    ann = ann
    ben = ben
    none = none
    Vehicles = {car}
    Services = {wash, polish}
    Workers = {ann, ben}
    None = none
    Prices = {1, 2}
    MaxIntakes = 1
    MaxOrders = 2
    MaxInvoices = 1
    MaxHistory = 1
SYMMETRY Interchangeable
CHECK_DEADLOCK FALSE
PROPERTIES
    PricesKept
