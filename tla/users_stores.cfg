SPECIFICATION UsersSpec
CONSTANTS
    ann = ann
    ben = ben
    cy = cy
    n1 = n1
    n2 = n2
    n3 = n3
    unset = unset
    People = {ann, ben, cy}
    Numbers = {n1, n2, n3}
    StaffIds = {}
    Founders = {ann, ben}
    FirstNumber <- TheirNumbers
    Roles = {"worker"}
    NewRoles = {"worker"}
    Tried = {}
    Clerks = {ann}
    Grantable = {}
    Unset = unset
    MaxFailures = 2
    ThrottleWindow = 1
    WarnAhead = 1
    MaxCalls = 2
    MaxCutOffs = 0
    MaxGrants = 0
    MaxClock = 0
CHECK_DEADLOCK FALSE
INVARIANT
    NumbersTogether
