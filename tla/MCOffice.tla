------------------------------- MODULE MCOffice -------------------------------
EXTENDS Office

CONSTANTS cash, bank1, r1, r2, r3, c1, cement, acme, worker, ann, ben, ordinary, none,
          cy, n1, n2, n3, staff1, unset,
          cust1, cust2, amina, brian, car1, car2, uba, un1, un1s,
          service1, service2, wash, washCaps, waxing, absent,
          phone1, id1, id1s, handset

Nobody == {}
Requests == {r1, r2, r3}
OneAllowance == [w \in {worker} |-> 2]
ThreeSlots == {<<"monthly", 1>>, <<"weekly", 1>>, <<"monthly", 2>>}
Till == {cash}
Whole == {none}
AnyApproval == {[requireApproval |-> approval, allowUnpaid |-> TRUE, allowPartial |-> TRUE] :
                   approval \in BOOLEAN}

Administrators == {ann, ben}
TheirNumbers == [u \in Administrators |-> IF u = ann THEN n1 ELSE n2]
Windows == {[from |-> 0, until |-> 1], [from |-> 1, until |-> 2]}

Desks == {{"spending"}, {"stock"},
          {"payroll", "allowances"}, {"payroll", "losses"}, {"payroll", "deductions"},
          {"payroll", "salaries", "earnings"},
          {"ownership", "shares", "register", "capital"},
          {"ownership", "shares", "corrections", "capital", "calendar"},
          {"ownership", "shares", "dividends", "calendar"}, {"ownership", "shares", "dividends", "amending"},
          {"files"}, {"takings", "calendar"}}

PeopleDesks == {{"people", "identity", "administration"}, {"people", "identity", "crashes"},
                {"people", "passwords", "crashes"}, {"people", "appointments", "temporary"},
                {"people", "notices"}, {"registry"}, {"catalogue"}}

\* One plate and one name of a service are written in two ways.
PlatesSeen == {uba, un1, un1s}
PlateAsKey == [p \in PlatesSeen |-> IF p = un1s THEN un1 ELSE p]
NamesSeen == {wash, washCaps, waxing}
NameAsKey == [n \in NamesSeen |-> IF n = washCaps THEN wash ELSE n]

\* So is one identification.
IdsSeen == {id1, id1s}
IdAsKey == [id \in IdsSeen |-> id1]

\* What ben is told.
Told == {<<ben, "workOrderAssigned">>, <<ben, "accountDeactivated">>}
=============================================================================
