-------------------------------- MODULE Registry --------------------------------
(***************************************************************************)
(* functions/src/operations.js: customers, vehicles and the catalogue of   *)
(* services.  What must be unique (a customer's phone number, a vehicle's  *)
(* plate, a service's name) is reserved in unique_keys, a document beside  *)
(* the record; a vehicle copies its customer's name, a customer counts     *)
(* their vehicles.  Every callable is one transaction.                     *)
(*                                                                         *)
(* A plate, or a name of a service, is written in several ways that have   *)
(* one key.  Prices are in Jobs; texts, numbers of customers (which never  *)
(* change) and the plates a vehicle had before are left out.               *)
(***************************************************************************)
EXTENDS Integers, FiniteSets

CONSTANTS
    Customers, Cars, Services,  \* document ids
    CustomerNames, Phones,
    Plates, PlateKey,           \* plates as displayed, and parsePlate(plate).key
    ServiceNames, NameKey,      \* names as written, and nameKey(name)
    CopyLimit,                  \* how many vehicles a change of name reaches: limit(200)
    Absent                      \* null

PlateKeys == {PlateKey[p] : p \in Plates}
NameKeys == {NameKey[n] : n \in ServiceNames}

ASSUME RegistryAssumption ==
    /\ IsFiniteSet(Cars) /\ CopyLimit \in Nat
    /\ PlateKey \in [Plates -> PlateKeys] /\ NameKey \in [ServiceNames -> NameKeys]
    /\ Absent \notin Customers \cup Cars \cup Services \cup CustomerNames \cup Phones
    /\ Absent \notin Plates \cup PlateKeys \cup ServiceNames \cup NameKeys

VARIABLES
    customers, vehicles, catalogue,    \* catalogue: services
    phoneKeys, plateKeys, nameKeys,    \* unique_keys, by kind: whose document it names
    outgrown                           \* history: customers whose new name missed a vehicle

registryVars == <<customers, vehicles, catalogue, phoneKeys, plateKeys, nameKeys, outgrown>>

NoCustomer == [exists |-> FALSE, name |-> Absent, phone |-> Absent, active |-> FALSE,
               vehicleCount |-> 0]
NoVehicle == [exists |-> FALSE, plate |-> Absent, active |-> FALSE, customer |-> Absent,
              customerName |-> Absent]
NoService == [exists |-> FALSE, name |-> Absent, active |-> FALSE]

-----------------------------------------------------------------------------
(* Reservations *)

Free(keys, key) == keys[key] = Absent

\* Mutant: the old key is never given up.
ReservedToo(keys, old, new, id) == [key \in DOMAIN keys |-> IF key = new THEN id ELSE keys[key]]

\* The reservation moves: the old key is deleted, the new one set.  Absent is no key.
Reserved(keys, old, new, id) ==
    [key \in DOMAIN keys |-> IF key = new THEN id ELSE IF key = old THEN Absent ELSE keys[key]]

KeyOfPlate(plate) == IF plate = Absent THEN Absent ELSE PlateKey[plate]
KeyOfName(name) == IF name = Absent THEN Absent ELSE NameKey[name]

-----------------------------------------------------------------------------
(* Customers *)

\* prepareCustomerCreate; a phone number is optional.
MayRegister(c, phone) ==
    /\ ~customers[c].exists
    /\ phone # Absent => Free(phoneKeys, phone)

WithCustomer(c, name, phone) ==
    [customers EXCEPT ![c] = [exists |-> TRUE, name |-> name, phone |-> phone, active |-> TRUE,
                              vehicleCount |-> 0]]

CreateCustomer(c, name, phone) ==
    /\ MayRegister(c, phone)
    /\ customers' = WithCustomer(c, name, phone)
    /\ phoneKeys' = Reserved(phoneKeys, Absent, phone, c)
    /\ UNCHANGED <<vehicles, catalogue, plateKeys, nameKeys, outgrown>>

VehiclesOf(c) == {v \in Cars : vehicles[v].customer = c}

\* A new name is copied to the customer's vehicles, as many as one query returns.
NameCopied(c, name, reached) ==
    [v \in Cars |-> IF v \in reached THEN [vehicles[v] EXCEPT !.customerName = name]
                    ELSE vehicles[v]]

WithinReach(c) == Cardinality(VehiclesOf(c)) <= CopyLimit

Reach(c) ==
    {some \in SUBSET VehiclesOf(c) :
        IF WithinReach(c) THEN some = VehiclesOf(c) ELSE Cardinality(some) = CopyLimit}

\* The next change of name that reaches all vehicles of a customer makes up for the last.
OutgrownBy(c) == IF WithinReach(c) THEN outgrown \ {c} ELSE outgrown \cup {c}

UpdateCustomer(c, name, phone, active) ==
    LET before == customers[c]
        phoneChanged == phone # before.phone
    IN  /\ before.exists
        /\ name # before.name \/ phoneChanged \/ active # before.active
        /\ phoneChanged /\ phone # Absent => phoneKeys[phone] \in {Absent, c}
        /\ customers' = [customers EXCEPT ![c].name = name, ![c].phone = phone,
                                          ![c].active = active]
        /\ phoneKeys' = IF phoneChanged THEN Reserved(phoneKeys, before.phone, phone, c)
                        ELSE phoneKeys
        /\ IF name = before.name THEN UNCHANGED <<vehicles, outgrown>>
           ELSE /\ \E reached \in Reach(c) : vehicles' = NameCopied(c, name, reached)
                /\ outgrown' = OutgrownBy(c)
        /\ UNCHANGED <<catalogue, plateKeys, nameKeys>>

-----------------------------------------------------------------------------
(* Vehicles *)

PlateFree(v, plate) ==
    KeyOfPlate(plate) # KeyOfPlate(vehicles[v].plate) => Free(plateKeys, KeyOfPlate(plate))

\* readLinkableCustomer, asked when the vehicle changes hands.
Linkable(v, owner, theirs) ==
    owner \notin {Absent, vehicles[v].customer} => theirs[owner].exists /\ theirs[owner].active

\* vehicleCount leaves the old customer and reaches the new one.
CountMoved(theirs, old, new) ==
    [c \in Customers |-> [theirs[c] EXCEPT !.vehicleCount =
        @ - (IF c = old THEN 1 ELSE 0) + (IF c = new THEN 1 ELSE 0)]]

\* The writes on a vehicle; theirs are the customers, the one made with it included.
SaveVehicle(v, plate, active, owner, theirs) ==
    LET before == vehicles[v]
        name == IF owner = before.customer THEN before.customerName
                ELSE IF owner = Absent THEN Absent ELSE theirs[owner].name
    IN  /\ PlateFree(v, plate)
        /\ Linkable(v, owner, theirs)
        /\ vehicles' = [vehicles EXCEPT ![v] =
               [exists |-> TRUE, plate |-> plate, active |-> active, customer |-> owner,
                customerName |-> name]]
        /\ customers' = CountMoved(theirs, before.customer, owner)
        /\ plateKeys' = IF KeyOfPlate(plate) = KeyOfPlate(before.plate) THEN plateKeys
                        ELSE Reserved(plateKeys, KeyOfPlate(before.plate), KeyOfPlate(plate), v)
        /\ UNCHANGED <<catalogue, nameKeys, outgrown>>

CreateVehicle(v, plate, owner) ==
    /\ ~vehicles[v].exists
    /\ SaveVehicle(v, plate, TRUE, owner, customers)
    /\ UNCHANGED phoneKeys

UpdateVehicle(v, plate, active, owner) ==
    /\ vehicles[v].exists
    /\ \/ plate # vehicles[v].plate
       \/ active # vehicles[v].active
       \/ owner # vehicles[v].customer
    /\ SaveVehicle(v, plate, active, owner, customers)
    /\ UNCHANGED phoneKeys

\* Either, with data.newCustomer: the customer is made in the same transaction.
SaveVehicleForNew(v, plate, active, c, name, phone) ==
    /\ ~vehicles[v].exists => active
    /\ MayRegister(c, phone)
    /\ SaveVehicle(v, plate, active, c, WithCustomer(c, name, phone))
    /\ phoneKeys' = Reserved(phoneKeys, Absent, phone, c)

-----------------------------------------------------------------------------
(* The catalogue *)

SaveService(s, name, active) ==
    LET before == KeyOfName(catalogue[s].name)
        renamed == KeyOfName(name) # before
    IN  /\ renamed => Free(nameKeys, KeyOfName(name))
        /\ catalogue' = [catalogue EXCEPT ![s] = [exists |-> TRUE, name |-> name, active |-> active]]
        /\ nameKeys' = IF renamed THEN Reserved(nameKeys, before, KeyOfName(name), s) ELSE nameKeys
        /\ UNCHANGED <<customers, vehicles, phoneKeys, plateKeys, outgrown>>

CreateService(s, name, active) ==
    /\ ~catalogue[s].exists
    /\ SaveService(s, name, active)

UpdateService(s, name, active) ==
    /\ catalogue[s].exists
    /\ name # catalogue[s].name \/ active # catalogue[s].active
    /\ SaveService(s, name, active)

-----------------------------------------------------------------------------
RegistryInit ==
    /\ customers = [c \in Customers |-> NoCustomer]
    /\ vehicles = [v \in Cars |-> NoVehicle]
    /\ catalogue = [s \in Services |-> NoService]
    /\ phoneKeys = [p \in Phones |-> Absent]
    /\ plateKeys = [p \in PlateKeys |-> Absent]
    /\ nameKeys = [n \in NameKeys |-> Absent]
    /\ outgrown = {}

ReceptionStep ==
    \/ \E c \in Customers, name \in CustomerNames, phone \in Phones \cup {Absent} :
          \/ CreateCustomer(c, name, phone)
          \/ \E active \in BOOLEAN : UpdateCustomer(c, name, phone, active)
          \/ \E v \in Cars, plate \in Plates, active \in BOOLEAN :
                SaveVehicleForNew(v, plate, active, c, name, phone)
    \/ \E v \in Cars, plate \in Plates, owner \in Customers \cup {Absent} :
          \/ CreateVehicle(v, plate, owner)
          \/ \E active \in BOOLEAN : UpdateVehicle(v, plate, active, owner)

CatalogueStep ==
    \E s \in Services, name \in ServiceNames, active \in BOOLEAN :
        CreateService(s, name, active) \/ UpdateService(s, name, active)

RegistrySpec == RegistryInit /\ [][ReceptionStep \/ CatalogueStep]_registryVars

-----------------------------------------------------------------------------
(* Properties *)

Customer == [exists: BOOLEAN, name: CustomerNames \cup {Absent}, phone: Phones \cup {Absent},
             active: BOOLEAN, vehicleCount: Int]
Vehicle == [exists: BOOLEAN, plate: Plates \cup {Absent}, active: BOOLEAN,
            customer: Customers \cup {Absent}, customerName: CustomerNames \cup {Absent}]
Service == [exists: BOOLEAN, name: ServiceNames \cup {Absent}, active: BOOLEAN]

\* Every document has the shape the code writes; what does not exist has no key.
RegistryTypeOK ==
    /\ customers \in [Customers -> Customer]
    /\ vehicles \in [Cars -> Vehicle]
    /\ catalogue \in [Services -> Service]
    /\ phoneKeys \in [Phones -> Customers \cup {Absent}]
    /\ plateKeys \in [PlateKeys -> Cars \cup {Absent}]
    /\ nameKeys \in [NameKeys -> Services \cup {Absent}]
    /\ outgrown \in SUBSET Customers
    /\ \A c \in Customers : ~customers[c].exists => customers[c] = NoCustomer
    /\ \A v \in Cars : vehicles[v].exists <=> vehicles[v].plate # Absent
    /\ \A s \in Services : catalogue[s].exists <=> catalogue[s].name # Absent

\* operations.js:12-14: a plate belongs to at most one vehicle, a phone number to one
\* customer, a name to one service; and a key nobody uses any more is free again.
KeysHold ==
    /\ \A p \in Phones, c \in Customers : phoneKeys[p] = c <=> customers[c].phone = p
    /\ \A k \in PlateKeys, v \in Cars : plateKeys[k] = v <=> KeyOfPlate(vehicles[v].plate) = k
    /\ \A k \in NameKeys, s \in Services : nameKeys[k] = s <=> KeyOfName(catalogue[s].name) = k

\* A vehicle's customer exists and counts it.  It carries their present name, unless they
\* had more vehicles than one query returns when they took that name.
CustomersFollowed ==
    /\ \A v \in Cars : LET c == vehicles[v].customer IN
           IF c = Absent THEN vehicles[v].customerName = Absent
           ELSE /\ customers[c].exists
                /\ c \notin outgrown => vehicles[v].customerName = customers[c].name
    /\ \A c \in Customers : customers[c].vehicleCount = Cardinality(VehiclesOf(c))

\* Whatever is renamed, renumbered, sold or handed back, in whatever order: records and
\* reservations agree both ways, and so do the counts between records; so do the copies,
\* for every customer whose last change of name could reach all their vehicles.
RegistryInOrder == RegistryTypeOK /\ KeysHold /\ CustomersFollowed
=============================================================================
