\* Every endpoint that changes the room, one request at a time, with a crash and failed writes.
CONSTANTS
    a1 = a1  b1 = b1  b2 = b2  c1 = c1  A = A  B = B  C = C  t1 = t1  t2 = t2  t3 = t3
    Device = {a1, b1}
    Account = {A, B}
    AccountOf <- MCAccountOf
    Creator = a1
    Package = {1, 2}
    OwnerOf <- MCOwnerOf
    FirstState = "claimed"
    Inventory <- MCInventory
    Thread = {t1}
    Id = {1, 2, 3}
    Handlers = {"bootstrap", "commit", "event", "welcome", "leave", "admin",
                "report", "replay", "revoke"}
    Faults = {"crash", "disk"}
    MaxDevicesPerAccount = 2
    MaxLog = 2
    MaxDelta = 1
    PageLimit = 1
    MaxCrashes = 1
    NoRoom = NoRoom
    None = None
SPECIFICATION Spec
INVARIANTS TypeOK 
PROPERTIES ImplementsDelivery
\* The log is full and every client has stopped.
CHECK_DEADLOCK FALSE
