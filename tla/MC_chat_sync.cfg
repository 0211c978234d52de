\* Devices sync in pages while others join, leave and send; the server crashes and restarts.
CONSTANTS
    a1 = a1  b1 = b1  b2 = b2  c1 = c1  A = A  B = B  C = C  t1 = t1  t2 = t2  t3 = t3
    Device = {a1, b1}
    Account = {A, B, C}
    AccountOf <- MCAccountOf
    Creator = a1
    Package = {1}
    OwnerOf <- MCOwnerOf
    FirstState = "claimed"
    Inventory <- MCInventory
    Thread = {t1, t2}
    Id = {1, 2, 3}
    Handlers = {"commit", "event", "sync"}
    Faults = {"crash"}
    MaxDevicesPerAccount = 2
    MaxLog = 3
    MaxDelta = 1
    PageLimit = 1
    MaxCrashes = 1
    NoRoom = NoRoom
    None = None
SPECIFICATION FairSpec
INVARIANTS CursorSkipsNothing
PROPERTIES CursorReachesHead
\* The log is full and every client has stopped.
CHECK_DEADLOCK FALSE
