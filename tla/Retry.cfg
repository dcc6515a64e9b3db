SPECIFICATION FairSpec

CONSTANTS
    r1 = r1
    r2 = r2
    r3 = r3
    ann = ann
    bob = bob
    keyA = keyA
    keyB = keyB
    keyC = keyC
    Requests = {r1, r2}
    Buyers = {ann, bob}
    Owner <- OneBuyer
    Refs = {keyA, keyB, keyC}
    Ref <- FreshKeys
    Deliveries = {d1}
    Checker = checker
    Cleaner = cleaner
    CheckEnabled = FALSE
    CleanupEnabled = TRUE
    MaxCrashes = 0

INVARIANTS
    NoOrphans

PROPERTIES
    EveryoneFinishes
