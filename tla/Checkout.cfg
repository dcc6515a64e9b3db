SPECIFICATION Spec

CONSTANTS
    r1 = r1
    r2 = r2
    r3 = r3
    ann = ann
    bob = bob
    keyA = keyA
    keyB = keyB
    keyC = keyC
    Requests = {r1, r2, r3}
    Buyers = {ann, bob}
    Owner <- TwoBuyers
    Refs = {keyA, keyB, keyC}
    Ref <- OneKey
    Deliveries = {}
    Checker = checker
    Cleaner = cleaner
    CheckEnabled = FALSE
    CleanupEnabled = FALSE
    MaxCrashes = 1

INVARIANTS
    OneSale
    ShownIsRecorded
    OneOrderPerKey
