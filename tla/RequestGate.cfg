SPECIFICATION FairLogSpec
CONSTANTS
    p1 = p1
    c1 = c1
    c2 = c2
    r1 = r1
    r2 = r2
    r3 = r3
    Providers = {p1}
    Contexts = {c1, c2}
    Requests = {r1, r2, r3}
    Owner <- OwnerOfThree
    Limits <- MixedLimits
    RateWindow = 2
    MaxAge = 2
    MaxHistory = 2
INVARIANT NoLostWakeup
INVARIANT NoSlotHeldByTheDead
PROPERTY FirstComeFirstServed
PROPERTY AdmissionsKeepPace
PROPERTY EveryWaiterServed
