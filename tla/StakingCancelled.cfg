SPECIFICATION Spec
CONSTANTS
    alice = alice
    bob = bob
    short = short
    long = long
    Null = Null
    Users = {alice, bob}
    Outsiders = {}
    Nfts = {tenant}
    StakeIds = {k1, k2}
    Calls = {c1, c2}
    Tiers = {short, long}
    DemoMode = FALSE
    MaxTime = 3
    Days <- MCDays
    TicketsOf <- MCTicketsOf
SYMMETRY KeySymmetry
INVARIANTS
    CancelledIsUnpaid
CHECK_DEADLOCK FALSE
