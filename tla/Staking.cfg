SPECIFICATION FairSpec
CONSTANTS
    alice = alice
    bob = bob
    short = short
    long = long
    Null = Null
    Users = {alice, bob}
    Outsiders = {}
    Nfts = {tenant}
    StakeIds = {k1, k2}
    Calls = {c1, c2}
    Tiers = {short}
    DemoMode = FALSE
    MaxTime = 2
    Days <- MCDays
    TicketsOf <- MCTicketsOf
INVARIANTS
    TypeOK
    OneActiveLock
    RewardsAreEarned
    WithdrawnIsPaid
    VaultInv
PROPERTIES
    ImplementsVault
    MaturedLockIsReleased
CHECK_DEADLOCK FALSE
