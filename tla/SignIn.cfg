SPECIFICATION Spec
CONSTANTS
    alice = alice
    bob = bob
    c1 = c1
    c2 = c2
    Null = Null
    Wallets = {alice, bob}
    Calls = {c1, c2}
    NonceTtl = 1
    MaxNonce = 3
    MaxTime = 2
SYMMETRY WalletSymmetry
INVARIANTS
    TypeOK
    ReplayRefused
    LoginsInTime
    ExpiryOfNonce
PROPERTY
    NonceLostWithCause
CHECK_DEADLOCK FALSE
