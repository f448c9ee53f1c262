SPECIFICATION Spec
CONSTANTS
    alice = alice
    bob = bob
    c1 = c1
    c2 = c2
    Null = Null
    Wallets = {alice}
    Calls = {c1, c2}
    NonceTtl = 1
    MaxNonce = 1
    MaxTime = 1
INVARIANT
    OneSignatureOneLogin
CHECK_DEADLOCK FALSE
