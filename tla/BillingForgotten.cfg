SPECIFICATION BillingSpec
CONSTANTS
    alice = alice
    bob = bob
    s1 = s1
    s2 = s2
    r1 = r1
    Contract = contract
    Admins = {contract}
    Users = {alice}
    MaxU64 = 8
    Million = 2
    DefaultPrice = 2
    InitialCoins = 3
    Amounts = {3}
    Prices = {3}
    TokenAmounts = {}
    MaxBatch = 2
    Sessions = {s1, s2}
    Owner <- OwnerSame
    Requests = {r1}
    CallTokens = {1, 2}
    MaxUsed = 3
    PriceChanges = 1
    MaxSeq = 2
    Faults = {}
INVARIANT NoUsageForgotten
