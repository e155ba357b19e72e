SPECIFICATION BillingSpec
CONSTANTS
    alice = alice
    bob = bob
    s1 = s1
    s2 = s2
    r1 = r1
    Contract = contract
    Admins = {contract}
    Users = {alice, bob}
    MaxU64 = 8
    Million = 1
    DefaultPrice = 1
    InitialCoins = 2
    Amounts = {2}
    Prices = {2}
    TokenAmounts = {}
    MaxBatch = 2
    Sessions = {s1, s2}
    Owner <- OwnerEach
    Requests = {r1}
    CallTokens = {1}
    MaxUsed = 2
    PriceChanges = 1
    MaxSeq = 2
    Faults = {"net_error", "seq_error", "drop", "restart"}
INVARIANTS
    NoOvercharge
    OneDeductionPending
