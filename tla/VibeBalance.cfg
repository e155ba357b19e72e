SPECIFICATION ContractSpec
CONSTANTS
    Contract = contract
    Admins = {contract, other}
    Users = {alice, bob}
    MaxU64 = 8
    Million = 3
    DefaultPrice = 2
    InitialCoins = 4
    Amounts = {1, 3}
    Prices = {4}
    TokenAmounts = {1, 2, 4}
    MaxBatch = 2
INVARIANTS
    BalanceIsLedger
    StoresSound
    DepositNeverOverflows
    BatchChargesEachAlone
