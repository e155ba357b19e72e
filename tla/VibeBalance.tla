---------------------------- MODULE VibeBalance ----------------------------
(***************************************************************************)
(* The Move contract contracts/vibe-balance/sources/vibe_balance.move: the *)
(* prepaid balances LumioVibe charges LLM usage against.  One action per   *)
(* entry function; a call that aborts changes nothing, so every assert!,   *)
(* every failing coin::withdraw and every u64 overflow is a guard.         *)
(*                                                                         *)
(* A table without an entry for an address reads as 0 in every function of *)
(* the contract, so `balances' is a total function with default 0.         *)
(***************************************************************************)
EXTENDS Integers, Sequences, FiniteSets, Functions

CONSTANTS
    Admins,         \* accounts that may publish a BalanceStore of their own
    Contract,       \* @vibe_balance, the account deposits go to
    Users,          \* addresses that deposit and are charged
    MaxU64,         \* largest u64 (2^64 - 1 on chain, small in the models)
    Million,        \* tokens per price unit (1_000_000 on chain)
    DefaultPrice,   \* 10_000 on chain
    InitialCoins,   \* LumioCoin every user starts with
    Amounts,        \* bound: amounts users deposit
    Prices,         \* bound: prices an admin sets
    TokenAmounts,   \* bound: token amounts of a deduction
    MaxBatch        \* bound: longest vector argument

U64 == 0..MaxU64

ASSUME ContractAssumption == Contract \in Admins
ASSUME U64Assumption ==
    /\ MaxU64 \in Nat
    /\ Million \in Nat \ {0}
    /\ DefaultPrice \in U64
    /\ InitialCoins \in U64
    /\ Amounts \subseteq U64
    /\ Prices \subseteq U64
    /\ TokenAmounts \subseteq U64
    /\ MaxBatch \in Nat
\* All the coins in existence fit in a u64, as the coin module guarantees.
ASSUME SupplyAssumption ==
    IsFiniteSet(Users) /\ Cardinality(Users) * InitialCoins \in U64

VARIABLES
    stores,         \* accounts that hold a BalanceStore resource
    balances,       \* balances[a][u]: BalanceStore.balances of account a
    whitelist,      \* whitelist[a]: keys of BalanceStore.whitelist
    tokenPrice,     \* tokenPrice[a]: BalanceStore.token_price_in_coins
    treasury,       \* treasury[a]: value of BalanceStore.treasury
    wallet,         \* wallet[u]: LumioCoin outside the contract
    paid,           \* paid[a][u]: sum of DepositEvent.amount (history)
    taken           \* taken[a][u]: sum of TokensDeductedEvent.coins_deducted

contractVars == <<stores, balances, whitelist, tokenPrice, treasury, wallet, paid, taken>>

\* Vector arguments of the batch functions.
Vectors(S) == UNION {[1..n -> S] : n \in 0..MaxBatch}

CoinsFor(tokens, price) == (tokens * price) \div Million

ContractInit ==
    /\ stores = {}
    /\ balances = [a \in Admins |-> [u \in Users |-> 0]]
    /\ whitelist = [a \in Admins |-> {}]
    /\ tokenPrice = [a \in Admins |-> DefaultPrice]
    /\ treasury = [a \in Admins |-> 0]
    /\ wallet = [u \in Users |-> InitialCoins]
    /\ paid = [a \in Admins |-> [u \in Users |-> 0]]
    /\ taken = [a \in Admins |-> [u \in Users |-> 0]]

Initialize(admin) ==
    /\ admin \notin stores
    /\ stores' = stores \cup {admin}
    /\ balances' = [balances EXCEPT ![admin] = [u \in Users |-> 0]]
    /\ whitelist' = [whitelist EXCEPT ![admin] = {}]
    /\ tokenPrice' = [tokenPrice EXCEPT ![admin] = DefaultPrice]
    /\ treasury' = [treasury EXCEPT ![admin] = 0]
    /\ UNCHANGED <<wallet, paid, taken>>

AddToWhitelist(admin, user) ==
    /\ admin \in stores
    /\ user \notin whitelist[admin]
    /\ whitelist' = [whitelist EXCEPT ![admin] = @ \cup {user}]
    /\ UNCHANGED <<stores, balances, tokenPrice, treasury, wallet, paid, taken>>

RemoveFromWhitelist(admin, user) ==
    /\ admin \in stores
    /\ user \in whitelist[admin]
    /\ whitelist' = [whitelist EXCEPT ![admin] = @ \ {user}]
    /\ UNCHANGED <<stores, balances, tokenPrice, treasury, wallet, paid, taken>>

\* The batch forms skip the users already in (or not in) the table, so only
\* the set of users in the vector matters.
BatchAddToWhitelist(admin, users) ==
    /\ admin \in stores
    /\ whitelist' = [whitelist EXCEPT ![admin] = @ \cup users]
    /\ UNCHANGED <<stores, balances, tokenPrice, treasury, wallet, paid, taken>>

BatchRemoveFromWhitelist(admin, users) ==
    /\ admin \in stores
    /\ whitelist' = [whitelist EXCEPT ![admin] = @ \ users]
    /\ UNCHANGED <<stores, balances, tokenPrice, treasury, wallet, paid, taken>>

\* Mutant: the coins are credited but never merged into the treasury.
MutDepositUnmerged(user, amount) ==
    /\ Contract \in stores
    /\ user \in whitelist[Contract]
    /\ amount <= wallet[user]
    /\ wallet' = [wallet EXCEPT ![user] = @ - amount]
    /\ balances' = [balances EXCEPT ![Contract][user] = @ + amount]
    /\ paid' = [paid EXCEPT ![Contract][user] = @ + amount]
    /\ UNCHANGED <<stores, whitelist, tokenPrice, treasury, taken>>

\* Mutant: the coins are not taken from the user.
MutDepositFree(user, amount) ==
    /\ Contract \in stores
    /\ user \in whitelist[Contract]
    /\ amount <= wallet[user]
    /\ treasury[Contract] + amount \in U64
    /\ treasury' = [treasury EXCEPT ![Contract] = @ + amount]
    /\ balances' = [balances EXCEPT ![Contract][user] = @ + amount]
    /\ paid' = [paid EXCEPT ![Contract][user] = @ + amount]
    /\ UNCHANGED <<stores, whitelist, tokenPrice, wallet, taken>>

\* Mutant: the deposit goes to any store that whitelists the user.
MutDepositAnywhere(user, amount) ==
    \E a \in stores :
        /\ user \in whitelist[a]
        /\ amount <= wallet[user]
        /\ wallet' = [wallet EXCEPT ![user] = @ - amount]
        /\ treasury' = [treasury EXCEPT ![a] = @ + amount]
        /\ balances' = [balances EXCEPT ![a][user] = @ + amount]
        /\ paid' = [paid EXCEPT ![a][user] = @ + amount]
        /\ UNCHANGED <<stores, whitelist, tokenPrice, taken>>

Deposit(user, amount) ==
    /\ Contract \in stores
    /\ user \in whitelist[Contract]
    /\ amount <= wallet[user]                       \* coin::withdraw
    /\ treasury[Contract] + amount \in U64          \* coin::merge
    /\ balances[Contract][user] + amount \in U64
    /\ wallet' = [wallet EXCEPT ![user] = @ - amount]
    /\ treasury' = [treasury EXCEPT ![Contract] = @ + amount]
    /\ balances' = [balances EXCEPT ![Contract][user] = @ + amount]
    /\ paid' = [paid EXCEPT ![Contract][user] = @ + amount]
    /\ UNCHANGED <<stores, whitelist, tokenPrice, taken>>

SetTokenPrice(admin, price) ==
    /\ admin \in stores
    /\ tokenPrice' = [tokenPrice EXCEPT ![admin] = price]
    /\ UNCHANGED <<stores, balances, whitelist, treasury, wallet, paid, taken>>

-----------------------------------------------------------------------------
(* batch_deduct.  `Deduct' is one iteration of its while loop on the loop's *)
(* state: the balance table, what each user was charged, the two running    *)
(* totals, and whether the transaction is still alive (an arithmetic        *)
(* overflow aborts all of it).                                              *)

Deducted(s, user, tokens, coins) ==
    [balances |-> [s.balances EXCEPT ![user] = @ - coins],
     taken |-> [s.taken EXCEPT ![user] = @ + coins],
     totalTokens |-> s.totalTokens + tokens,
     totalCoins |-> s.totalCoins + coins,
     alive |-> s.totalTokens + tokens \in U64 /\ s.totalCoins + coins \in U64]

\* Mutant: the balance is not compared with the charge.
MutDeductUnchecked(s, user, tokens, price) ==
    IF ~s.alive \/ tokens * price \notin U64
    THEN [s EXCEPT !.alive = FALSE]
    ELSE Deducted(s, user, tokens, CoinsFor(tokens, price))

\* Mutant: a user who cannot pay in full loses what is left, and the event
\* reports the full charge.
MutDeductClamped(s, user, tokens, price) ==
    LET coins == CoinsFor(tokens, price)
        rest == IF s.balances[user] >= coins THEN s.balances[user] - coins ELSE 0
    IN  IF ~s.alive \/ tokens * price \notin U64
        THEN [s EXCEPT !.alive = FALSE]
        ELSE [Deducted(s, user, tokens, coins) EXCEPT !.balances[user] = rest]

Deduct(s, user, tokens, price) ==
    LET coins == CoinsFor(tokens, price)
    IN  IF ~s.alive \/ tokens * price \notin U64
        THEN [s EXCEPT !.alive = FALSE]
        ELSE IF coins > 0 /\ s.balances[user] >= coins
             THEN Deducted(s, user, tokens, coins)
             ELSE s

DeductStart(bal, tak) ==
    [balances |-> bal, taken |-> tak, totalTokens |-> 0, totalCoins |-> 0, alive |-> TRUE]

\* loop[i]: the state of the while loop after i iterations.
DeductLoop(bal, tak, price, users, tokens) ==
    LET loop[i \in 0..Len(users)] ==
            IF i = 0 THEN DeductStart(bal, tak)
                     ELSE Deduct(loop[i - 1], users[i], tokens[i], price)
    IN  loop

DeductResult(bal, tak, price, users, tokens) ==
    DeductLoop(bal, tak, price, users, tokens)[Len(users)]

BatchDeduct(admin, users, tokens) ==
    /\ admin \in stores
    /\ Len(users) = Len(tokens)
    /\ LET end == DeductResult(balances[admin], taken[admin], tokenPrice[admin], users, tokens)
       IN  /\ end.alive
           /\ balances' = [balances EXCEPT ![admin] = end.balances]
           /\ taken' = [taken EXCEPT ![admin] = end.taken]
    /\ UNCHANGED <<stores, whitelist, tokenPrice, treasury, wallet, paid>>

-----------------------------------------------------------------------------
ContractNext ==
    \/ \E admin \in Admins :
        \/ Initialize(admin)
        \/ \E user \in Users : AddToWhitelist(admin, user) \/ RemoveFromWhitelist(admin, user)
        \/ \E users \in SUBSET Users :
            BatchAddToWhitelist(admin, users) \/ BatchRemoveFromWhitelist(admin, users)
        \/ \E price \in Prices : SetTokenPrice(admin, price)
        \/ \E users \in Vectors(Users), tokens \in Vectors(TokenAmounts) :
            BatchDeduct(admin, users, tokens)
    \/ \E user \in Users, amount \in Amounts : Deposit(user, amount)

ContractSpec == ContractInit /\ [][ContractNext]_contractVars

\* The #[view] functions, which read the store of @vibe_balance only.
GetBalance(user) == IF Contract \in stores THEN balances[Contract][user] ELSE 0
GetTokenPrice == IF Contract \in stores THEN tokenPrice[Contract] ELSE DefaultPrice

-----------------------------------------------------------------------------
SumOver(f) == FoldFunction(+, 0, f)

\* Every stored number is a u64; the histories are unbounded.
ContractTypeOK ==
    /\ stores \subseteq Admins
    /\ balances \in [Admins -> [Users -> U64]]
    /\ whitelist \in [Admins -> SUBSET Users]
    /\ tokenPrice \in [Admins -> U64]
    /\ treasury \in [Admins -> U64]
    /\ wallet \in [Users -> U64]
    /\ paid \in [Admins -> [Users -> Nat]]
    /\ taken \in [Admins -> [Users -> Nat]]

\* A user's balance is exactly what was deposited minus what the deduction
\* events report, whatever batches (with repeated users, aborted half way by
\* an overflow, with entries skipped for lack of funds) were run: batch_deduct
\* loses no coin and charges none twice.
BalanceIsLedger ==
    \A a \in Admins, u \in Users : balances[a][u] + taken[a][u] = paid[a][u]

\* The treasury of a store holds exactly the balances it owes its users plus
\* what it earned by deductions.
TreasurySolvent ==
    \A a \in Admins : treasury[a] = SumOver(balances[a]) + SumOver(taken[a])

\* Deposits only reach @vibe_balance: a store that another signer publishes
\* stays worthless, and nobody can be charged through it.
ForeignStoresEmpty ==
    \A a \in Admins \ {Contract} :
        treasury[a] = 0 /\ \A u \in Users : balances[a][u] = 0 /\ taken[a][u] = 0

\* The stores are sound: their numbers are u64s, each treasury holds what its store owes
\* and earned, and no store but the contract's gets anything.
StoresSound == ContractTypeOK /\ TreasurySolvent /\ ForeignStoresEmpty

\* As the coins in existence fit in a u64, a deposit a whitelisted user can pay
\* for never aborts by overflow, neither in the treasury nor in the balance.
DepositNeverOverflows ==
    \A u \in Users :
        /\ treasury[Contract] + wallet[u] \in U64
        /\ balances[Contract][u] + wallet[u] \in U64

\* The reference for batch_deduct on a batch without repeated users, as the
\* BalanceManager sends it: every user is charged on their own, in full or not
\* at all, whatever the order of the vectors.
ChargedAlone(bal, price, users, tokens) ==
    [u \in Users |->
        IF \E i \in DOMAIN users : users[i] = u
        THEN LET i == CHOOSE j \in DOMAIN users : users[j] = u
                 coins == CoinsFor(tokens[i], price)
             IN  IF coins <= bal[u] THEN bal[u] - coins ELSE bal[u]
        ELSE bal[u]]

BatchChargesEachAlone ==
    \A users \in Vectors(Users), tokens \in Vectors(TokenAmounts) :
        LET end == DeductResult(balances[Contract], taken[Contract],
                                tokenPrice[Contract], users, tokens)
        IN  (IsInjective(users) /\ DOMAIN users = DOMAIN tokens /\ end.alive)
            => end.balances = ChargedAlone(balances[Contract], tokenPrice[Contract], users, tokens)
=============================================================================
