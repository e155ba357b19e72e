--------------------------- MODULE BillingProofs ---------------------------
(* Nobody is overcharged, for any number of users, sessions, requests and    *)
(* faults, as long as no accepted submission looks like a failure and the    *)
(* interpreter does not switch threads inside add_tokens.                    *)
EXTENDS Billing, VibeBalanceProofs

-----------------------------------------------------------------------------
(* Types.                                                                    *)

TypeInv == ContractInv /\ ServerTypeOK /\ ChainTypeOK

serverVars == <<managerVars, req, session>>
ledgerVars == <<chainVars, used, charged>>

\* A step that leaves the contract alone keeps its books.
LEMMA ContractUntouched == ContractInv /\ UNCHANGED contractVars => ContractInv'
PROOF
  BY ContractNextInv

\* The deployed contract satisfies the contract's invariant.
LEMMA DeployedInv == Deployed => ContractInv
PROOF
<1> SUFFICES ASSUME Deployed PROVE ContractInv
  OBVIOUS
<1>1. 0 \in U64
  BY U64Assumption DEF U64
<1>2. ContractTypeOK
  BY <1>1, U64Assumption, ContractAssumption DEF Deployed, ContractTypeOK
<1> QED
  BY <1>2 DEF Deployed, ContractInv, BalanceIsLedger, ForeignStoresEmpty, UnpublishedEmpty

\* The initial state is well typed.
LEMMA InitTypes == BillingInit => TypeInv
PROOF
<1> SUFFICES ASSUME BillingInit PROVE TypeInv
  OBVIOUS
<1>1. ContractInv
  BY DeployedInv DEF BillingInit
<1>2. DefaultPrice \in U64
  BY U64Assumption
<1>3. ServerTypeOK
  BY <1>2 DEF BillingInit, ManagerInit, ServerTypeOK, IsDict, NoBatch, FlushOff, RequestIdle, SessionIdle
<1>4. ChainTypeOK
  BY DEF BillingInit, ChainTypeOK
<1> QED
  BY <1>1, <1>3, <1>4 DEF TypeInv

\* Steps of the requests are well typed.
LEMMA RequestTypes ==
  ASSUME TypeInv, NEW r \in Requests,
         RequestStep(r) \/ \E force \in BOOLEAN : BalanceRequest(r, force)
  PROVE  TypeInv'
PROOF
<1>1. UNCHANGED <<contractVars, session, ledgerVars>>
  BY DEF RequestStep, BalanceRequest, InitializeSkip, InitializeLock, InitializeDone,
         RefreshFetch, RefreshStore, managerVars, chainVars, ledgerVars
<1>2. ContractInv' /\ ChainTypeOK'
  BY <1>1, ContractUntouched DEF TypeInv, ChainTypeOK, ledgerVars, chainVars, IsDict
<1> SUFFICES ServerTypeOK'
  BY <1>2 DEF TypeInv
<1> USE DEF TypeInv, ServerTypeOK
<1>3. AfterInitialize(r) => req' \in [Requests -> [pc : {"idle", "initialize", "price", "fetch", "store"},
                                                    force : BOOLEAN, value : Nat]]
  BY DEF AfterInitialize, RequestIdle
<1>4. ASSUME NEW force \in BOOLEAN, BalanceRequest(r, force) PROVE ServerTypeOK'
  BY <1>4 DEF BalanceRequest, RequestIdle, managerVars, IsDict
<1>5. CASE InitializeSkip(r)
  BY <1>3, <1>5 DEF InitializeSkip, managerVars, IsDict
<1>6. CASE InitializeLock(r)
  BY <1>6 DEF InitializeLock, IsDict
<1>7. CASE InitializeDone(r)
  <2>1. price' \in U64
    BY <1>7, U64Assumption, ContractAssumption DEF InitializeDone, GetTokenPrice, ContractInv, ContractTypeOK
  <2> QED
    BY <1>3, <1>7, <2>1 DEF InitializeDone, IsDict
<1>8. CASE RefreshFetch(r)
  <2>1. PICK v \in {GetBalance(Owner[r])} \cup (IF "read_error" \in Faults THEN {0} ELSE {}) :
            req' = [req EXCEPT ![r] = [@ EXCEPT !.pc = "store", !.value = v]]
    BY <1>8 DEF RefreshFetch
  <2>2. v \in Nat
    BY U64Assumption, ContractAssumption, BillingAssumption DEF GetBalance, ContractInv, ContractTypeOK, U64
  <2> QED
    BY <1>8, <2>1, <2>2 DEF RefreshFetch, managerVars, IsDict
<1>9. CASE RefreshStore(r)
  <2>1. Owner[r] \in Users /\ req[r].value \in Nat
    BY BillingAssumption
  <2>2. IsDict(cached')
    BY <1>9, <2>1 DEF RefreshStore, IsDict
  <2> QED
    BY <1>9, <2>2 DEF RefreshStore, RequestIdle, IsDict
<1> QED
  BY <1>4, <1>5, <1>6, <1>7, <1>8, <1>9 DEF RequestStep

\* Steps of the agent controllers are well typed.
LEMMA SessionTypes ==
  ASSUME TypeInv, NEW s \in Sessions, SessionStep(s)
  PROVE  TypeInv'
PROOF
<1>1. UNCHANGED <<contractVars, req, chainVars, charged, cached, price, initialized, lock, flush>>
  BY DEF SessionStep, StartLLMCall, AddTokens, AddTokensRead, AddTokensWrite, LLMCallRaises,
         managerVars, chainVars
<1>2. ContractInv'
  BY <1>1, ContractUntouched DEF TypeInv
<1>3. Owner[s] \in Users
  BY BillingAssumption
<1>4. ASSUME NEW n \in CallTokens, Uses(s, n) PROVE used' \in [Users -> Nat]
  BY <1>3, <1>4, BillingAssumption DEF Uses, TypeInv, ChainTypeOK
<1>5. ChainTypeOK'
  <2>1. used' \in [Users -> Nat]
    BY <1>4 DEF SessionStep, StartLLMCall, AddTokens, AddTokensRead, AddTokensWrite, LLMCallRaises,
                TypeInv, ChainTypeOK
  <2> QED
    BY <1>1, <2>1 DEF TypeInv, ChainTypeOK, chainVars, IsDict
<1> DEFINE Typed == acc' \in [Users -> Nat] /\ session' \in
        [Sessions -> [pc : {"idle", "calling", "adding"}, current : Nat, tokens : Nat]]
<1>6. Typed
  <2> USE DEF TypeInv, ServerTypeOK
  <2>1. CASE StartLLMCall(s)
    BY <2>1 DEF StartLLMCall, managerVars
  <2>2. ASSUME NEW n \in CallTokens, AddTokens(s, n) PROVE Typed
    BY <1>3, <2>2, BillingAssumption DEF AddTokens, SessionIdle
  <2>3. ASSUME NEW n \in CallTokens, AddTokensRead(s, n) PROVE Typed
    BY <1>3, <2>3, BillingAssumption DEF AddTokensRead, managerVars
  <2>4. ASSUME NEW n \in CallTokens, LLMCallRaises(s, n) PROVE Typed
    BY <2>4 DEF LLMCallRaises, managerVars, SessionIdle
  <2>5. CASE AddTokensWrite(s)
    BY <1>3, <2>5 DEF AddTokensWrite, SessionIdle
  <2> QED
    BY <2>1, <2>2, <2>3, <2>4, <2>5 DEF SessionStep
<1> QED
  BY <1>1, <1>2, <1>5, <1>6 DEF TypeInv, ServerTypeOK, IsDict

\* Steps of the flush task, stop and restart are well typed.
LEMMA FlushTypes ==
  ASSUME TypeInv, FlushStep \/ Stop \/ Restart
  PROVE  TypeInv'
PROOF
<1>1. UNCHANGED <<contractVars, chainSeq, used, charged>>
  BY DEF FlushStep, FlushStart, FlushReadSequence, FlushSubmit, FlushClear, FlushKeep, Stop, Restart, chainVars
<1>2. ContractInv'
  BY <1>1, ContractUntouched DEF TypeInv
<1>3. CASE FlushStart
  <2>1. IsDict(flush'.batch)
    BY <1>3 DEF FlushStart, Due, IsDict, TypeInv, ServerTypeOK
  <2>2. ServerTypeOK'
    BY <1>3, <2>1 DEF FlushStart, TypeInv, ServerTypeOK, IsDict
  <2> QED
    BY <1>2, <1>3, <2>2 DEF FlushStart, TypeInv, ChainTypeOK, chainVars, IsDict
<1>4. CASE FlushReadSequence
  <2>1. PICK n \in {chainSeq} \cup (IF "seq_error" \in Faults THEN {0} ELSE {}) :
            flush' = [flush EXCEPT !.pc = "submit", !.seq = n]
    BY <1>4 DEF FlushReadSequence
  <2>2. n \in Nat
    BY DEF TypeInv, ChainTypeOK
  <2>3. ServerTypeOK'
    BY <1>4, <2>1, <2>2 DEF FlushReadSequence, TypeInv, ServerTypeOK, IsDict
  <2> QED
    BY <1>2, <1>4, <2>3 DEF FlushReadSequence, TypeInv, ChainTypeOK, chainVars, IsDict
<1>5. CASE FlushSubmit
  <2>1. ServerTypeOK'
    BY <1>5 DEF FlushSubmit, TypeInv, ServerTypeOK, IsDict
  <2>2. Txn \in [seq : Nat, batch : {Txn.batch}] /\ IsDict(Txn.batch)
    BY DEF Txn, TypeInv, ServerTypeOK
  <2>3. \A t \in mempool' : IsDict(t.batch) /\ t \in [seq : Nat, batch : {t.batch}]
    BY <1>5, <2>2 DEF FlushSubmit, TypeInv, ChainTypeOK
  <2>4. handed' \in [Users -> Nat]
    <3>1. \A n \in Nat : Capped(n) \in Nat
      BY BillingAssumption DEF Capped
    <3>2. \A u \in Batched : flush.batch[u] \in Nat
      BY DEF TypeInv, ServerTypeOK, IsDict, Batched
    <3>3. \A u \in Users : u \in Batched => Capped(handed[u] + flush.batch[u]) \in Nat
      BY <3>1, <3>2 DEF TypeInv, ChainTypeOK
    <3> QED
      BY <1>5, <3>3 DEF FlushSubmit, TypeInv, ChainTypeOK
  <2> QED
    BY <1>1, <1>2, <2>1, <2>3, <2>4 DEF TypeInv, ChainTypeOK
<1>6. CASE FlushClear
  <2>1. \A u \in DOMAIN cached : u \in Batched => Positive(cached[u] - CoinsFor(flush.batch[u], price)) \in Nat
    <3> SUFFICES ASSUME NEW u \in DOMAIN cached, u \in Batched
                 PROVE  Positive(cached[u] - CoinsFor(flush.batch[u], price)) \in Nat
      OBVIOUS
    <3>1. cached[u] \in Nat /\ flush.batch[u] \in Nat /\ price \in Nat
      BY U64Assumption DEF TypeInv, ServerTypeOK, IsDict, Batched, U64
    <3>2. CoinsFor(flush.batch[u], price) \in Nat
      BY <3>1, CoinsForNat
    <3> QED
      BY <3>1, <3>2 DEF Positive
  <2>2. IsDict(cached')
    BY <1>6, <2>1 DEF FlushClear, TypeInv, ServerTypeOK, IsDict
  <2>3. acc' \in [Users -> Nat]
    BY <1>6 DEF FlushClear, TypeInv, ServerTypeOK
  <2>4. ServerTypeOK'
    BY <1>6, <2>2, <2>3 DEF FlushClear, FlushOff, NoBatch, TypeInv, ServerTypeOK, IsDict
  <2> QED
    BY <1>2, <1>6, <2>4 DEF FlushClear, TypeInv, ChainTypeOK, chainVars, IsDict
<1>7. CASE FlushKeep
  <2>1. ServerTypeOK'
    BY <1>7 DEF FlushKeep, FlushOff, NoBatch, TypeInv, ServerTypeOK, IsDict
  <2> QED
    BY <1>2, <1>7, <2>1 DEF FlushKeep, TypeInv, ChainTypeOK, chainVars, IsDict
<1>8. CASE Stop
  <2>1. ServerTypeOK'
    BY <1>8 DEF Stop, FlushOff, NoBatch, TypeInv, ServerTypeOK, IsDict
  <2> QED
    BY <1>2, <1>8, <2>1 DEF Stop, TypeInv, ChainTypeOK, chainVars, IsDict
<1>9. CASE Restart
  <2>1. ServerTypeOK'
    BY <1>9, U64Assumption DEF Restart, FlushOff, NoBatch, RequestIdle, SessionIdle, TypeInv, ServerTypeOK, IsDict
  <2> QED
    BY <1>2, <1>9, <2>1 DEF Restart, TypeInv, ChainTypeOK, chainVars, IsDict
<1> QED
  BY <1>3, <1>4, <1>5, <1>6, <1>7, <1>8, <1>9 DEF FlushStep

\* What a transaction may charge a user for.
Pending(t, u) == IF u \in DOMAIN t.batch THEN t.batch[u] ELSE 0

\* Executing a deduction keeps the contract's books and charges each user at
\* most for the tokens of the batch.
LEMMA ExecuteEffect ==
  ASSUME TypeInv, NEW t \in mempool, Execute(t)
  PROVE  /\ ContractInv'
         /\ charged' \in [Users -> Nat]
         /\ \A u \in Users : Pending(t, u) \in Nat /\ charged'[u] <= charged[u] + Pending(t, u)
PROOF
<1>1. IsDict(t.batch) /\ charged \in [Users -> Nat]
  BY DEF TypeInv, ChainTypeOK
<1>2. \A u \in Users : Pending(t, u) \in Nat
  BY <1>1 DEF Pending, IsDict
<1>3. PICK users \in Vectors(Users) :
        /\ {users[i] : i \in DOMAIN users} = DOMAIN t.batch
        /\ LET tokens == [i \in DOMAIN users |-> t.batch[users[i]]]
               end == DeductResult(balances[Contract], taken[Contract], tokenPrice[Contract], users, tokens)
           IN  \/ /\ BatchDeduct(Contract, users, tokens)
                  /\ charged' = [u \in Users |->
                        IF u \in DOMAIN t.batch /\ taken'[Contract][u] > taken[Contract][u]
                        THEN charged[u] + t.batch[u] ELSE charged[u]]
               \/ ~end.alive /\ UNCHANGED <<contractVars, charged>>
  BY DEF Execute
<1> DEFINE tokens == [i \in DOMAIN users |-> t.batch[users[i]]]
<1>4. CASE UNCHANGED <<contractVars, charged>>
  BY <1>1, <1>2, <1>4, ContractUntouched DEF TypeInv
<1>5. CASE /\ BatchDeduct(Contract, users, tokens)
           /\ charged' = [u \in Users |->
                 IF u \in DOMAIN t.batch /\ taken'[Contract][u] > taken[Contract][u]
                 THEN charged[u] + t.batch[u] ELSE charged[u]]
  <2>1. Len(users) \in Nat /\ users \in [1..Len(users) -> Users]
    BY VectorType
  <2>2. tokens \in [1..Len(users) -> Nat]
    <3>1. DOMAIN users = 1..Len(users)
      BY <2>1
    <3>2. \A i \in DOMAIN users : users[i] \in DOMAIN t.batch
      BY <1>3
    <3>3. \A i \in DOMAIN users : t.batch[users[i]] \in Nat
      BY <1>1, <3>2 DEF IsDict
    <3> QED
      BY <3>1, <3>3
  <2>3. ContractInv'
    <3> HIDE DEF tokens
    <3> QED
      BY <1>5, <2>1, <2>2, ContractAssumption, BatchDeductInv DEF TypeInv
  <2>4. \A u \in Users : charged'[u] = charged[u] + Pending(t, u) \/ charged'[u] = charged[u]
    BY <1>5 DEF Pending
  <2> HIDE DEF Pending
  <2>5. \A u \in Users : charged'[u] \in Nat /\ charged'[u] <= charged[u] + Pending(t, u)
    BY <1>1, <1>2, <2>4
  <2>6. charged' \in [Users -> Nat]
    BY <1>5, <2>5
  <2> QED
    BY <1>2, <2>3, <2>5, <2>6
<1> QED
  BY <1>3, <1>4, <1>5

\* Steps of the chain are well typed.
LEMMA ChainTypes ==
  ASSUME TypeInv, ChainStep
  PROVE  TypeInv'
PROOF
<1>1. UNCHANGED <<managerVars, req, session, used, handed>>
  BY DEF ChainStep, Execute, Drop, AdminSetsPrice, UserDeposits, chainVars
<1>2. ServerTypeOK'
  BY <1>1 DEF TypeInv, ServerTypeOK, managerVars, IsDict
<1>3. AdvanceChain => /\ chainSeq' \in Nat
                      /\ \A t \in mempool' : IsDict(t.batch) /\ t \in [seq : Nat, batch : {t.batch}]
  BY DEF TypeInv, ChainTypeOK, AdvanceChain
<1>4. ASSUME NEW t \in mempool, Execute(t) PROVE TypeInv'
  <2>1. ContractInv' /\ charged' \in [Users -> Nat]
    BY <1>4, ExecuteEffect
  <2>2. AdvanceChain
    BY <1>4 DEF Execute
  <2> QED
    BY <1>1, <1>2, <1>3, <2>1, <2>2 DEF TypeInv, ChainTypeOK
<1>5. ASSUME NEW t \in mempool, Drop(t) PROVE TypeInv'
  BY <1>2, <1>5, ContractUntouched DEF Drop, TypeInv, ChainTypeOK
<1>6. ASSUME NEW p \in Prices, AdminSetsPrice(p) PROVE TypeInv'
  <2>1. ContractInv'
    BY <1>6, ContractNextInv, ContractAssumption DEF AdminSetsPrice, ContractNext, TypeInv
  <2> QED
    BY <1>2, <1>3, <1>6, <2>1 DEF AdminSetsPrice, TypeInv, ChainTypeOK
<1>7. ASSUME NEW u \in Users, NEW amount \in Amounts, UserDeposits(u, amount) PROVE TypeInv'
  <2>1. ContractInv'
    BY <1>7, U64Assumption, DepositInv DEF UserDeposits, TypeInv
  <2> QED
    BY <1>2, <1>7, <2>1 DEF UserDeposits, TypeInv, ChainTypeOK, chainVars
<1> QED
  BY <1>4, <1>5, <1>6, <1>7 DEF ChainStep

\* Every step is well typed.
LEMMA NextTypes ==
  ASSUME TypeInv, [BillingNext]_billingVars
  PROVE  TypeInv'
PROOF
<1>1. CASE UNCHANGED billingVars
  <2>1. ContractInv'
    BY <1>1, ContractUntouched DEF TypeInv, billingVars
  <2> QED
    BY <1>1, <2>1 DEF TypeInv, ServerTypeOK, ChainTypeOK, IsDict, billingVars, managerVars, chainVars
<1> QED
  BY <1>1, RequestTypes, SessionTypes, FlushTypes, ChainTypes DEF BillingNext

\* Every variable of the billing system keeps its type; in particular no
\* balance, dict entry or counter ever goes negative.
THEOREM BillingTypeCorrect == BillingSpec => []BillingTypeOK
PROOF
<1>1. TypeInv => BillingTypeOK
  BY DEF TypeInv, BillingTypeOK, ContractInv
<1> QED
  BY InitTypes, NextTypes, <1>1, PTL DEF BillingSpec

\* The contract's books balance whatever the BalanceManager submits.
THEOREM BillingKeepsLedger == BillingSpec => []BalanceIsLedger
PROOF
<1>1. TypeInv => BalanceIsLedger
  BY DEF TypeInv, ContractInv
<1> QED
  BY InitTypes, NextTypes, <1>1, PTL DEF BillingSpec

\* All coins are in the wallets when the contract is deployed.
LEMMA DeployedCoins == Deployed => CoinsKept
PROOF
<1> SUFFICES ASSUME Deployed PROVE CoinsKept
  OBVIOUS
<1>1. ContractInv
  BY DeployedInv
<1>2. InitialCoins \in Nat /\ Contract \in Admins
  BY U64Assumption, ContractAssumption DEF U64
<1>3. TreasuryIsPaidIn
  <2> SUFFICES ASSUME NEW a \in Admins PROVE treasury[a] = SumOver(paid[a])
    BY DEF TreasuryIsPaidIn
  <2>1. \A u \in Users : balances[a][u] = 0 /\ taken[a][u] = 0
    BY DEF Deployed
  <2>2. SumOver(paid[a]) = 0
    BY <1>1, <2>1, NothingPaid
  <2> QED
    BY <2>2 DEF Deployed
<1>4. SumOver(wallet) = Cardinality(Users) * InitialCoins
  BY <1>2, SumOverConstant DEF Deployed
<1>5. treasury[Contract] = 0
  BY <1>2 DEF Deployed
<1>6. Cardinality(Users) * InitialCoins \in Nat
  BY SupplyAssumption, U64Assumption DEF U64
<1>7. SupplyKept
  BY <1>4, <1>5, <1>6 DEF SupplyKept
<1> QED
  BY <1>3, <1>7 DEF CoinsKept

\* Only the deposits of users move coins between wallets and treasury.
LEMMA NextCoins ==
  ASSUME TypeInv, CoinsKept, [BillingNext]_billingVars
  PROVE  CoinsKept'
PROOF
<1>1. ASSUME UNCHANGED <<treasury, wallet, paid>> PROVE CoinsKept'
  BY <1>1 DEF CoinsKept, TreasuryIsPaidIn, SupplyKept
<1>2. ASSUME UNCHANGED contractVars PROVE CoinsKept'
  BY <1>1, <1>2 DEF contractVars
<1>3. ASSUME NEW r \in Requests, RequestStep(r) \/ \E force \in BOOLEAN : BalanceRequest(r, force)
      PROVE  UNCHANGED contractVars
  BY <1>3 DEF RequestStep, BalanceRequest, InitializeSkip, InitializeLock, InitializeDone,
              RefreshFetch, RefreshStore
<1>4. ASSUME NEW s \in Sessions, SessionStep(s) PROVE UNCHANGED contractVars
  BY <1>4 DEF SessionStep, StartLLMCall, AddTokens, AddTokensRead, LLMCallRaises, AddTokensWrite
<1>5. ASSUME FlushStep \/ Stop \/ Restart PROVE UNCHANGED contractVars
  BY <1>5 DEF FlushStep, FlushStart, FlushReadSequence, FlushSubmit, FlushClear, FlushKeep, Stop, Restart
<1>6. CASE ChainStep
  <2>1. ASSUME NEW t \in mempool, Execute(t) PROVE UNCHANGED <<treasury, wallet, paid>>
    BY <2>1 DEF Execute, BatchDeduct, contractVars
  <2>2. ASSUME NEW t \in mempool, Drop(t) PROVE UNCHANGED contractVars
    BY <2>2 DEF Drop
  <2>3. ASSUME NEW p \in Prices, AdminSetsPrice(p) PROVE UNCHANGED <<treasury, wallet, paid>>
    BY <2>3 DEF AdminSetsPrice, SetTokenPrice
  <2>4. ASSUME NEW u \in Users, NEW amount \in Amounts, UserDeposits(u, amount) PROVE CoinsKept'
    <3>1. Deposit(u, amount) /\ amount \in U64 /\ ContractInv
      BY <2>4, U64Assumption DEF UserDeposits, TypeInv
    <3> QED
      BY <3>1, CoinsKeptDeposit
  <2> QED
    BY <1>1, <1>2, <1>6, <2>1, <2>2, <2>3, <2>4 DEF ChainStep
<1>7. CASE UNCHANGED billingVars
  BY <1>2, <1>7 DEF billingVars
<1> QED
  BY <1>2, <1>3, <1>4, <1>5, <1>6, <1>7 DEF BillingNext

\* The treasury holds what users have left and what they were charged, whatever the server
\* submits, loses or repeats and whatever the users deposit meanwhile.
THEOREM BillingKeepsStores == BillingSpec => []StoresSound
PROOF
<1> DEFINE Inv == TypeInv /\ CoinsKept
<1>1. BillingInit => Inv
  BY InitTypes, DeployedCoins DEF BillingInit
<1>2. Inv /\ [BillingNext]_billingVars => Inv'
  BY NextTypes, NextCoins
<1>3. Inv => StoresSound
  BY CoinsMakeSolvent DEF StoresSound, TypeInv, ContractInv
<1> HIDE DEF Inv
<1> QED
  BY <1>1, <1>2, <1>3, PTL DEF BillingSpec

-----------------------------------------------------------------------------
(* The lock, the sequence numbers and the mempool.                           *)

Flushing == flush.pc \in {"sequence", "submit", "answer"}

\* The lock keeps initialize() and the flush apart; the flush never runs before
\* initialize() is done.
LockInv ==
    /\ Flushing => lock = "flush"
    /\ \A r \in Requests : req[r].pc = "price" => lock = r /\ ~initialized
    /\ ~initialized => flush.pc = "off"

\* The flush never uses a sequence number from the future, so whatever the node
\* has accepted carries the current one.
SeqInv ==
    /\ flush.pc \in {"submit", "answer"} => flush.seq <= chainSeq
    /\ \A t \in mempool : t.seq = chainSeq
    /\ OneDeductionPending

Discipline == LockInv /\ SeqInv

\* Initially nothing is under way.
LEMMA InitDiscipline == BillingInit => Discipline
PROOF
  BY DEF BillingInit, ManagerInit, Discipline, LockInv, SeqInv, OneDeductionPending, Flushing,
         FlushOff, RequestIdle

\* Every step keeps the lock and the sequence numbers in order.
LEMMA NextDiscipline ==
  ASSUME TypeInv, Discipline, [BillingNext]_billingVars
  PROVE  Discipline'
PROOF
<1> USE DEF Discipline, LockInv, SeqInv, OneDeductionPending, Flushing
<1>1. ASSUME NEW r \in Requests,
             RequestStep(r) \/ \E force \in BOOLEAN : BalanceRequest(r, force)
      PROVE  Discipline'
  <2>1. UNCHANGED <<chainSeq, mempool, flush.seq>>
    BY <1>1 DEF TypeInv, ServerTypeOK, RequestStep, BalanceRequest, InitializeSkip, InitializeLock,
           InitializeDone, RefreshFetch, RefreshStore, managerVars, chainVars
  <2>2. \A q \in Requests : q # "free" /\ q # "flush"
    BY BillingAssumption
  <2>3. req \in [Requests -> [pc : {"idle", "initialize", "price", "fetch", "store"},
                              force : BOOLEAN, value : Nat]]
    BY DEF TypeInv, ServerTypeOK
  <2>4. ASSUME NEW force \in BOOLEAN, BalanceRequest(r, force) PROVE Discipline'
    BY <2>1, <2>3, <2>4 DEF BalanceRequest, RequestIdle, managerVars
  <2>5. CASE InitializeSkip(r)
    BY <2>1, <2>3, <2>5 DEF InitializeSkip, AfterInitialize, RequestIdle, managerVars
  <2>6. CASE InitializeLock(r)
    <3>1. lock = "free" /\ ~initialized /\ lock' = r /\ UNCHANGED <<flush, initialized>>
      BY <2>6 DEF InitializeLock
    <3>2. \A q \in Requests : req[q].pc # "price"
      BY <2>2, <3>1
    <3>3. \A q \in Requests : req'[q].pc = "price" => q = r
      BY <2>3, <2>6, <3>2 DEF InitializeLock
    <3>4. flush'.pc = "off"
      BY <3>1
    <3> QED
      BY <2>1, <3>1, <3>3, <3>4
  <2>7. CASE InitializeDone(r)
    <3>1. flush.pc = "off" /\ flush'.pc = "sleep" /\ lock = r
      BY <2>7 DEF InitializeDone, TypeInv, ServerTypeOK
    <3>2. \A q \in Requests : req'[q].pc # "price"
      BY <2>3, <2>7, <3>1 DEF InitializeDone, AfterInitialize, RequestIdle
    <3> QED
      BY <2>1, <2>7, <3>1, <3>2 DEF InitializeDone
  <2>8. CASE RefreshFetch(r)
    BY <2>1, <2>3, <2>8 DEF RefreshFetch, managerVars
  <2>9. CASE RefreshStore(r)
    BY <2>1, <2>3, <2>9 DEF RefreshStore, RequestIdle
  <2> QED
    BY <1>1, <2>4, <2>5, <2>6, <2>7, <2>8, <2>9 DEF RequestStep
<1>2. ASSUME NEW s \in Sessions, SessionStep(s) PROVE Discipline'
  <2>1. UNCHANGED <<req, chainSeq, mempool, initialized, lock, flush>>
    BY <1>2 DEF SessionStep, StartLLMCall, AddTokens, AddTokensRead, AddTokensWrite, LLMCallRaises,
                managerVars, chainVars
  <2> QED
    BY <2>1
<1>3. CASE FlushStart
  BY <1>3 DEF FlushStart, chainVars, TypeInv, ServerTypeOK
<1>4. CASE FlushReadSequence
  <2>1. flush'.pc = "submit" /\ flush'.seq <= chainSeq
    BY <1>4 DEF FlushReadSequence, TypeInv, ServerTypeOK, ChainTypeOK
  <2> QED
    BY <1>4, <2>1 DEF FlushReadSequence, chainVars
<1>5. CASE FlushSubmit
  <2>1. flush'.pc = "answer" /\ flush'.seq = flush.seq
    BY <1>5 DEF FlushSubmit, TypeInv, ServerTypeOK
  <2>2. UNCHANGED <<lock, req, initialized, chainSeq>> /\ flush.pc = "submit"
    BY <1>5 DEF FlushSubmit
  <2>3. lock = "flush" /\ initialized /\ flush.seq <= chainSeq
    BY <2>2 DEF TypeInv, ServerTypeOK
  <2>4. LockInv'
    BY <2>1, <2>2, <2>3
  <2>5. CASE UNCHANGED mempool
    BY <2>1, <2>2, <2>3, <2>4, <2>5
  <2>6. CASE Admissible(Txn) /\ mempool' = mempool \cup {Txn}
    <3>1. Txn.seq = flush.seq /\ Txn.seq >= chainSeq /\ \A t \in mempool : t.seq # Txn.seq
      BY <2>6 DEF Admissible, Txn
    <3>2. flush.seq \in Nat /\ chainSeq \in Nat
      BY DEF TypeInv, ServerTypeOK, ChainTypeOK
    <3> HIDE DEF Txn
    <3>3. Txn.seq = chainSeq
      BY <2>3, <3>1, <3>2
    <3>4. mempool' = {Txn}
      BY <2>6, <3>1, <3>3
    <3>5. SeqInv'
      BY <2>1, <2>2, <2>3, <3>3, <3>4
    <3> QED
      BY <2>4, <3>5
  <2> QED
    BY <1>5, <2>5, <2>6 DEF FlushSubmit
<1>6. CASE FlushClear \/ FlushKeep
  <2>1. flush'.pc = "sleep" /\ lock' = "free" /\ UNCHANGED <<req, initialized, chainSeq, mempool>>
    BY <1>6 DEF FlushClear, FlushKeep, FlushOff, chainVars
  <2>2. flush.pc = "answer"
    BY <1>6 DEF FlushClear, FlushKeep
  <2> QED
    BY <2>1, <2>2, BillingAssumption
<1>7. CASE Stop
  <2>1. flush'.pc = "off" /\ UNCHANGED <<req, initialized, chainSeq, mempool>>
    BY <1>7 DEF Stop, FlushOff, chainVars
  <2>2. \A r \in Requests : req[r].pc = "price" => lock' = r
    BY <1>7, BillingAssumption DEF Stop
  <2> QED
    BY <2>1, <2>2
<1>8. CASE Restart
  BY <1>8 DEF Restart, FlushOff, RequestIdle, chainVars
<1>9. CASE ChainStep
  <2>1. UNCHANGED <<managerVars, req>>
    BY <1>9 DEF ChainStep, Execute, Drop, AdminSetsPrice, UserDeposits
  <2>2. UNCHANGED <<lock, initialized, flush>>
    BY <2>1 DEF managerVars
  <2>3. chainSeq \in Nat /\ flush.seq \in Nat
    BY DEF TypeInv, ServerTypeOK, ChainTypeOK
  <2>4. CASE AdvanceChain
    BY <2>1, <2>2, <2>3, <2>4 DEF AdvanceChain
  <2>5. CASE chainSeq' = chainSeq /\ mempool' \subseteq mempool
    BY <2>1, <2>2, <2>5
  <2> QED
    BY <1>9, <2>4, <2>5 DEF ChainStep, Execute, Drop, AdminSetsPrice, UserDeposits, chainVars
<1>10. CASE UNCHANGED billingVars
  BY <1>10 DEF billingVars, managerVars, chainVars
<1> QED
  BY <1>1, <1>2, <1>3, <1>4, <1>5, <1>6, <1>7, <1>8, <1>9, <1>10 DEF BillingNext, FlushStep

\* At most one deduction is ever pending, whatever goes wrong: sequence numbers
\* misread as 0, lost answers, stops and restarts included.
THEOREM OneDeductionAtATime == BillingSpec => []OneDeductionPending
PROOF
<1>1. Discipline => OneDeductionPending
  BY DEF Discipline, SeqInv
<1> QED
  BY InitTypes, NextTypes, InitDiscipline, NextDiscipline, <1>1, PTL DEF BillingSpec

-----------------------------------------------------------------------------
(* Charges.  Every token a user is charged for, may still be charged for by a *)
(* pending transaction, or may be submitted later was used.                  *)

\* The answer to a submission has arrived and the accumulator still holds the
\* tokens it was about.
Accepted == flush.pc = "answer" /\ flush.success

\* The part of the accumulator that a later flush may submit: none once the
\* flush task was stopped, and not what was accepted a moment ago.
Remaining(u) ==
    IF initialized /\ flush.pc = "off" THEN 0
    ELSE IF Accepted THEN acc[u] - Pending(flush, u) ELSE acc[u]

ChargeInv ==
    /\ \A s \in Sessions : session[s].pc # "adding"
    /\ flush.pc \in {"sequence", "submit"} => ~flush.success
    /\ Flushing => \A u \in Users : Pending(flush, u) <= acc[u]
    /\ \A u \in Users : charged[u] + Remaining(u) <= used[u]
    /\ \A t \in mempool : \A u \in Users : charged[u] + Pending(t, u) + Remaining(u) <= used[u]

\* Facts about the numbers of a user, for the arithmetic below.
LEMMA AmountTypes ==
  ASSUME TypeInv, NEW u \in Users
  PROVE  /\ acc[u] \in Nat /\ used[u] \in Nat /\ charged[u] \in Nat
         /\ Pending(flush, u) \in Nat
         /\ \A t \in mempool : Pending(t, u) \in Nat
PROOF
  BY DEF TypeInv, ServerTypeOK, ChainTypeOK, IsDict, Pending

\* Initially nothing was used and nothing charged.
LEMMA InitCharges == BillingInit => ChargeInv
PROOF
<1> SUFFICES ASSUME BillingInit PROVE ChargeInv
  OBVIOUS
<1>1. \A u \in Users : acc[u] = 0 /\ used[u] = 0 /\ charged[u] = 0
  BY DEF BillingInit, ManagerInit
<1>2. flush.pc = "off" /\ mempool = {} /\ ~initialized
  BY DEF BillingInit, ManagerInit, FlushOff
<1>3. \A u \in Users : Remaining(u) = 0
  BY <1>1, <1>2 DEF Remaining, Accepted
<1>4. \A s \in Sessions : session[s].pc = "idle"
  BY DEF BillingInit, SessionIdle
<1> QED
  BY <1>1, <1>2, <1>3, <1>4 DEF ChargeInv, Flushing

\* Every step keeps the charges covered by usage, if no answer is lost and
\* add_tokens is not interrupted.
LEMMA NextCharges ==
  ASSUME "lost_answer" \notin Faults, "thread_switch" \notin Faults,
         TypeInv, Discipline, ChargeInv, [BillingNext]_billingVars
  PROVE  ChargeInv'
PROOF
<1>0. \A u \in Users : Remaining(u) \in Nat
  BY AmountTypes DEF ChargeInv, Remaining, Accepted, Flushing
<1>1. ASSUME UNCHANGED <<acc, flush, initialized, mempool, used, charged, session>> PROVE ChargeInv'
  BY <1>1 DEF ChargeInv, Remaining, Accepted, Flushing, Pending
<1>2. ASSUME NEW r \in Requests,
             RequestStep(r) \/ \E force \in BOOLEAN : BalanceRequest(r, force)
      PROVE  ChargeInv'
  <2>1. CASE InitializeDone(r)
    <3>1. ~initialized /\ flush.pc = "off" /\ flush'.pc = "sleep" /\ initialized'
      BY <2>1 DEF InitializeDone, Discipline, LockInv, TypeInv, ServerTypeOK
    <3>2. UNCHANGED <<acc, mempool, used, charged, session>>
      BY <2>1 DEF InitializeDone, chainVars
    <3>3. \A u \in Users : Remaining(u)' = Remaining(u)
      BY <3>1, <3>2 DEF Remaining, Accepted
    <3> QED
      BY <3>1, <3>2, <3>3 DEF ChargeInv, Flushing, Pending
  <2> QED
    BY <1>1, <1>2, <2>1 DEF RequestStep, BalanceRequest, InitializeSkip, InitializeLock,
           RefreshFetch, RefreshStore, managerVars, chainVars
<1>3. ASSUME NEW s \in Sessions, SessionStep(s) PROVE ChargeInv'
  <2>1. UNCHANGED <<flush, initialized, mempool, charged>>
    BY <1>3 DEF SessionStep, StartLLMCall, AddTokens, AddTokensRead, AddTokensWrite, LLMCallRaises,
                managerVars, chainVars
  <2>2. \A q \in Sessions : session'[q].pc # "adding"
    BY <1>3 DEF SessionStep, StartLLMCall, AddTokens, AddTokensRead, AddTokensWrite, LLMCallRaises,
                SessionIdle, ChargeInv, TypeInv, ServerTypeOK
  <2> DEFINE Grows(n) == /\ used' = [used EXCEPT ![Owner[s]] = @ + n]
                         /\ (acc' = [acc EXCEPT ![Owner[s]] = @ + n] \/ acc' = acc)
             Covered(u, m) == used'[u] = used[u] + m /\ (acc'[u] = acc[u] + m \/ acc'[u] = acc[u])
  <2>3. (acc' = acc /\ used' = used) \/ \E n \in CallTokens : Grows(n)
    BY <1>3 DEF SessionStep, StartLLMCall, AddTokens, AddTokensRead, AddTokensWrite, LLMCallRaises,
                Uses, ChargeInv, managerVars
  <2>4. \A u \in Users : \E m \in Nat : Covered(u, m)
    <3> TAKE u \in Users
    <3>1. acc \in [Users -> Nat] /\ used \in [Users -> Nat]
      BY DEF TypeInv, ServerTypeOK, ChainTypeOK
    <3>2. CASE acc' = acc /\ used' = used
      <4>1. Covered(u, 0)
        BY <3>1, <3>2
      <4> HIDE DEF Covered
      <4> QED
        BY <4>1
    <3>3. ASSUME NEW n \in CallTokens, Grows(n) PROVE \E m \in Nat : Covered(u, m)
      <4>1. n \in Nat
        BY BillingAssumption
      <4>2. CASE u = Owner[s]
        <5>1. Covered(u, n)
          BY <3>1, <3>3, <4>1, <4>2
        <5> HIDE DEF Covered
        <5> QED
          BY <4>1, <5>1
      <4>3. CASE u # Owner[s]
        <5>1. Covered(u, 0)
          BY <3>1, <3>3, <4>3
        <5> HIDE DEF Covered
        <5> QED
          BY <5>1
      <4> QED
        BY <4>2, <4>3
    <3> HIDE DEF Covered, Grows
    <3> QED
      BY <2>3, <3>2, <3>3
  <2>5. \A u \in Users : Pending(flush, u)' = Pending(flush, u)
    BY <2>1 DEF Pending
  <2>6. ASSUME NEW u \in Users
        PROVE  /\ acc[u] <= acc'[u]
               /\ charged'[u] + Remaining(u)' <= used'[u]
               /\ \A t \in mempool' : charged'[u] + Pending(t, u) + Remaining(u)' <= used'[u]
    <3>1. PICK n \in Nat : used'[u] = used[u] + n /\ (acc'[u] = acc[u] + n \/ acc'[u] = acc[u])
      BY <2>4
    <3>2. Remaining(u)' <= Remaining(u) + n /\ Remaining(u)' \in Int
      BY <2>1, <2>5, <3>1, AmountTypes DEF Remaining, Accepted
    <3>3. acc[u] \in Nat /\ used[u] \in Nat /\ charged[u] \in Nat /\ Remaining(u) \in Nat
      BY <1>0, AmountTypes
    <3>4. charged[u] + Remaining(u) <= used[u]
      BY DEF ChargeInv
    <3>5. ASSUME NEW t \in mempool
          PROVE  charged[u] + Pending(t, u) + Remaining(u)' <= used'[u]
      <4>1. Pending(t, u) \in Nat /\ charged[u] + Pending(t, u) + Remaining(u) <= used[u]
        BY AmountTypes DEF ChargeInv
      <4> QED
        BY <3>1, <3>2, <3>3, <4>1
    <3> QED
      BY <2>1, <3>1, <3>2, <3>3, <3>4, <3>5
  <2>7. Flushing' => \A u \in Users : Pending(flush, u)' <= acc'[u]
    <3> SUFFICES ASSUME Flushing, NEW u \in Users PROVE Pending(flush, u) <= acc'[u]
      BY <2>1, <2>5 DEF Flushing
    <3>1. Pending(flush, u) <= acc[u] /\ acc[u] <= acc'[u]
      BY <2>6 DEF ChargeInv
    <3>2. Pending(flush, u) \in Nat /\ acc[u] \in Nat /\ acc'[u] \in Nat
      BY <2>4, AmountTypes
    <3> QED
      BY <3>1, <3>2
  <2> QED
    BY <2>1, <2>2, <2>6, <2>7 DEF ChargeInv, Pending
<1>4. ASSUME UNCHANGED <<session, mempool, used, charged>>,
             \A u \in Users : Remaining(u)' \in Nat /\ Remaining(u)' <= Remaining(u),
             flush'.pc \in {"sequence", "submit"} => ~flush'.success,
             Flushing' => \A u \in Users : Pending(flush', u) <= acc'[u]
      PROVE  ChargeInv'
  <2>1. \A u \in Users : charged[u] + Remaining(u)' <= used[u]
    <3> TAKE u \in Users
    <3>1. charged[u] + Remaining(u) <= used[u]
      BY DEF ChargeInv
    <3> QED
      BY <1>0, <1>4, <3>1, AmountTypes
  <2>2. \A t \in mempool : \A u \in Users : charged[u] + Pending(t, u) + Remaining(u)' <= used[u]
    <3> TAKE t \in mempool
    <3> TAKE u \in Users
    <3>1. charged[u] + Pending(t, u) + Remaining(u) <= used[u]
      BY DEF ChargeInv
    <3> QED
      BY <1>0, <1>4, <3>1, AmountTypes
  <2> QED
    BY <1>4, <2>1, <2>2 DEF ChargeInv, Pending
<1>5. CASE FlushStart
  <2>1. flush.pc = "sleep" /\ flush'.pc = "sequence" /\ ~flush'.success
    BY <1>5 DEF FlushStart
  <2>2. UNCHANGED <<acc, initialized, session, mempool, used, charged>>
    BY <1>5 DEF FlushStart, chainVars
  <2>3. \A u \in Users : Remaining(u)' = Remaining(u)
    BY <2>1, <2>2 DEF Remaining, Accepted
  <2>4. \A u \in Users : Pending(flush', u) <= acc'[u]
    <3> TAKE u \in Users
    <3>1. flush'.batch = [v \in Due |-> acc[v]]
      BY <1>5 DEF FlushStart
    <3>2. Pending(flush', u) = acc[u] \/ Pending(flush', u) = 0
      BY <3>1 DEF Pending
    <3> QED
      BY <2>2, <3>2, AmountTypes
  <2> QED
    BY <1>0, <1>4, <2>1, <2>2, <2>3, <2>4
<1>6. CASE FlushReadSequence
  <2>1. flush.pc = "sequence" /\ flush'.pc = "submit" /\ flush'.batch = flush.batch /\ flush'.success = flush.success
    BY <1>6 DEF FlushReadSequence, TypeInv, ServerTypeOK
  <2>2. UNCHANGED <<acc, initialized, session, mempool, used, charged>>
    BY <1>6 DEF FlushReadSequence, chainVars
  <2>3. \A u \in Users : Remaining(u)' = Remaining(u) /\ Pending(flush', u) = Pending(flush, u)
    BY <2>1, <2>2 DEF Remaining, Accepted, Pending
  <2> QED
    BY <1>0, <1>4, <2>1, <2>2, <2>3 DEF ChargeInv, Flushing
<1>7. CASE FlushSubmit
  <2>1. /\ flush.pc = "submit" /\ flush'.pc = "answer" /\ flush'.batch = flush.batch
        /\ ~flush.success
        /\ UNCHANGED <<acc, initialized, session, used, charged>>
    BY <1>7 DEF FlushSubmit, TypeInv, ServerTypeOK, ChargeInv
  <2>2. \A u \in Users : Pending(flush', u) = Pending(flush, u) /\ Pending(flush, u) <= acc[u]
    BY <2>1 DEF Pending, ChargeInv, Flushing
  <2>3. CASE UNCHANGED mempool /\ flush' = [flush EXCEPT !.pc = "answer"]
    <3>1. ~flush'.success
      BY <2>1, <2>3 DEF TypeInv, ServerTypeOK
    <3>2. \A u \in Users : Remaining(u)' = Remaining(u)
      BY <2>1, <3>1 DEF Remaining, Accepted
    <3> QED
      BY <1>0, <1>4, <2>1, <2>2, <2>3, <3>2
  <2>4. CASE Admissible(Txn) /\ mempool' = mempool \cup {Txn} /\ flush' = [flush EXCEPT !.pc = "answer", !.success = TRUE]
    <3>1. mempool' = {Txn}
      <4>1. flush.seq <= chainSeq /\ flush.seq \in Nat /\ chainSeq \in Nat /\ \A t \in mempool : t.seq = chainSeq
        BY <2>1 DEF Discipline, SeqInv, TypeInv, ServerTypeOK, ChainTypeOK
      <4>2. Txn.seq = flush.seq /\ Txn.seq >= chainSeq /\ \A t \in mempool : t.seq # Txn.seq
        BY <2>4 DEF Admissible, Txn
      <4> HIDE DEF Txn
      <4> QED
        BY <2>4, <4>1, <4>2
    <3>2. \A u \in Users : Pending(Txn, u) = Pending(flush, u)
      BY DEF Txn, Pending
    <3>3. flush'.success
      BY <2>4 DEF TypeInv, ServerTypeOK
    <3>4. initialized
      BY <2>1 DEF Discipline, LockInv, TypeInv, ServerTypeOK
    <3>5. \A u \in Users : Remaining(u) = acc[u] /\ Remaining(u)' = acc[u] - Pending(flush, u)
      BY <2>1, <2>2, <3>3, <3>4 DEF Remaining, Accepted
    <3>6. \A u \in Users : /\ charged[u] + Remaining(u)' <= used[u]
                           /\ charged[u] + Pending(Txn, u) + Remaining(u)' <= used[u]
      <4> TAKE u \in Users
      <4>1. charged[u] + acc[u] <= used[u]
        BY <3>5 DEF ChargeInv
      <4> QED
        BY <3>2, <3>5, <4>1, AmountTypes
    <3>7. \A u \in Users : \A t \in mempool' : charged'[u] + Pending(t, u) + Remaining(u)' <= used'[u]
      BY <2>1, <3>1, <3>6
    <3> QED
      BY <2>1, <2>2, <3>6, <3>7 DEF ChargeInv, Flushing, Pending
  <2> QED
    BY <1>7, <2>3, <2>4 DEF FlushSubmit
<1>8. CASE FlushClear
  <2>1. /\ Accepted /\ flush'.pc = "sleep"
        /\ UNCHANGED <<initialized, session, mempool, used, charged>>
    BY <1>8 DEF FlushClear, FlushOff, Accepted, chainVars
  <2>2. initialized
    BY <2>1 DEF Accepted, Discipline, LockInv, TypeInv, ServerTypeOK
  <2>3. \A u \in Users : Remaining(u)' = acc'[u] /\ Remaining(u) = acc[u] - Pending(flush, u)
    BY <2>1, <2>2 DEF Remaining, Accepted
  <2>4. \A u \in Users : acc'[u] \in Nat /\ acc'[u] <= Remaining(u)
    <3> TAKE u \in Users
    <3>1. Pending(flush, u) <= acc[u]
      BY <2>1 DEF Accepted, ChargeInv, Flushing
    <3>2. CASE u \in Batched
      BY <1>8, <2>3, <3>1, <3>2, AmountTypes DEF FlushClear
    <3>3. CASE u \notin Batched
      BY <1>8, <2>3, <3>3, AmountTypes DEF FlushClear, Pending, Batched
    <3> QED
      BY <3>2, <3>3
  <2> QED
    BY <1>4, <2>1, <2>3, <2>4 DEF Flushing
<1>9. CASE FlushKeep
  <2>1. /\ flush.pc = "answer" /\ ~flush.success /\ flush'.pc = "sleep"
        /\ UNCHANGED <<acc, initialized, session, mempool, used, charged>>
    BY <1>9 DEF FlushKeep, FlushOff, chainVars
  <2>2. \A u \in Users : Remaining(u)' = Remaining(u)
    BY <2>1 DEF Remaining, Accepted
  <2> QED
    BY <1>0, <1>4, <2>1, <2>2 DEF Flushing
<1>10. CASE Stop
  <2>1. /\ flush.pc # "off" /\ flush'.pc = "off"
        /\ UNCHANGED <<acc, initialized, session, mempool, used, charged>>
    BY <1>10 DEF Stop, FlushOff, chainVars
  <2>2. initialized
    BY <2>1 DEF Discipline, LockInv, TypeInv, ServerTypeOK
  <2>3. \A u \in Users : Remaining(u)' = 0
    BY <2>1, <2>2 DEF Remaining
  <2> QED
    BY <1>0, <1>4, <2>1, <2>3 DEF Flushing
<1>11. CASE Restart
  <2>1. /\ flush'.pc = "off" /\ \A u \in Users : acc'[u] = 0
        /\ UNCHANGED <<mempool, used, charged>>
        /\ \A q \in Sessions : session'[q].pc = "idle"
    BY <1>11 DEF Restart, FlushOff, SessionIdle, chainVars
  <2>2. \A u \in Users : Remaining(u)' = 0
    BY <2>1 DEF Remaining, Accepted
  <2>3. \A u \in Users : charged[u] + 0 <= used[u]
    <3> TAKE u \in Users
    <3>1. charged[u] + Remaining(u) <= used[u]
      BY DEF ChargeInv
    <3> QED
      BY <1>0, <3>1, AmountTypes
  <2>4. \A t \in mempool : \A u \in Users : charged[u] + Pending(t, u) + 0 <= used[u]
    <3> TAKE t \in mempool
    <3> TAKE u \in Users
    <3>1. charged[u] + Pending(t, u) + Remaining(u) <= used[u]
      BY DEF ChargeInv
    <3> QED
      BY <1>0, <3>1, AmountTypes
  <2> QED
    BY <2>1, <2>2, <2>3, <2>4 DEF ChargeInv, Flushing, Pending
<1>12. CASE ChainStep
  <2>1. UNCHANGED <<managerVars, session, used>>
    BY <1>12 DEF ChainStep, Execute, Drop, AdminSetsPrice, UserDeposits
  <2>2. UNCHANGED <<acc, flush, initialized>>
    BY <2>1 DEF managerVars
  <2>3. \A u \in Users : Remaining(u)' = Remaining(u) /\ Pending(flush', u) = Pending(flush, u)
    BY <2>2 DEF Remaining, Accepted, Pending
  <2>4. ASSUME NEW t \in mempool, Execute(t) PROVE ChargeInv'
    <3>1. mempool' = {}
      BY <2>4 DEF Execute, AdvanceChain, Discipline, SeqInv, TypeInv, ChainTypeOK
    <3>2. \A u \in Users : charged'[u] + Remaining(u) <= used[u]
      <4> TAKE u \in Users
      <4>1. charged'[u] \in Nat /\ Pending(t, u) \in Nat /\ charged'[u] <= charged[u] + Pending(t, u)
        BY <2>4, ExecuteEffect
      <4>2. charged[u] + Pending(t, u) + Remaining(u) <= used[u]
        BY DEF ChargeInv
      <4> QED
        BY <1>0, <4>1, <4>2, AmountTypes
    <3> QED
      BY <2>1, <2>2, <2>3, <3>1, <3>2 DEF ChargeInv, Flushing, Pending
  <2>5. CASE mempool' \subseteq mempool /\ UNCHANGED charged
    BY <2>1, <2>2, <2>3, <2>5 DEF ChargeInv, Flushing, Pending
  <2> QED
    BY <1>12, <2>4, <2>5 DEF ChainStep, Drop, AdminSetsPrice, AdvanceChain, UserDeposits, chainVars
<1>13. CASE UNCHANGED billingVars
  BY <1>1, <1>13 DEF billingVars, managerVars, chainVars
<1> QED
  BY <1>2, <1>3, <1>5, <1>6, <1>7, <1>8, <1>9, <1>10, <1>11, <1>12, <1>13 DEF BillingNext, FlushStep

\* No user is charged for more tokens than were used on their behalf, for any
\* number of users, sessions and flushes, with failing submissions, misread
\* sequence numbers, expiring transactions, stops and restarts, provided that a
\* submission the node accepted is never reported as failed and that add_tokens
\* is not interrupted.  Both are needed: tokens whose deduction was accepted and
\* reported as failed are charged again by the next flush, and an add_tokens that
\* writes back what it read before a flush brings the flushed tokens back.
THEOREM NobodyOvercharged ==
  ASSUME "lost_answer" \notin Faults, "thread_switch" \notin Faults
  PROVE  BillingSpec => []NoOvercharge
PROOF
<1> DEFINE Inv == TypeInv /\ Discipline /\ ChargeInv
<1>1. BillingInit => Inv
  BY InitTypes, InitDiscipline, InitCharges
<1>2. Inv /\ [BillingNext]_billingVars => Inv'
  BY NextTypes, NextDiscipline, NextCharges
<1>3. Inv => NoOvercharge
  <2> SUFFICES ASSUME Inv, NEW u \in Users PROVE charged[u] <= used[u]
    BY DEF NoOvercharge
  <2>1. Remaining(u) \in Nat
    BY AmountTypes DEF ChargeInv, Remaining, Accepted, Flushing
  <2>2. charged[u] + Remaining(u) <= used[u]
    BY DEF ChargeInv
  <2> QED
    BY <2>1, <2>2, AmountTypes
<1> HIDE DEF Inv
<1> QED
  BY <1>1, <1>2, <1>3, PTL DEF BillingSpec
=============================================================================
