------------------------------ MODULE Billing ------------------------------
(***************************************************************************)
(* How LLM usage is charged: BalanceManager                                *)
(* (openhands/server/services/balance_manager.py), the LumioService it     *)
(* calls (lumio_service.py), the /balance routes and the agent controllers *)
(* that use them, and, as the environment, the Lumio node that runs the    *)
(* contract of module VibeBalance.                                         *)
(*                                                                         *)
(* An await is a step boundary: what a coroutine read before it may be     *)
(* stale after it.  Agent controllers run in threads of their own, so they *)
(* interleave with the coroutines everywhere.                              *)
(***************************************************************************)
EXTENDS VibeBalance

CONSTANTS
    Sessions,       \* agent controllers with a user_id
    Owner,          \* the user of a session or request
    Requests,       \* HTTP requests to /balance and /balance/refresh in flight
    CallTokens,     \* bound: tokens one LLM call may use
    MaxUsed,        \* bound: tokens a user may use altogether
    PriceChanges,   \* bound: the admin changes the price before this sequence number
    MaxSeq,         \* bound: admin transactions executed
    Faults          \* what may go wrong, a subset of FaultKinds

FaultKinds == {
    "lost_answer",  \* the node took the transaction, the HTTP answer was lost
    "net_error",    \* encode_submission or submit failed, nothing was sent
    "seq_error",    \* _get_sequence_number failed and returned 0
    "read_error",   \* a view call failed and returned its default
    "drop",         \* a transaction expired in the mempool (600 s)
    "thread_switch",\* the interpreter switches threads inside add_tokens
    "llm_error",    \* agent.step raised after the LLM had answered
    "stop",         \* BalanceManager.stop()
    "restart"}      \* the server process restarts

ASSUME BillingAssumption ==
    /\ Owner \in [Sessions \cup Requests -> Users]
    /\ CallTokens \subseteq Nat \ {0}
    /\ MaxUsed \in Nat /\ PriceChanges \in Nat /\ MaxSeq \in Nat
    /\ Faults \subseteq FaultKinds
    /\ Cardinality(Users) <= MaxBatch
    /\ Requests \cap {"free", "flush"} = {}

VARIABLES
    cached,         \* _balances, a dict
    acc,            \* _accumulated_tokens
    price,          \* _token_price
    initialized,    \* _initialized
    lock,           \* _lock: "free", "flush" or the request that holds it
    flush,          \* the _periodic_flush task and the transaction it submits
    req,            \* req[r]: a /balance or /balance/refresh request
    session,        \* session[s]: an agent controller in _step
    chainSeq,       \* sequence number of the admin account on chain
    mempool,        \* admin transactions the node accepted and has not executed
    handed,         \* handed[u]: tokens of u in transactions the node accepted (history)
    used,           \* used[u]: tokens the LLM calls of u consumed (history)
    charged         \* charged[u]: tokens u was charged for on chain (history)

managerVars == <<cached, acc, price, initialized, lock, flush>>
chainVars == <<chainSeq, mempool, handed>>
billingVars == <<contractVars, managerVars, req, session, chainVars, used, charged>>

Positive(n) == IF n > 0 THEN n ELSE 0
\* `handed' stops counting at MaxUsed, as no user uses more.
Capped(n) == IF n < MaxUsed THEN n ELSE MaxUsed
NoBatch == [u \in {} |-> 0]
FlushOff == [pc |-> "off", batch |-> NoBatch, seq |-> 0, success |-> FALSE]
RequestIdle == [pc |-> "idle", force |-> FALSE, value |-> 0]
SessionIdle == [pc |-> "idle", current |-> 0, tokens |-> 0]

\* The contract as deployed: the store exists, the users are whitelisted.
Deployed ==
    /\ stores = {Contract}
    /\ balances = [a \in Admins |-> [u \in Users |-> 0]]
    /\ whitelist = [a \in Admins |-> IF a = Contract THEN Users ELSE {}]
    /\ tokenPrice = [a \in Admins |-> DefaultPrice]
    /\ treasury = [a \in Admins |-> 0]
    /\ wallet = [u \in Users |-> InitialCoins]
    /\ paid = [a \in Admins |-> [u \in Users |-> 0]]
    /\ taken = [a \in Admins |-> [u \in Users |-> 0]]

ManagerInit ==
    /\ cached = NoBatch
    /\ acc = [u \in Users |-> 0]
    /\ price = DefaultPrice
    /\ initialized = FALSE
    /\ lock = "free"
    /\ flush = FlushOff

BillingInit ==
    /\ Deployed
    /\ ManagerInit
    /\ req = [r \in Requests |-> RequestIdle]
    /\ session = [s \in Sessions |-> SessionIdle]
    /\ chainSeq = 0
    /\ mempool = {}
    /\ handed = [u \in Users |-> 0]
    /\ used = [u \in Users |-> 0]
    /\ charged = [u \in Users |-> 0]

-----------------------------------------------------------------------------
(* The /balance and /balance/refresh routes (force), and get_balance, which *)
(* does what /balance does.                                                 *)

BalanceRequest(r, force) ==
    /\ req[r].pc = "idle"
    /\ req' = [req EXCEPT ![r] = [RequestIdle EXCEPT !.pc = "initialize", !.force = force]]
    /\ UNCHANGED <<contractVars, managerVars, session, chainVars, used, charged>>

\* After initialize(): fetch the balance if asked to or if it is not cached.
AfterInitialize(r) ==
    req' = [req EXCEPT ![r] =
                IF req[r].force \/ Owner[r] \notin DOMAIN cached
                THEN [@ EXCEPT !.pc = "fetch"] ELSE RequestIdle]

InitializeSkip(r) ==
    /\ req[r].pc = "initialize"
    /\ initialized
    /\ AfterInitialize(r)
    /\ UNCHANGED <<contractVars, managerVars, session, chainVars, used, charged>>

InitializeLock(r) ==
    /\ req[r].pc = "initialize"
    /\ ~initialized
    /\ lock = "free"
    /\ lock' = r
    /\ req' = [req EXCEPT ![r].pc = "price"]
    /\ UNCHANGED <<contractVars, cached, acc, price, initialized, flush, session, chainVars, used, charged>>

InitializeDone(r) ==
    /\ req[r].pc = "price"
    /\ price' \in {GetTokenPrice} \cup (IF "read_error" \in Faults THEN {DefaultPrice} ELSE {})
    /\ initialized' = TRUE
    /\ flush' = [flush EXCEPT !.pc = "sleep"]
    /\ lock' = "free"
    /\ AfterInitialize(r)
    /\ UNCHANGED <<contractVars, cached, acc, session, chainVars, used, charged>>

\* refresh_balance: the node answers with the balance of this moment ...
RefreshFetch(r) ==
    /\ req[r].pc = "fetch"
    /\ \E v \in {GetBalance(Owner[r])} \cup (IF "read_error" \in Faults THEN {0} ELSE {}) :
           req' = [req EXCEPT ![r] = [@ EXCEPT !.pc = "store", !.value = v]]
    /\ UNCHANGED <<contractVars, managerVars, session, chainVars, used, charged>>

\* ... and the coroutine stores it when it resumes.
RefreshStore(r) ==
    /\ req[r].pc = "store"
    /\ cached' = [u \in DOMAIN cached \cup {Owner[r]} |->
                    IF u = Owner[r] THEN req[r].value ELSE cached[u]]
    /\ req' = [req EXCEPT ![r] = RequestIdle]
    /\ UNCHANGED <<contractVars, acc, price, initialized, lock, flush, session, chainVars, used, charged>>

-----------------------------------------------------------------------------
(* AgentController._step: check the balance, call the LLM, add the tokens.  *)

VirtualBalance(u) == Positive(cached[u] - CoinsFor(acc[u], price))
CheckBalance(u) == u \in DOMAIN cached => VirtualBalance(u) > 0

StartLLMCall(s) ==
    /\ session[s].pc = "idle"
    /\ CheckBalance(Owner[s])
    /\ session' = [session EXCEPT ![s].pc = "calling"]
    /\ UNCHANGED <<contractVars, managerVars, req, chainVars, used, charged>>

Uses(s, tokens) ==
    /\ session[s].pc = "calling"
    /\ used[Owner[s]] + tokens <= MaxUsed
    /\ used' = [used EXCEPT ![Owner[s]] = @ + tokens]

AddTokens(s, tokens) ==
    /\ Uses(s, tokens)
    /\ acc' = [acc EXCEPT ![Owner[s]] = @ + tokens]
    /\ session' = [session EXCEPT ![s] = SessionIdle]
    /\ UNCHANGED <<contractVars, cached, price, initialized, lock, flush, req, chainVars, charged>>

\* add_tokens reads and writes the dict in two bytecodes.
AddTokensRead(s, tokens) ==
    /\ "thread_switch" \in Faults
    /\ Uses(s, tokens)
    /\ session' = [session EXCEPT ![s] =
                    [pc |-> "adding", current |-> acc[Owner[s]], tokens |-> tokens]]
    /\ UNCHANGED <<contractVars, managerVars, req, chainVars, charged>>

AddTokensWrite(s) ==
    /\ session[s].pc = "adding"
    /\ acc' = [acc EXCEPT ![Owner[s]] = session[s].current + session[s].tokens]
    /\ session' = [session EXCEPT ![s] = SessionIdle]
    /\ UNCHANGED <<contractVars, cached, price, initialized, lock, flush, req, chainVars, used, charged>>

\* agent.step raises: the tokens are in the LLM metrics, and are part of
\* tokens_before of the next step, so they are never scheduled.
LLMCallRaises(s, tokens) ==
    /\ "llm_error" \in Faults
    /\ Uses(s, tokens)
    /\ session' = [session EXCEPT ![s] = SessionIdle]
    /\ UNCHANGED <<contractVars, managerVars, req, chainVars, charged>>

-----------------------------------------------------------------------------
(* _periodic_flush and _flush_all_deductions.                               *)

Due == {u \in Users : CoinsFor(acc[u], price) > 0}

FlushStart ==
    /\ flush.pc = "sleep"
    /\ lock = "free"
    /\ Due # {}
    /\ lock' = "flush"
    /\ flush' = [pc |-> "sequence", batch |-> [u \in Due |-> acc[u]], seq |-> 0, success |-> FALSE]
    /\ UNCHANGED <<contractVars, cached, acc, price, initialized, req, session, chainVars, used, charged>>

\* Mutant: the client counts its own pending transactions.
MutReadSequence ==
    /\ flush.pc = "sequence"
    /\ flush' = [flush EXCEPT !.pc = "submit", !.seq = chainSeq + Cardinality(mempool)]
    /\ UNCHANGED <<contractVars, cached, acc, price, initialized, lock, req, session, chainVars, used, charged>>

FlushReadSequence ==
    /\ flush.pc = "sequence"
    /\ \E n \in {chainSeq} \cup (IF "seq_error" \in Faults THEN {0} ELSE {}) :
           flush' = [flush EXCEPT !.pc = "submit", !.seq = n]
    /\ UNCHANGED <<contractVars, cached, acc, price, initialized, lock, req, session, chainVars, used, charged>>

\* The node admits a transaction that is not too old and whose sequence number
\* is not taken by one in the mempool; amounts that are no u64 do not encode.
Admissible(t) ==
    /\ t.seq >= chainSeq
    /\ \A other \in mempool : other.seq # t.seq
    /\ \A u \in DOMAIN t.batch : t.batch[u] \in U64

Batched == DOMAIN flush.batch
Txn == [seq |-> flush.seq, batch |-> flush.batch]

FlushSubmit ==
    /\ flush.pc = "submit"
    /\ \/ /\ Admissible(Txn)
          /\ mempool' = mempool \cup {Txn}
          /\ handed' = [u \in Users |->
                IF u \in Batched THEN Capped(handed[u] + flush.batch[u]) ELSE handed[u]]
          /\ \E answer \in {TRUE} \cup (IF "lost_answer" \in Faults THEN {FALSE} ELSE {}) :
                 flush' = [flush EXCEPT !.pc = "answer", !.success = answer]
       \/ /\ ~Admissible(Txn) \/ "net_error" \in Faults
          /\ flush' = [flush EXCEPT !.pc = "answer"]
          /\ UNCHANGED <<mempool, handed>>
    /\ UNCHANGED <<contractVars, cached, acc, price, initialized, lock, req, session, chainSeq, used, charged>>

\* Mutant: the accumulator is not cleared.
MutClearNothing ==
    /\ flush.pc = "answer" /\ flush.success
    /\ flush' = [FlushOff EXCEPT !.pc = "sleep"]
    /\ lock' = "free"
    /\ UNCHANGED <<contractVars, cached, acc, price, initialized, req, session, chainVars, used, charged>>

FlushClear ==
    /\ flush.pc = "answer" /\ flush.success
    /\ acc' = [u \in Users |-> IF u \in Batched THEN 0 ELSE acc[u]]
    /\ cached' = [u \in DOMAIN cached |->
                    IF u \in Batched
                    THEN Positive(cached[u] - CoinsFor(flush.batch[u], price))
                    ELSE cached[u]]
    /\ flush' = [FlushOff EXCEPT !.pc = "sleep"]
    /\ lock' = "free"
    /\ UNCHANGED <<contractVars, price, initialized, req, session, chainVars, used, charged>>

\* Mutant: the failed flush returns without giving the lock back.
MutKeepLock ==
    /\ flush.pc = "answer" /\ ~flush.success
    /\ flush' = [FlushOff EXCEPT !.pc = "sleep"]
    /\ UNCHANGED <<contractVars, cached, acc, price, initialized, lock, req, session, chainVars, used, charged>>

\* "keeping ... tokens in accumulator for retry"
FlushKeep ==
    /\ flush.pc = "answer" /\ ~flush.success
    /\ flush' = [FlushOff EXCEPT !.pc = "sleep"]
    /\ lock' = "free"
    /\ UNCHANGED <<contractVars, cached, acc, price, initialized, req, session, chainVars, used, charged>>

\* stop() cancels the task at the await it is in; `async with' frees the lock.
\* initialize() never starts the task again, as _initialized stays True.
Stop ==
    /\ "stop" \in Faults
    /\ flush.pc # "off"
    /\ flush' = FlushOff
    /\ lock' = IF lock = "flush" THEN "free" ELSE lock
    /\ UNCHANGED <<contractVars, cached, acc, price, initialized, req, session, chainVars, used, charged>>

Restart ==
    /\ "restart" \in Faults
    /\ cached' = NoBatch
    /\ acc' = [u \in Users |-> 0]
    /\ price' = DefaultPrice
    /\ initialized' = FALSE
    /\ lock' = "free"
    /\ flush' = FlushOff
    /\ req' = [r \in Requests |-> RequestIdle]
    /\ session' = [s \in Sessions |-> SessionIdle]
    /\ UNCHANGED <<contractVars, chainVars, used, charged>>

-----------------------------------------------------------------------------
(* The chain (external).                                                    *)

\* Executing the next admin transaction makes older ones in the mempool stale.
AdvanceChain ==
    /\ chainSeq < MaxSeq
    /\ chainSeq' = chainSeq + 1
    /\ mempool' = {t \in mempool : t.seq > chainSeq}

\* batch_deduct in some order of the dict's users (the contract's result does
\* not depend on it); an aborted transaction only uses up its number.
Execute(t) ==
    /\ t.seq = chainSeq
    /\ AdvanceChain
    /\ \E users \in Vectors(Users) :
        /\ IsInjective(users) /\ {users[i] : i \in DOMAIN users} = DOMAIN t.batch
        /\ LET tokens == [i \in DOMAIN users |-> t.batch[users[i]]]
               end == DeductResult(balances[Contract], taken[Contract],
                                   tokenPrice[Contract], users, tokens)
           IN  \/ /\ BatchDeduct(Contract, users, tokens)
                  /\ charged' = [u \in Users |->
                        IF u \in DOMAIN t.batch /\ taken'[Contract][u] > taken[Contract][u]
                        THEN charged[u] + t.batch[u] ELSE charged[u]]
               \/ ~end.alive /\ UNCHANGED <<contractVars, charged>>
    /\ UNCHANGED <<managerVars, req, session, handed, used>>

Drop(t) ==
    /\ "drop" \in Faults
    /\ mempool' = mempool \ {t}
    /\ UNCHANGED <<contractVars, managerVars, req, session, chainSeq, handed, used, charged>>

AdminSetsPrice(p) ==
    /\ chainSeq < PriceChanges
    /\ SetTokenPrice(Contract, p)
    /\ AdvanceChain
    /\ UNCHANGED <<managerVars, req, session, handed, used, charged>>

UserDeposits(u, amount) ==
    /\ Deposit(u, amount)
    /\ UNCHANGED <<managerVars, req, session, chainVars, used, charged>>

-----------------------------------------------------------------------------
RequestStep(r) ==
    InitializeSkip(r) \/ InitializeLock(r) \/ InitializeDone(r) \/ RefreshFetch(r) \/ RefreshStore(r)
FlushStep == FlushStart \/ FlushReadSequence \/ FlushSubmit \/ FlushClear \/ FlushKeep
SessionStep(s) ==
    \/ StartLLMCall(s)
    \/ \E n \in CallTokens : AddTokens(s, n) \/ AddTokensRead(s, n) \/ LLMCallRaises(s, n)
    \/ AddTokensWrite(s)
ChainStep ==
    \/ \E t \in mempool : Execute(t) \/ Drop(t)
    \/ \E p \in Prices : AdminSetsPrice(p)
    \/ \E u \in Users, amount \in Amounts : UserDeposits(u, amount)

BillingNext ==
    \/ \E r \in Requests :
        RequestStep(r) \/ \E force \in BOOLEAN : BalanceRequest(r, force)
    \/ \E s \in Sessions : SessionStep(s)
    \/ FlushStep
    \/ Stop
    \/ Restart
    \/ ChainStep

BillingSpec == BillingInit /\ [][BillingNext]_billingVars

\* Coroutines that can run do (every HTTP call has a timeout), and the node
\* executes what its mempool holds.
BillingFairness ==
    /\ WF_billingVars(FlushStep)
    /\ \A r \in Requests : WF_billingVars(RequestStep(r))
    /\ WF_billingVars(\E t \in mempool : Execute(t))

BillingLiveSpec == BillingSpec /\ BillingFairness
-----------------------------------------------------------------------------
\* A dict from users to amounts.
IsDict(f) == DOMAIN f \subseteq Users /\ f \in [DOMAIN f -> Nat]

ServerTypeOK ==
    /\ IsDict(cached)
    /\ acc \in [Users -> Nat]
    /\ price \in U64
    /\ initialized \in BOOLEAN
    /\ lock \in {"free", "flush"} \cup Requests
    /\ IsDict(flush.batch)
    /\ flush \in [pc : {"off", "sleep", "sequence", "submit", "answer"},
                  batch : {flush.batch}, seq : Nat, success : BOOLEAN]
    /\ req \in [Requests -> [pc : {"idle", "initialize", "price", "fetch", "store"},
                             force : BOOLEAN, value : Nat]]
    /\ session \in [Sessions -> [pc : {"idle", "calling", "adding"}, current : Nat, tokens : Nat]]

ChainTypeOK ==
    /\ chainSeq \in Nat
    /\ \A t \in mempool : IsDict(t.batch) /\ t \in [seq : Nat, batch : {t.batch}]
    /\ handed \in [Users -> Nat]
    /\ used \in [Users -> Nat]
    /\ charged \in [Users -> Nat]

\* Every variable has the values the code can give it; no dict or counter goes
\* negative, although _balances is reduced by a locally computed amount.
BillingTypeOK == ContractTypeOK /\ ServerTypeOK /\ ChainTypeOK

\* No user is ever charged on chain for more tokens than the LLM calls made on
\* their behalf consumed, although a failed flush is retried with the same
\* tokens, the sequence number may be misread, transactions expire and the
\* server restarts.
NoOvercharge == \A u \in Users : charged[u] <= used[u]

\* The flush never has two deductions under way: a second batch sent before the
\* first is executed carries the same sequence number and is refused.
OneDeductionPending == \A t1, t2 \in mempool : t1 = t2

\* The docstring of get_accumulated_tokens says the accumulator holds the
\* "tokens not yet deducted on-chain": usage is in it until the node was handed
\* a deduction for it.
NoUsageForgotten == \A u \in Users : used[u] <= handed[u] + acc[u]

\* A flush that took the lock gives it back, whatever the node answers, so
\* initialize() and the next flush cannot wait forever.
FlushReleasesLock == lock = "flush" ~> lock # "flush"

\* A million tokens, worth a coin at any price but 0, do not stay in the
\* accumulator: a flush refused because an earlier deduction is pending is
\* retried until one is accepted or the manager is stopped.
UsageIsFlushed ==
    \A u \in Users : (initialized /\ price > 0 /\ acc[u] >= Million)
                       ~> (acc[u] < Million \/ flush.pc = "off")
=============================================================================
