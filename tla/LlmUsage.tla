------------------------------ MODULE LlmUsage ------------------------------
(* The calls to the models and the books about them: the registry makes one  *)
(* client per service, a call is retried, its tokens and its cost are added  *)
(* to the metrics of the service, the metrics are saved and restored with    *)
(* the conversation, and the controller bills the user by the difference it  *)
(* sees in the metrics of agent.llm.  With a router, agent.llm is the router *)
(* and the clients it chooses between keep the books.                        *)
EXTENDS Naturals, FiniteSets
CONSTANTS MaxAttempts,     \* num_retries
          MaxLlmCalls,     \* bound: calls
          MaxSessions      \* bound: starts of the conversation

ASSUME AttemptsAssumption == MaxAttempts \in Nat \ {0}

VARIABLES
    routed,        \* the agent is configured with a router
    kept,          \* metrics of the registered services, service_to_metrics
    restored,      \* restored_metrics
    statsFile,     \* the saved metrics
    priced,        \* cost_metric_supported of each client
    call,          \* the call under way, or NoCall
    tooLong,       \* the router's max_token_exceeded
    verdict,       \* what the controller made of the last call
    used,          \* history: tokens of the answers that were returned, per service
    forgotten,     \* history: tokens recorded and not saved when the server stopped
    owed, billed,  \* history: tokens of returned steps; tokens given to the balance manager
    llmCalls, sessions
usageVars == <<routed, kept, restored, statsFile, priced, call, tooLong, verdict, used, forgotten,
               owed, billed, llmCalls, sessions>>
bookVars == <<kept, restored, statsFile, priced, used, forgotten, owed, billed>>

LlmServices == {"agent", "secondary", "title"}
NoMetrics == [tokens |-> 0, cost |-> 0, there |-> FALSE]
EmptyMetrics == [tokens |-> 0, cost |-> 0, there |-> TRUE]
NoCall == [service |-> "none", attempt |-> 0, warm |-> FALSE, asStep |-> FALSE]
Zero == [s \in LlmServices |-> 0]
NoUsage == [s \in LlmServices |-> NoMetrics]

UsageInit ==
    /\ routed \in BOOLEAN /\ kept = NoUsage /\ restored = NoUsage /\ statsFile = NoUsage
    /\ priced = [s \in LlmServices |-> TRUE] /\ call = NoCall /\ tooLong = FALSE /\ verdict = "none"
    /\ used = Zero /\ forgotten = Zero /\ owed = 0 /\ billed = 0 /\ llmCalls = 0 /\ sessions = 0

\* register_llm: a client takes over what was restored for its service.
Taken(s, old) == IF old[s].there THEN old[s] ELSE EmptyMetrics
Registered(S, k, old) == [s \in LlmServices |-> IF s \in S THEN Taken(s, old) ELSE k[s]]
Left(S, old) == [s \in LlmServices |-> IF s \in S THEN NoMetrics ELSE old[s]]

\* A session: the metrics are restored, the clients of the agent made.
SessionBegins ==
    LET S == IF routed THEN {"agent", "secondary"} ELSE {"agent"}
    IN  /\ kept = NoUsage /\ sessions < MaxSessions /\ sessions' = sessions + 1
        /\ kept' = Registered(S, NoUsage, statsFile) /\ restored' = Left(S, statsFile)
        /\ priced' = [s \in LlmServices |-> TRUE] /\ tooLong' = FALSE
        /\ UNCHANGED <<routed, statsFile, call, verdict, used, forgotten, owed, billed, llmCalls>>

\* A service of its own is made when it is first asked for.
MakesClient ==
    /\ kept["agent"].there /\ ~kept["title"].there
    /\ kept' = Registered({"title"}, kept, restored) /\ restored' = Left({"title"}, restored)
    /\ UNCHANGED <<routed, statsFile, priced, call, tooLong, verdict, used, forgotten, owed, billed,
                   llmCalls, sessions>>

\* A step of the agent asks the client, or the one the router selects: the primary
\* for an image, and for good once a prompt was too long for the secondary.
Asks(s, step) ==
    /\ call = NoCall /\ kept[s].there /\ llmCalls < MaxLlmCalls /\ llmCalls' = llmCalls + 1
    /\ call' = [service |-> s, attempt |-> 1, warm |-> FALSE, asStep |-> step]
    /\ UNCHANGED <<routed, bookVars, verdict, sessions>>
StepAsks ==
    \/ ~routed /\ Asks("agent", TRUE) /\ UNCHANGED tooLong
    \/ /\ routed /\ \E image, long \in BOOLEAN :
            /\ tooLong' = (tooLong \/ long)
            /\ Asks(IF image \/ tooLong' THEN "agent" ELSE "secondary", TRUE)
TitleAsks == Asks("title", FALSE) /\ UNCHANGED tooLong

Finishes(v) == call' = NoCall /\ verdict' = v
\* The retry decorator: the next attempt, or the last exception is raised.  It is a
\* new exception that carries no retry count: a rate limit then counts as still
\* being retried.
AttemptFails(kind) ==
    /\ call # NoCall
    /\ \/ /\ call.attempt < MaxAttempts /\ UNCHANGED verdict
          /\ call' = [call EXCEPT !.attempt = @ + 1, !.warm = @ \/ kind = "empty"]
       \/ /\ call.attempt = MaxAttempts \/ kind = "shutdown"
          /\ Finishes(IF kind = "rate" THEN "RATE_LIMITED" ELSE "ERROR")
    /\ UNCHANGED <<routed, bookVars, tooLong, llmCalls, sessions>>
\* What is not retried: any other error, and an answer that cannot be converted.
AttemptRaises ==
    /\ call # NoCall /\ Finishes("ERROR")
    /\ UNCHANGED <<routed, bookVars, tooLong, llmCalls, sessions>>

\* _post_completion: the tokens, and the cost unless it could not be computed, now
\* or once before.
CostKnown(s, known) == priced[s] /\ known
Recorded(s, n, known) ==
    [kept EXCEPT ![s].tokens = @ + n, ![s].cost = IF CostKnown(s, known) THEN @ + n ELSE @]
\* The controller bills what the metrics of agent.llm grew by.
Bill(s, n) == IF call.asStep /\ ~routed THEN n ELSE 0
Answers ==
    /\ call # NoCall
    /\ \E n \in 1..2, known \in BOOLEAN :
        /\ kept' = Recorded(call.service, n, known)
        /\ priced' = [priced EXCEPT ![call.service] = CostKnown(call.service, known)]
        /\ used' = [used EXCEPT ![call.service] = @ + n]
        /\ owed' = (IF call.asStep THEN owed + n ELSE owed)
        /\ billed' = billed + Bill(call.service, n)
    /\ Finishes("ok")
    /\ UNCHANGED <<routed, restored, statsFile, forgotten, tooLong, llmCalls, sessions>>

MutSavesMetrics ==
    /\ kept["agent"].there /\ statsFile' = kept
    /\ UNCHANGED <<routed, kept, restored, priced, used, forgotten, owed, billed, call, tooLong,
                   verdict, llmCalls, sessions>>

\* save_metrics: what was restored, overwritten by what is registered.
SavesMetrics ==
    /\ kept["agent"].there
    /\ statsFile' = [s \in LlmServices |-> IF kept[s].there THEN kept[s] ELSE restored[s]]
    /\ UNCHANGED <<routed, kept, restored, priced, used, forgotten, owed, billed, call, tooLong,
                   verdict, llmCalls, sessions>>

ServerStops ==
    /\ kept # NoUsage /\ kept' = NoUsage /\ restored' = NoUsage /\ call' = NoCall
    /\ forgotten' = [s \in LlmServices |->
            IF kept[s].there THEN forgotten[s] + kept[s].tokens - statsFile[s].tokens ELSE forgotten[s]]
    /\ UNCHANGED <<routed, statsFile, priced, tooLong, verdict, used, owed, billed, llmCalls, sessions>>

UsageNext ==
    \/ SessionBegins \/ MakesClient \/ StepAsks \/ TitleAsks \/ Answers \/ AttemptRaises
    \/ \E kind \in {"rate", "empty", "shutdown"} : AttemptFails(kind)
    \/ SavesMetrics \/ ServerStops

UsageSpec == UsageInit /\ [][UsageNext]_usageVars

-----------------------------------------------------------------------------
\* What the conversation has on record for a service, registered or not.
OnRecord(s) == IF kept["agent"].there THEN IF kept[s].there THEN kept[s] ELSE restored[s]
                                      ELSE statsFile[s]

\* "Combine both restored metrics and service metrics to avoid data loss": over any
\* number of sessions, retries and services that are made late or never again, the
\* tokens on record are those of the answers that were returned, each once, but for
\* what was not saved when a server stopped; the cost never exceeds them.
NothingCountedTwice ==
    \A s \in LlmServices : /\ OnRecord(s).tokens + forgotten[s] = used[s]
                           /\ OnRecord(s).cost <= OnRecord(s).tokens

\* A user is billed the tokens of every step that returned, unless a router is in
\* use: its own metrics, which the controller reads, never grow.
StepsBilled == IF routed THEN billed = 0 ELSE billed = owed

\* The books of the models and of the user agree.
UsageBooks == NothingCountedTwice /\ StepsBilled
=============================================================================
