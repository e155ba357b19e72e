------------------------ MODULE NestedConversations ------------------------
(* DockerNestedConversationManager: every conversation has a server of its   *)
(* own in a container; the manager starts, limits and stops the containers   *)
(* and hands a new server its settings and its conversation.  The manager    *)
(* keeps no table but the conversations it is starting: what runs is what    *)
(* Docker says.                                                              *)
EXTENDS Integers, Sequences, FiniteSets, SequencesExt
CONSTANTS
    NestedConvs,       \* conversations
    NestedRequests,    \* requests that start one
    MaxNested,         \* max_concurrent_conversations
    MaxNestedFaults    \* failing calls and dying containers (bound)

ASSUME MaxNestedAssumption == MaxNested \in Nat \ {0} /\ IsFiniteSet(NestedConvs)

VARIABLES
    nestedBoxes,   \* conversation -> its container: state, generation, conversation created in it
    nestedAsk,     \* request -> what it does, and for which conversation
    startingIds,   \* _starting_conversation_ids
    nestedTasks,   \* the background tasks of _start_conversation
    recency,       \* conversation -> its place, the least recently updated first
    nestedFaults,  \* faults so far
    spoiled        \* conversations whose start failed, met another one or was a restart
nestedVars == <<nestedBoxes, nestedAsk, startingIds, nestedTasks, recency, nestedFaults, spoiled>>

NoNest == [state |-> "none", gen |-> 0, served |-> FALSE]
NestedIdle == [at |-> "idle", sid |-> 0, victims |-> <<>>, alone |-> TRUE]
Posts == <<"alive", "settings", "tokens", "secrets", "conversation">>

NestedInit ==
    /\ nestedBoxes = [s \in NestedConvs |-> NoNest]
    /\ nestedAsk = [p \in NestedRequests |-> NestedIdle]
    /\ startingIds = {} /\ nestedTasks = {} /\ recency \in {f \in [NestedConvs -> 1..Cardinality(NestedConvs)] : IsInjective(f)}
    /\ nestedFaults = 0 /\ spoiled = {}

\* get_running_agent_loops: the containers Docker lists.
Boxed == {s \in NestedConvs : nestedBoxes[s].state = "running"}
Move(p, at) == nestedAsk' = [nestedAsk EXCEPT ![p].at = at]
NestedFault == nestedFaults < MaxNestedFaults /\ nestedFaults' = nestedFaults + 1
\* Another request or task is at work on s.
Met(p, s) == (\E q \in NestedRequests \ {p} : nestedAsk[q].sid = s /\ nestedAsk[q].at \notin {"idle", "done"})
             \/ (\E k \in nestedTasks : k.sid = s)
\* Another start is between its check of the limit and its container.
Others(p) == \E q \in NestedRequests \ {p} : nestedAsk[q].at \in {"evict", "build", "init"}

-----------------------------------------------------------------------------
(* maybe_start_agent_loop *)

\* From the look-up to the limit nothing is awaited; the conversations to close are
\* chosen then, all of them, whoever else starts or stops one meanwhile.
NotAfter(s) == {t \in Boxed : recency[t] <= recency[s]}
Victims == [i \in 1..(Cardinality(Boxed) - MaxNested + 1) |-> CHOOSE s \in Boxed : Cardinality(NotAfter(s)) = i]
NestedStart(p, s) ==
    /\ nestedAsk[p].at = "idle"
    /\ IF s \in Boxed
       THEN /\ nestedAsk' = [nestedAsk EXCEPT ![p] = [NestedIdle EXCEPT !.at = "answer", !.sid = s]]
            /\ UNCHANGED <<startingIds, spoiled>>
       ELSE LET full == Cardinality(Boxed) >= MaxNested IN
            /\ nestedAsk' = [nestedAsk EXCEPT ![p] =
                   [at |-> IF full THEN "evict" ELSE "build", sid |-> s, alone |-> ~Others(p),
                    victims |-> IF full THEN Victims ELSE <<>>]]
            /\ startingIds' = (IF full THEN startingIds ELSE startingIds \union {s})
            /\ spoiled' = (IF Met(p, s) THEN spoiled \union {s} ELSE spoiled)
    /\ UNCHANGED <<nestedBoxes, nestedTasks, recency, nestedFaults>>
\* close_session: the graceful stop posts to an address that names the conversation
\* twice and is refused; the container is stopped in any case.  It stays, exited.
BoxStopped(s) == IF nestedBoxes[s].state = "none" THEN nestedBoxes ELSE [nestedBoxes EXCEPT ![s].state = "exited", ![s].served = FALSE]
Evicts(p) ==
    /\ nestedAsk[p].at = "evict" /\ nestedAsk[p].victims # <<>>
    /\ nestedBoxes' = BoxStopped(Head(nestedAsk[p].victims))
    /\ nestedAsk' = [nestedAsk EXCEPT ![p].victims = Tail(@)]
    /\ UNCHANGED <<startingIds, nestedTasks, recency, nestedFaults, spoiled>>
Evicted(p) ==
    /\ nestedAsk[p].at = "evict" /\ nestedAsk[p].victims = <<>> /\ Move(p, "build")
    /\ startingIds' = startingIds \union {nestedAsk[p].sid}
    /\ UNCHANGED <<nestedBoxes, nestedTasks, recency, nestedFaults, spoiled>>
\* The image is there: an exited container is started again, and nothing is posted to
\* its server; a running one is another request's.
ExistingBox(p) ==
    LET s == nestedAsk[p].sid IN
    /\ nestedAsk[p].at = "build" /\ nestedBoxes[s].state # "none"
    /\ nestedBoxes' = [nestedBoxes EXCEPT ![s].state = "running"]
    /\ spoiled' = spoiled \union {s} /\ startingIds' = startingIds \ {s} /\ Move(p, "answer")
    /\ UNCHANGED <<nestedTasks, recency, nestedFaults>>
NoExistingBox(p) ==
    /\ nestedAsk[p].at = "build" /\ nestedBoxes[nestedAsk[p].sid].state = "none" /\ Move(p, "init")
    /\ UNCHANGED <<nestedBoxes, startingIds, nestedTasks, recency, nestedFaults, spoiled>>
\* init_container: a name that is taken meanwhile is cleared and taken over.
InitsBox(p) ==
    LET s == nestedAsk[p].sid
        gen == IF nestedBoxes[s].gen = 1 THEN 2 ELSE 1 IN
    /\ nestedAsk[p].at = "init"
    /\ nestedBoxes' = [nestedBoxes EXCEPT ![s] = [state |-> "running", gen |-> gen, served |-> FALSE]]
    /\ nestedTasks' = nestedTasks \union {[by |-> p, sid |-> s, gen |-> gen, step |-> 1]}
    /\ spoiled' = (IF nestedBoxes[s].state # "none" THEN spoiled \union {s} ELSE spoiled)
    /\ Move(p, "answer")
    /\ UNCHANGED <<startingIds, recency, nestedFaults>>
MutStartRaises(p) ==
    /\ nestedAsk[p].at \in {"build", "init"} /\ NestedFault /\ Move(p, "done")
    /\ UNCHANGED <<nestedBoxes, startingIds, nestedTasks, recency, spoiled>>
\* The image cannot be built or the container not be made.
StartRaises(p) ==
    /\ nestedAsk[p].at \in {"build", "init"} /\ NestedFault /\ Move(p, "done")
    /\ startingIds' = startingIds \ {nestedAsk[p].sid}
    /\ UNCHANGED <<nestedBoxes, nestedTasks, recency, spoiled>>
\* Where the conversation is served, or an error if its container is gone.
NestedAnswers(p) ==
    /\ nestedAsk[p].at = "answer" /\ Move(p, "done")
    /\ UNCHANGED <<nestedBoxes, startingIds, nestedTasks, recency, nestedFaults, spoiled>>

-----------------------------------------------------------------------------
(* _start_conversation, in the background *)

TaskEnds(k) == nestedTasks' = nestedTasks \ {k} /\ startingIds' = startingIds \ {k.sid}
UpdatedNow(s) ==
    [t \in NestedConvs |-> IF t = s THEN Cardinality(NestedConvs) ELSE IF recency[t] > recency[s] THEN recency[t] - 1 ELSE recency[t]]
\* The server is up and takes its settings, tokens and secrets; the last post creates
\* the conversation.
NestedPost(k) ==
    /\ nestedBoxes[k.sid].state = "running" /\ nestedBoxes[k.sid].gen = k.gen
    /\ IF k.step < Len(Posts)
       THEN nestedTasks' = (nestedTasks \ {k}) \union {[k EXCEPT !.step = @ + 1]} /\ UNCHANGED <<nestedBoxes, startingIds, recency>>
       ELSE /\ TaskEnds(k) /\ nestedBoxes' = [nestedBoxes EXCEPT ![k.sid].served = TRUE]
            /\ recency' = UpdatedNow(k.sid)
    /\ UNCHANGED <<nestedAsk, nestedFaults, spoiled>>
\* The server of k is gone, or a call fails: nothing is tried again.
NestedPostFails(k) ==
    /\ IF nestedBoxes[k.sid].state = "running" /\ nestedBoxes[k.sid].gen = k.gen THEN NestedFault ELSE UNCHANGED nestedFaults
    /\ TaskEnds(k) /\ spoiled' = spoiled \union {k.sid}
    /\ UNCHANGED <<nestedBoxes, nestedAsk, recency>>

-----------------------------------------------------------------------------
CloseNested(s) ==
    /\ nestedBoxes[s].state = "running" /\ nestedBoxes' = BoxStopped(s)
    /\ UNCHANGED <<nestedAsk, startingIds, nestedTasks, recency, nestedFaults, spoiled>>
BoxDies(s) ==
    /\ nestedBoxes[s].state = "running" /\ NestedFault /\ nestedBoxes' = BoxStopped(s)
    /\ UNCHANGED <<nestedAsk, startingIds, nestedTasks, recency, spoiled>>

NestedNext ==
    \/ \E p \in NestedRequests :
         \/ \E s \in NestedConvs : NestedStart(p, s)
         \/ Evicts(p) \/ Evicted(p) \/ ExistingBox(p) \/ NoExistingBox(p) \/ InitsBox(p)
         \/ StartRaises(p) \/ NestedAnswers(p)
    \/ \E k \in nestedTasks : NestedPost(k) \/ NestedPostFails(k)
    \/ \E s \in NestedConvs : CloseNested(s) \/ BoxDies(s)

-----------------------------------------------------------------------------
\* A conversation that is reported as running has been created in its server, unless a
\* start of it failed, met another start of it or was the restart of a container.
RunningMeansServed ==
    \A s \in Boxed \ startingIds : nestedBoxes[s].served \/ s \in spoiled
\* A conversation that is reported as starting is being started by somebody.
StartingMeansAtWork ==
    \A s \in startingIds : (\E k \in nestedTasks : k.sid = s)
                           \/ (\E p \in NestedRequests : nestedAsk[p].sid = s /\ nestedAsk[p].at \in {"build", "init"})
\* More containers than allowed run only if two starts were in progress at once.
NestedWithinLimit ==
    Cardinality(Boxed) > MaxNested => \E p \in NestedRequests : nestedAsk[p].sid \in NestedConvs /\ ~nestedAsk[p].alone
\* The books of the manager and the containers agree.
NestedBooks == RunningMeansServed /\ StartingMeansAtWork /\ NestedWithinLimit
=============================================================================
