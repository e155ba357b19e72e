----------------------------- MODULE Delegation -----------------------------
(* A controller and its delegate on one event stream.  Only the parent is    *)
(* subscribed: it forwards each event to a delegate that is not done, ends a *)
(* delegate that is done at the next event whatever that event is, and else  *)
(* handles the event itself.  After a restart the parent's history is rebuilt *)
(* from the stream, without what lies between a delegation and its result.   *)
(* Confirmations, limits and errors are the subject of AgentController.      *)
EXTENDS Naturals, Sequences, FiniteSets
CONSTANTS MaxDelegateEvents, \* bound: events of the stream
          MaxDelegateUsers,  \* bound: messages of the user
          MaxDelegateRestarts        \* bound: restarts of the server

VARIABLES
    log,           \* the event stream: the type and the cause of each event
    handled,       \* events delivered to the parent's on_event so far
    parentPast, delegatePast, \* state.history of the two: ids
    waiting,       \* _pending_action of the two: an id, or 0
    delegate,      \* "none", "runs", "nested" or "done"
    since,         \* the events before the last restart, which nobody answers any more
    dropped,       \* history: the user messages that ended a delegate
    raced,         \* history: a user message came while something else was under way
    users, restarts
delegationVars == <<log, handled, parentPast, delegatePast, waiting, delegate, since, dropped,
                    raced, users, restarts>>

Uncaused(t) == [t |-> t, c |-> 0]
NotWaiting == [parent |-> 0, delegate |-> 0]

DelegationInit ==
    /\ log = <<Uncaused("sys")>> /\ handled = 0 /\ parentPast = <<>> /\ delegatePast = <<>>
    /\ waiting = NotWaiting /\ delegate = "none" /\ since = 0 /\ dropped = {} /\ raced = FALSE
    /\ users = 0 /\ restarts = 0

\* agent_history_filter: state changes are no part of a history.
Included(h, i) == IF log[i].t = "state" THEN h ELSE Append(h, i)

OpenAsks == {i \in (since + 1)..Len(log) :
            log[i].t \in {"act", "recall"} /\ \A j \in DOMAIN log : log[j].c # i}
Delegated == \E i \in DOMAIN log : log[i].t = "dact" /\ \A j \in i..Len(log) : log[j].t # "dobs"
StreamRoom == Len(log) < MaxDelegateEvents
UserWrites ==
    /\ users < MaxDelegateUsers /\ users' = users + 1 /\ StreamRoom
    /\ log' = Append(log, Uncaused("user"))
    /\ raced' = (raced \/ Delegated \/ handled < Len(log) \/ OpenAsks # {})
    /\ UNCHANGED <<handled, parentPast, delegatePast, waiting, delegate, since, dropped, restarts>>

\* The runtime and the memory answer actions and recalls, each in its order.
AnswersAsked ==
    /\ \E i \in OpenAsks :
        /\ \A j \in OpenAsks : j < i => log[j].t # log[i].t
        /\ log' = Append(log, [t |-> "obs", c |-> i])
    /\ UNCHANGED <<handled, parentPast, delegatePast, waiting, delegate, since, dropped, raced,
                   users, restarts>>

Delivered == log[handled + 1]
Pops == handled < Len(log) /\ handled' = handled + 1

\* A message of the user asks for a recall; the answer to the pending action clears
\* it; an observation is followed by a step if nothing is pending.
RecallFor(who) == /\ log' = Append(log, Uncaused("recall"))
               /\ waiting' = [waiting EXCEPT ![who] = Len(log) + 1]
Cleared(who) == IF Delivered.t = "obs" /\ Delivered.c = waiting[who] THEN [waiting EXCEPT ![who] = 0] ELSE waiting
StepsNow(who) == Delivered.t \in {"obs", "dobs"} /\ Cleared(who)[who] = 0
ActsFor(who) == /\ log' = Append(log, Uncaused("act"))
             /\ waiting' = [Cleared(who) EXCEPT ![who] = Len(log) + 1]
SaysFor(who, e) == log' = Append(log, Uncaused(e)) /\ waiting' = Cleared(who)
RestsFor(who) == UNCHANGED log /\ waiting' = Cleared(who)

\* The parent handles an event and steps: an action, a message, or a delegation.
ParentHandles ==
    /\ Pops /\ delegate = "none" /\ Delivered.t # "dact"
    /\ parentPast' = Included(parentPast, handled + 1)
    /\ IF Delivered.t \in {"user", "task"} THEN RecallFor("parent")
       ELSE IF StepsNow("parent") /\ StreamRoom
       THEN ActsFor("parent") \/ \E e \in {"msg", "dact"} : SaysFor("parent", e)
       ELSE RestsFor("parent")
    /\ UNCHANGED <<delegatePast, delegate, since, dropped, raced, users, restarts>>

\* start_delegate: the delegate's system message, the task as a message of the
\* user, and its state RUNNING.
StartsDelegate ==
    /\ Pops /\ delegate = "none" /\ Delivered.t = "dact"
    /\ parentPast' = Append(parentPast, handled + 1)
    /\ delegate' = "runs" /\ delegatePast' = <<>> /\ waiting' = [waiting EXCEPT !.delegate = 0]
    /\ log' = log \o <<Uncaused("sys"), Uncaused("task"), Uncaused("state")>>
    /\ UNCHANGED <<since, dropped, raced, users, restarts>>

\* The delegate steps on what it is given; finishing, or an exception, changes its
\* state, which is the event that normally ends it.  A delegation by the delegate
\* makes it wait for an agent to which nobody forwards an event.
DelegateHandles ==
    /\ Pops /\ delegate \in {"runs", "nested"} /\ delegatePast' = Included(delegatePast, handled + 1)
    /\ IF Delivered.t \in {"user", "task"} THEN RecallFor("delegate") /\ UNCHANGED delegate
       ELSE IF Delivered.t = "dact"
       THEN /\ log' = log \o <<Uncaused("sys"), Uncaused("task"), Uncaused("state")>>
            /\ delegate' = "nested" /\ UNCHANGED waiting
       ELSE IF Delivered.t = "fin" THEN SaysFor("delegate", "state") /\ delegate' = "done"
       ELSE IF StepsNow("delegate") /\ delegate = "runs"
       THEN \/ StreamRoom /\ ActsFor("delegate") /\ UNCHANGED delegate
            \/ SaysFor("delegate", "fin") /\ UNCHANGED delegate
            \/ SaysFor("delegate", "state") /\ delegate' = "done"
       ELSE RestsFor("delegate") /\ UNCHANGED delegate
    /\ UNCHANGED <<parentPast, since, dropped, raced, users, restarts>>

\* end_delegate: the delegate is closed (its state changes) and its result
\* published; the event that led here is handled by nobody.
EndsDelegate ==
    /\ Pops /\ delegate = "done" /\ delegate' = "none"
    /\ log' = log \o <<Uncaused("state"), Uncaused("dobs")>>
    /\ dropped' = IF Delivered.t = "user" THEN dropped \cup {handled + 1} ELSE dropped
    /\ UNCHANGED <<parentPast, delegatePast, waiting, since, raced, users, restarts>>

-----------------------------------------------------------------------------
(* _init_history *)

MutKept == {i \in DOMAIN log : log[i].t \notin {"state", "recall"}}
Kept == {i \in DOMAIN log : log[i].t # "state"}
\* A result is matched with the most recent delegation that has none yet.
Unmatched(i) ==
    {d \in 1..(i - 1) : log[d].t = "dact" /\ \A j \in (d + 1)..(i - 1) : log[j].t # "dobs"}
Newest(S) == CHOOSE d \in S : \A e \in S : e <= d
Ranges == {<<Newest(Unmatched(i)), i>> : i \in {j \in DOMAIN log : log[j].t = "dobs" /\ Unmatched(j) # {}}}
Rebuilt ==
    LET keep == {i \in Kept : \A r \in Ranges : ~(r[1] < i /\ i < r[2])}
    IN  SelectSeq([i \in 1..Len(log) |-> i], LAMBDA i : i \in keep)

\* The server restarts: the delegate is forgotten, what was not yet delivered is
\* in the history, and nothing is pending.
Restarts ==
    /\ restarts < MaxDelegateRestarts /\ restarts' = restarts + 1
    /\ parentPast' = Rebuilt /\ handled' = Len(log) /\ delegate' = "none" /\ delegatePast' = <<>>
    /\ waiting' = NotWaiting /\ since' = Len(log)
    /\ UNCHANGED <<log, dropped, raced, users>>

DelegationNext ==
    \/ UserWrites \/ AnswersAsked \/ ParentHandles \/ StartsDelegate \/ DelegateHandles
    \/ EndsDelegate \/ Restarts

DelegationSpec == DelegationInit /\ [][DelegationNext]_delegationVars

-----------------------------------------------------------------------------
RangeOf(h) == {h[i] : i \in DOMAIN h}
Given == RangeOf(parentPast) \cup RangeOf(delegatePast)

\* A message the user wrote reaches the agent that is at work: one that was
\* delivered and is in no history ended a delegate, or was given to an earlier one.
MessageReaches ==
    \A i \in 1..handled : log[i].t = "user" /\ i \notin Given \cup dropped =>
        \E d, o \in DOMAIN log : d < i /\ i < o /\ log[d].t = "dact" /\ log[o].t = "dobs"

\* "Excludes all events between the action and observation": when no delegate is
\* at work and everything is delivered, the history a restart would rebuild is the
\* one the parent has, unless the user wrote while an action or a delegation was
\* open.  That a restart in the middle of a delegation puts the delegate's events
\* into the parent's history is part of both.
RebuiltAsLived == delegate = "none" /\ handled = Len(log) /\ ~raced => Rebuilt = parentPast

\* What the two agents are given, live and after a restart.
DelegationKept == MessageReaches /\ RebuiltAsLived
=============================================================================
