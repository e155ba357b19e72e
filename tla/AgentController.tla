--------------------------- MODULE AgentController ---------------------------
(***************************************************************************)
(* The agent's control loop: openhands/controller/agent_controller.py with *)
(* its state tracker and control flags, between the user, the runtime that *)
(* executes actions and the memory that answers recalls.                   *)
(*                                                                         *)
(* They talk through the event stream only.  The stream is taken as one    *)
(* queue per subscriber that keeps the order in which events are added     *)
(* (module EventStream says what is behind that); an event's id is the     *)
(* order of adding.  Events that no subscriber here reacts to, such as     *)
(* AgentStateChangedObservation, are left out.  The controller handles one *)
(* event after the other in its own thread; only the status errors that    *)
(* the session's thread passes on reach into it from outside.              *)
(*                                                                         *)
(* A tool call is a number; 0 stands for an event that has none.           *)
(***************************************************************************)
EXTENDS Naturals, Sequences, FiniteSets

CONSTANTS
  Delta,             \* iteration_delta
  BudgetDelta,       \* budget_per_task_delta, in LLM calls; 0 for no budget
  Headless,          \* headless_mode
  ConfirmationMode,  \* confirmation_mode
  MaxUserEvents,     \* bound: what the user does
  Faults             \* of "llm_error", "context", "stuck", "no_balance",
                     \* "run_error", "memory_error"

ASSUME ControllerAssumption ==
  /\ Delta \in Nat \ {0}
  /\ BudgetDelta \in Nat
  /\ Headless \in BOOLEAN
  /\ ConfirmationMode \in BOOLEAN
  /\ MaxUserEvents \in Nat

VARIABLES
  ctl,       \* the controller: agent_state, _pending_action, the control flags
  pc,        \* its thread: "ready", "stepping" (about to _step), "thinking" (in agent.step)
  answered,  \* the tool calls (0: none) of the observations in state.history
  inbox,     \* the controller's queue
  runq,      \* the runtime's queue: the agent's actions
  memq,      \* the memory's queue: recall actions
  reports,   \* status errors on their way to the session's thread
  nextId,    \* the stream's cur_id
  users,     \* history: events added by the user
  calls,     \* history: calls of agent.step, which is also the cost they add up to
  ran,       \* history: what the runtime executed, as [call, id]
  approved,  \* history: confirmations applied, as [call, asked, by]
  raced,     \* history: a status error came while agent.step was running
  unserved   \* history: a message was handled and agent.step was not called since,
             \* nor did the user steer the agent or an error stop it

queues == <<inbox, runq, memq, nextId>>  \* what add_event changes
history == <<users, calls, ran, approved, raced, unserved>>
vars == <<ctl, pc, answered, reports, queues, history>>

-----------------------------------------------------------------------------
(* Values *)

AgentState == {"loading", "running", "awaiting_user_input", "paused", "stopped",
  "finished", "rejected", "error", "awaiting_user_confirmation",
  "user_confirmed", "user_rejected", "rate_limited"}

\* Every event has the same fields; info is a confirmation state, an agent
\* state to change to, or whether a message waits for the user.
Event(type, call, cause, info) ==
  [type |-> type, id |-> nextId, call |-> call, cause |-> cause, info |-> info]

\* The pending action, with the id it was first added under.
NoAction == [type |-> "none", id |-> 0, call |-> 0, awaiting |-> FALSE, asked |-> 0]
Pending(type, call, awaiting) ==
  [type |-> type, id |-> nextId, call |-> call, awaiting |-> awaiting, asked |-> nextId]
NoEvent == <<>>

\* add_event: everyone subscribed gets it.  A handler adds at most one event.
OfType(out, type) == IF out # NoEvent /\ Head(out).type = type THEN out ELSE NoEvent

Emit(rest, out) ==
  /\ inbox' = rest \o out
  /\ runq' = runq \o OfType(out, "act")
  /\ memq' = memq \o OfType(out, "recall")
  /\ nextId' = nextId + Len(out)

-----------------------------------------------------------------------------
(* The control flags *)

IncreaseIterations(c) ==
  IF ~Headless /\ c.hitIter
  THEN [c EXCEPT !.maxIter = @ + Delta, !.hitIter = FALSE] ELSE c

IncreaseBudget(c) ==
  IF BudgetDelta > 0 /\ c.hitCost
  THEN [c EXCEPT !.maxCost = calls + BudgetDelta, !.hitCost = FALSE] ELSE c

\* maybe_increase_control_flags_limits
IncreaseLimits(c) == IncreaseBudget(IncreaseIterations(c))

\* run_control_flags: the iteration flag counts before the budget flag looks.
MutOneMore(c) == c.iter > c.maxIter

IterationsOver(c) == c.iter >= c.maxIter

BudgetOver == BudgetDelta > 0 /\ calls >= ctl.maxCost

-----------------------------------------------------------------------------
(* set_agent_state_to *)

\* _reset: a pending action gets an error observation unless history holds an
\* observation with its tool call metadata.
ResetOut(c) ==
  IF c.pending # NoAction /\ c.pending.call \notin answered
  THEN <<Event("obs", c.pending.call, c.pending.id, "not_executed")>> ELSE NoEvent

\* The pending action is added to the stream a second time, with the answer.
MutAnswerConfirmedOnly(c, new) ==
  IF c.pending = NoAction \/ new = "user_rejected" THEN NoEvent
  ELSE <<Event(c.pending.type, c.pending.call, 0, "confirmed")>>

AnswerOut(c, new) ==
  IF c.pending = NoAction THEN NoEvent
  ELSE <<Event(c.pending.type, c.pending.call, 0,
               IF new = "user_confirmed" THEN "confirmed" ELSE "rejected")>>

\* What the call makes of the controller.
MutKeepPending(c, new) ==
  IF new = c.state THEN c
  ELSE IF c.state = "error" /\ new = "running"
  THEN IncreaseLimits([c EXCEPT !.state = new])
  ELSE IF new \in {"user_confirmed", "user_rejected"} /\ c.pending # NoAction
  THEN [c EXCEPT !.state = new, !.pending.id = nextId, !.pending.awaiting = FALSE]
  ELSE [c EXCEPT !.state = new]

SetAgentState(c, new) ==
  IF new = c.state THEN c
  ELSE IF new \in {"stopped", "error"}
  THEN [c EXCEPT !.state = new, !.pending = NoAction]
  ELSE IF c.state = "error" /\ new = "running"
  THEN IncreaseLimits([c EXCEPT !.state = new])
  ELSE IF new \in {"user_confirmed", "user_rejected"} /\ c.pending # NoAction
  THEN [c EXCEPT !.state = new, !.pending.id = nextId, !.pending.awaiting = FALSE]
  ELSE [c EXCEPT !.state = new]

\* What it adds to the stream.
SetAgentStateOut(c, new) ==
  CASE new = c.state -> NoEvent
    [] new \in {"stopped", "error"} /\ new # c.state -> ResetOut(c)
    [] new \in {"user_confirmed", "user_rejected"} /\ new # c.state -> AnswerOut(c, new)
    [] OTHER -> NoEvent

-----------------------------------------------------------------------------
Init ==
  /\ ctl = [state |-> "loading", pending |-> NoAction,
            iter |-> 0, maxIter |-> Delta, hitIter |-> FALSE,
            maxCost |-> BudgetDelta, hitCost |-> FALSE]
  /\ pc = "ready"
  /\ answered = {}
  /\ inbox = <<>>
  /\ runq = <<>>
  /\ memq = <<>>
  /\ reports = 0
  /\ nextId = 1
  /\ users = 0
  /\ calls = 0
  /\ ran = {}
  /\ approved = {}
  /\ raced = FALSE
  /\ unserved = FALSE

-----------------------------------------------------------------------------
(* The user.  The frontend offers confirm and reject while an action awaits  *)
(* them, until one of them is clicked.                                       *)

UserAdds(e) ==
  /\ users < MaxUserEvents
  /\ users' = users + 1
  /\ Emit(inbox, <<e>>)
  /\ UNCHANGED <<ctl, pc, answered, reports, calls, ran, approved, raced, unserved>>

SendMessage == UserAdds(Event("message", 0, 0, "user"))

ChangeState(new) ==
  /\ new \in {"running", "paused", "stopped"}
  /\ UserAdds(Event("change", 0, 0, new))

Confirm(new) ==
  /\ new \in {"user_confirmed", "user_rejected"}
  /\ ctl.state = "awaiting_user_confirmation"
  /\ \A n \in DOMAIN inbox : inbox[n].type # "change"
  /\ UserAdds(Event("change", 0, 0, new))

-----------------------------------------------------------------------------
(* on_event: one event from the stream, then perhaps a step *)

\* What follows the handler: should_step.
Then(steps) == pc' = IF steps THEN "stepping" ELSE "ready"

OnEvent(type) ==
  /\ pc = "ready"
  /\ inbox # <<>>
  /\ Head(inbox).type = type

\* A user message starts a recall, whose observation will let the agent step.
MutRecallNotPending ==
  /\ OnEvent("message")
  /\ ctl' = SetAgentState([ctl EXCEPT !.pending = NoAction], "running")
  /\ Emit(Tail(inbox), <<Event("recall", 0, 0, "none")>>)
  /\ unserved' = TRUE
  /\ Then(TRUE)
  /\ UNCHANGED <<answered, reports, users, calls, ran, approved, raced>>

HandleMessage ==
  /\ OnEvent("message")
  /\ LET c == [ctl EXCEPT !.pending = Pending("recall", 0, FALSE)]
     IN ctl' = SetAgentState(c, "running")
  /\ Emit(Tail(inbox), <<Event("recall", 0, 0, "none")>>)
  /\ unserved' = TRUE
  /\ Then(TRUE)
  /\ UNCHANGED <<answered, reports, users, calls, ran, approved, raced>>

\* ChangeAgentStateAction
HandleChange ==
  /\ OnEvent("change")
  /\ LET e == Head(inbox) IN
       /\ ctl' = SetAgentState(ctl, e.info)
       /\ Emit(Tail(inbox), SetAgentStateOut(ctl, e.info))
       /\ approved' = IF /\ e.info = "user_confirmed" /\ ctl.state # e.info
                         /\ ctl.pending.type = "act"
                      THEN approved \cup {[call |-> ctl.pending.call,
                                           asked |-> ctl.pending.asked, by |-> e.id]}
                      ELSE approved
  /\ unserved' = FALSE
  /\ Then(FALSE)
  /\ UNCHANGED <<answered, reports, users, calls, ran, raced>>

\* A message of the agent steps again unless it waits for the user.
HandleSay ==
  /\ OnEvent("say")
  /\ ctl' = IF Head(inbox).info = "wait" THEN SetAgentState(ctl, "awaiting_user_input") ELSE ctl
  /\ Emit(Tail(inbox), NoEvent)
  /\ Then(ctl'.state # "awaiting_user_input")
  /\ UNCHANGED <<answered, reports, history>>

\* AgentFinishAction, AgentRejectAction
HandleEnd ==
  /\ \E new \in {"finished", "rejected"} :
       /\ OnEvent(new)
       /\ ctl' = SetAgentState(ctl, new)
  /\ Emit(Tail(inbox), NoEvent)
  /\ Then(FALSE)
  /\ UNCHANGED <<answered, reports, history>>

\* Actions that only go to history, and condensation, which steps again.
HandleOtherAction ==
  /\ \E type \in {"recall", "act", "condense"} : OnEvent(type)
  /\ Emit(Tail(inbox), NoEvent)
  /\ Then(Head(inbox).type = "condense")
  /\ UNCHANGED <<ctl, answered, reports, history>>

\* _handle_observation: the answer to the pending action releases it.  A null
\* observation stays out of history.
MutReleaseActions(c, e) ==
  IF c.pending.type # "act" \/ c.pending.id # e.cause THEN c
  ELSE SetAgentState([c EXCEPT !.pending = NoAction], "running")

Release(c, e) ==
  IF \/ c.pending = NoAction
     \/ c.pending.id # e.cause
     \/ c.state = "awaiting_user_confirmation"
  THEN c
  ELSE LET d == [c EXCEPT !.pending = NoAction]
       IN CASE c.state = "user_confirmed" -> SetAgentState(d, "running")
            [] c.state = "user_rejected" -> SetAgentState(d, "awaiting_user_input")
            [] OTHER -> d

HandleObservation ==
  /\ OnEvent("obs")
  /\ LET e == Head(inbox) IN
       /\ ctl' = Release(ctl, e)
       /\ answered' = IF e.info = "null" THEN answered ELSE answered \cup {e.call}
  /\ Emit(Tail(inbox), NoEvent)
  /\ Then(TRUE)
  /\ UNCHANGED <<reports, history>>

-----------------------------------------------------------------------------
(* _step *)

Blocked == ctl.state # "running" \/ ctl.pending # NoAction

StepBlocked ==
  /\ pc = "stepping"
  /\ Blocked
  /\ pc' = "ready"
  /\ UNCHANGED <<ctl, answered, reports, queues, history>>

\* _react_to_exception while nothing is pending: the error is also reported
\* through status_callback, and comes back as a status error.
StepFails(c) ==
  /\ pc = "stepping"
  /\ ~Blocked
  /\ ctl' = SetAgentState(c, "error")
  /\ reports' = reports + 1
  /\ unserved' = FALSE
  /\ pc' = "ready"
  /\ UNCHANGED <<answered, queues, users, calls, ran, approved, raced>>

StepStuck == "stuck" \in Faults /\ StepFails(ctl)

\* A control flag is at its limit.
StepOverIterations ==
  /\ IterationsOver(ctl)
  /\ StepFails([ctl EXCEPT !.hitIter = TRUE])

StepOverBudget ==
  /\ ~IterationsOver(ctl)
  /\ BudgetOver
  /\ StepFails([ctl EXCEPT !.iter = @ + 1, !.hitIter = FALSE, !.hitCost = TRUE])

\* The iteration is counted, then the balance is looked up.
Counted == [ctl EXCEPT !.iter = @ + 1, !.hitIter = FALSE, !.hitCost = FALSE]

StepNoBalance ==
  /\ "no_balance" \in Faults
  /\ pc = "stepping"
  /\ ~Blocked /\ ~IterationsOver(ctl) /\ ~BudgetOver
  /\ ctl' = SetAgentState(Counted, "paused")
  /\ Emit(inbox, <<Event("obs", 0, 0, "error")>>)
  /\ unserved' = FALSE
  /\ pc' = "ready"
  /\ UNCHANGED <<answered, reports, users, calls, ran, approved, raced>>

StepCallsLLM ==
  /\ pc = "stepping"
  /\ ~Blocked /\ ~IterationsOver(ctl) /\ ~BudgetOver
  /\ ctl' = Counted
  /\ pc' = "thinking"
  /\ calls' = calls + 1
  /\ unserved' = FALSE
  /\ UNCHANGED <<answered, reports, queues, users, ran, approved, raced>>

-----------------------------------------------------------------------------
(* agent.step returns; nothing looks at agent_state again.                   *)

Returns(c, out) ==
  /\ pc = "thinking"
  /\ ctl' = c
  /\ Emit(inbox, out)
  /\ pc' = "ready"
  /\ UNCHANGED <<answered, history>>

ReturnsUnreported(c, out) == Returns(c, out) /\ UNCHANGED reports

\* A runnable action becomes the pending one; a risky one waits for the user.
Acts(awaiting) ==
  LET c == [ctl EXCEPT !.pending = Pending("act", calls, awaiting)]
  IN ReturnsUnreported(IF awaiting THEN SetAgentState(c, "awaiting_user_confirmation") ELSE c,
                       <<Event("act", calls, 0, IF awaiting THEN "awaiting" ELSE "none")>>)

Says(info) == ReturnsUnreported(ctl, <<Event("say", 0, 0, info)>>)

Ends(type) == ReturnsUnreported(ctl, <<Event(type, 0, 0, "none")>>)

\* Malformed, missing or invalid action: the agent is told and steps again.
BadAnswer == "llm_error" \in Faults /\ ReturnsUnreported(ctl, <<Event("obs", 0, 0, "error")>>)

\* The context window is exceeded: condensation is requested.
ContextExceeded == "context" \in Faults /\ ReturnsUnreported(ctl, <<Event("condense", 0, 0, "none")>>)

\* Any other exception, through _react_to_exception: rate limits change the
\* state without a report.
LLMRaises(new, reported) ==
  /\ "llm_error" \in Faults
  /\ Returns(SetAgentState(ctl, new), SetAgentStateOut(ctl, new))
  /\ reports' = reports + reported

AgentReturns ==
  \/ Acts(FALSE)
  \/ ConfirmationMode /\ Acts(TRUE)
  \/ Says("wait") \/ Says("go_on")
  \/ \E type \in {"finished", "rejected"} : Ends(type)
  \/ BadAnswer
  \/ ContextExceeded
  \/ LLMRaises("error", 1)
  \/ \E new \in {"error", "rate_limited"} : LLMRaises(new, 0)

-----------------------------------------------------------------------------
(* The other side *)

\* _send_status_message in the session's thread: also while the controller's
\* thread is in agent.step, and however late.
StatusError ==
  /\ reports > 0
  /\ reports' = reports - 1
  /\ ctl' = SetAgentState(ctl, "error")
  /\ Emit(inbox, SetAgentStateOut(ctl, "error"))
  /\ raced' = (raced \/ pc = "thinking")
  /\ unserved' = FALSE
  /\ UNCHANGED <<pc, answered, users, calls, ran, approved>>

\* The runtime passes over an action that awaits confirmation and answers a
\* rejected one; any other it executes.
MutExecuteUnlessRejected(a) == a.info # "rejected"

Executes(a) == a.info \notin {"awaiting", "rejected"}

Executed(a) == ran \cup {[call |-> a.call, id |-> a.id, info |-> a.info]}

Runs ==
  /\ runq # <<>>
  /\ LET a == Head(runq) IN
       /\ inbox' = IF a.info = "awaiting" THEN inbox
                   ELSE Append(inbox, Event("obs", a.call, a.id, "done"))
       /\ nextId' = IF a.info = "awaiting" THEN nextId ELSE nextId + 1
       /\ ran' = IF Executes(a) THEN Executed(a) ELSE ran
  /\ runq' = Tail(runq)
  /\ UNCHANGED <<ctl, pc, answered, reports, memq, users, calls, approved, raced, unserved>>

\* The sandbox fails before or after it executed the action: no observation.
RunFails ==
  /\ "run_error" \in Faults
  /\ runq # <<>>
  /\ Executes(Head(runq))
  /\ ran' \in {ran, Executed(Head(runq))}
  /\ runq' = Tail(runq)
  /\ reports' = reports + 1
  /\ UNCHANGED <<ctl, pc, answered, inbox, memq, nextId, users, calls, approved, raced, unserved>>

\* The memory answers a recall, with a null observation when it finds nothing.
MutRecallsFound(info) ==
  /\ memq # <<>>
  /\ inbox' = IF info = "null" THEN inbox ELSE Append(inbox, Event("obs", 0, Head(memq).id, info))
  /\ nextId' = nextId + 1
  /\ memq' = Tail(memq)
  /\ UNCHANGED <<ctl, pc, answered, reports, runq, history>>

Recalls(info) ==
  /\ memq # <<>>
  /\ inbox' = Append(inbox, Event("obs", 0, Head(memq).id, info))
  /\ nextId' = nextId + 1
  /\ memq' = Tail(memq)
  /\ UNCHANGED <<ctl, pc, answered, reports, runq, history>>

RecallFails ==
  /\ "memory_error" \in Faults
  /\ memq # <<>>
  /\ memq' = Tail(memq)
  /\ reports' = reports + 1
  /\ UNCHANGED <<ctl, pc, answered, inbox, runq, nextId, history>>

-----------------------------------------------------------------------------
User ==
  \/ SendMessage
  \/ \E new \in {"running", "paused", "stopped"} : ChangeState(new)
  \/ \E new \in {"user_confirmed", "user_rejected"} : Confirm(new)

Controller ==
  \/ HandleMessage \/ HandleChange \/ HandleSay \/ HandleEnd
  \/ HandleOtherAction \/ HandleObservation
  \/ StepBlocked \/ StepStuck \/ StepOverIterations \/ StepOverBudget
  \/ StepNoBalance \/ StepCallsLLM
  \/ AgentReturns

Runtime == Runs \/ RunFails
Memory == Recalls("recalled") \/ Recalls("null") \/ RecallFails

Next == User \/ Controller \/ StatusError \/ Runtime \/ Memory

Spec == Init /\ [][Next]_vars

\* The threads of the controller, the session, the runtime and the memory run
\* on and LLM calls return; the user need not do anything.
FairSpec ==
  /\ Spec
  /\ WF_vars(Controller)
  /\ WF_vars(StatusError)
  /\ WF_vars(Runtime)
  /\ WF_vars(Memory)

-----------------------------------------------------------------------------
(* Properties *)

IsEvent(e) ==
  /\ DOMAIN e = {"type", "id", "call", "cause", "info"}
  /\ e.type \in {"message", "change", "recall", "act", "condense", "say",
                 "finished", "rejected", "obs"}
  /\ e.id \in Nat /\ e.call \in Nat /\ e.cause \in Nat

\* Every variable has the values the code can give it.
ControllerTypeOK ==
  /\ ctl.state \in AgentState
  /\ ctl.pending.type \in {"none", "recall", "act"}
  /\ ctl.pending.id \in Nat /\ ctl.pending.id < nextId
  /\ ctl.iter \in Nat /\ ctl.maxIter \in Nat /\ ctl.maxCost \in Nat
  /\ pc \in {"ready", "stepping", "thinking"}
  /\ answered \subseteq 0..calls
  /\ \A n \in DOMAIN inbox : IsEvent(inbox[n])
  /\ \A n \in DOMAIN runq : IsEvent(runq[n])
  /\ \A n \in DOMAIN memq : IsEvent(memq[n])

\* A stopped agent has no pending action, whatever was under way when the user
\* stopped it and whatever the runtime answers afterwards; nor has a failed one,
\* unless the error came while agent.step was running, which does not look at
\* the state again before it makes its action the pending one.
IdleHasNoPending ==
  ctl.pending # NoAction =>
    /\ ctl.state # "stopped"
    /\ ctl.state = "error" => raced

\* However the agent, the errors, the retries and the limits interact, the agent
\* takes at most the configured number of steps, and spends at most the budget,
\* for each thing the user did: an error alone extends nothing.
CallsBounded ==
  /\ calls <= Delta * (IF Headless THEN 1 ELSE users)
  /\ BudgetDelta > 0 => calls <= BudgetDelta * users

\* The runtime executes a tool call once, also when it is added to the stream a
\* second time with the user's answer.
RunsOnce == \A a, b \in ran : a.call = b.call => a = b

\* A confirmation is given for an action that was there to be confirmed: it
\* came after the request.
ConfirmedAfterRequest == \A a \in approved : a.by > a.asked
\* The controller's state is well formed and what runs was asked for: no call is executed
\* twice, and a confirmation approves only an action that was there before it.
ConfirmedRunsOnce == ControllerTypeOK /\ RunsOnce /\ ConfirmedAfterRequest

\* An action does not stay pending by accident: it waits for the user, or its
\* answer is on the way, or an error report that will drop it is.
\* Only an error report that met a running agent.step can have been wasted.
OnItsWay(p) ==
  \/ \E n \in DOMAIN runq : runq[n].id = p.id
  \/ \E n \in DOMAIN memq : memq[n].id = p.id
  \/ \E n \in DOMAIN inbox : inbox[n].type = "obs" /\ inbox[n].cause = p.id

PendingIsAnswered ==
  ctl.pending # NoAction =>
    \/ ctl.pending.awaiting
    \/ OnItsWay(ctl.pending)
    \/ reports > 0
    \/ raced

\* After a user message the agent calls the LLM, unless an error or the user
\* comes in between, or it leaves the running state.
MessageStartsStep == unserved ~> (~unserved \/ ctl.state # "running")

\* After a user message the agent calls the LLM, unless an error or the user
\* comes in between.
MessageIsServed == unserved ~> ~unserved
=============================================================================
