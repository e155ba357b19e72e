----------------------- MODULE AgentControllerProofs -----------------------
(***************************************************************************)
(* For every limit, mode, number of user events and set of faults: an idle *)
(* controller has nothing pending; a tool call is executed once, and only  *)
(* what was pending is confirmed; what is pending is answered; the calls   *)
(* are bounded by what the user did.                                       *)
(***************************************************************************)
EXTENDS AgentController, SequenceTheorems, FiniteSetTheorems, TLAPS

-----------------------------------------------------------------------------
(* The inductive invariant of an idle controller *)

IsController(c) ==
  DOMAIN c = {"state", "pending", "iter", "maxIter", "hitIter", "maxCost", "hitCost"}

\* While agent.step runs nothing is pending, and only a status error can have
\* changed the state.
ThinksAlone ==
  pc = "thinking" =>
    /\ ctl.pending = NoAction
    /\ ctl.state # "stopped"
    /\ ctl.state = "error" => raced

IdleInv == IsController(ctl) /\ ThinksAlone /\ IdleHasNoPending

-----------------------------------------------------------------------------
(* set_agent_state_to *)

\* Extending the limits changes neither the state nor the pending action.
LEMMA LimitsKeepState ==
  ASSUME NEW c, IsController(c)
  PROVE  /\ IsController(IncreaseLimits(c))
         /\ IncreaseLimits(c).state = c.state
         /\ IncreaseLimits(c).pending = c.pending
PROOF
<1> DEFINE d == IncreaseIterations(c)
<1>1. IsController(d) /\ d.state = c.state /\ d.pending = c.pending
  BY DEF IncreaseIterations, IsController
<1> HIDE DEF d
<1>2. /\ IsController(IncreaseBudget(d))
      /\ IncreaseBudget(d).state = d.state
      /\ IncreaseBudget(d).pending = d.pending
  BY <1>1 DEF IncreaseBudget, IsController
<1> QED
  BY <1>1, <1>2 DEF IncreaseLimits, d

\* The state is set; entering STOPPED or ERROR drops the pending action, and
\* no state change makes up one.
LEMMA StateIsSet ==
  ASSUME NEW c, IsController(c), NEW new
  PROVE  /\ IsController(SetAgentState(c, new))
         /\ SetAgentState(c, new).state = new
         /\ new = c.state => SetAgentState(c, new).pending = c.pending
         /\ new # c.state /\ new \in {"stopped", "error"} =>
              SetAgentState(c, new).pending = NoAction
         /\ c.pending = NoAction => SetAgentState(c, new).pending = NoAction
PROOF
<1> DEFINE d == [c EXCEPT !.state = new]
<1>1. IsController(d) /\ d.state = new /\ d.pending = c.pending
  BY DEF IsController
<1>2. CASE new = c.state
  BY <1>2 DEF SetAgentState
<1>3. CASE new # c.state /\ new \in {"stopped", "error"}
  BY <1>3 DEF SetAgentState, IsController
<1>4. CASE new # c.state /\ new \notin {"stopped", "error"} /\ c.state = "error" /\ new = "running"
  <2>1. SetAgentState(c, new) = IncreaseLimits(d)
    BY <1>4 DEF SetAgentState
  <2> HIDE DEF d
  <2> QED
    BY <1>1, <1>4, <2>1, LimitsKeepState
<1>5. CASE /\ new # c.state /\ new \notin {"stopped", "error"}
           /\ ~(c.state = "error" /\ new = "running")
  BY <1>5 DEF SetAgentState, IsController
<1> QED
  BY <1>2, <1>3, <1>4, <1>5

\* Changing the state of a controller whose idle states have nothing pending
\* leaves it such.
LEMMA StateChangeKeepsIdle ==
  ASSUME IdleInv, NEW new, ctl' = SetAgentState(ctl, new), raced' = raced,
         pc' # "thinking"
  PROVE  IdleInv'
PROOF
  BY StateIsSet DEF IdleInv, ThinksAlone, IdleHasNoPending, IsController

\* So does leaving it alone, or clearing what is pending.
LEMMA ClearingKeepsIdle ==
  ASSUME IdleInv, IsController(ctl)', raced' = raced, pc' # "thinking",
         ctl'.state = ctl.state, ctl'.pending \in {ctl.pending, NoAction}
  PROVE  IdleInv'
PROOF
  BY DEF IdleInv, ThinksAlone, IdleHasNoPending

-----------------------------------------------------------------------------
(* The steps *)

\* A new controller is loading and has nothing pending.
LEMMA InitIdle == Init => IdleInv
PROOF
  BY DEF Init, IdleInv, IsController, ThinksAlone, IdleHasNoPending

\* No event handler of _on_event leaves an idle controller with a pending action.
LEMMA HandlersKeepIdle ==
  ASSUME IdleInv,
         \/ HandleMessage \/ HandleChange \/ HandleSay \/ HandleEnd
         \/ HandleOtherAction \/ HandleObservation
  PROVE  IdleInv'
PROOF
<1>1. pc' # "thinking"
  BY DEF HandleMessage, HandleChange, HandleSay, HandleEnd, HandleOtherAction,
         HandleObservation, Then
<1>2. raced' = raced
  BY DEF HandleMessage, HandleChange, HandleSay, HandleEnd, HandleOtherAction,
         HandleObservation, history
<1>3. CASE HandleMessage
  <2> DEFINE c == [ctl EXCEPT !.pending = Pending("recall", 0, FALSE)]
  <2>1. IsController(c)
    BY DEF IdleInv, IsController
  <2>2. ctl' = SetAgentState(c, "running")
    BY <1>3 DEF HandleMessage
  <2> HIDE DEF c
  <2>3. IsController(ctl)' /\ ctl'.state = "running"
    BY <2>1, <2>2, StateIsSet DEF IsController
  <2> QED
    BY <1>1, <2>3 DEF IdleInv, ThinksAlone, IdleHasNoPending
<1>4. CASE HandleChange
  <2>1. ctl' = SetAgentState(ctl, Head(inbox).info)
    BY <1>4 DEF HandleChange
  <2> QED
    BY <1>1, <1>2, <2>1, StateChangeKeepsIdle
<1>5. CASE HandleSay
  <2>1. ctl' = ctl \/ ctl' = SetAgentState(ctl, "awaiting_user_input")
    BY <1>5 DEF HandleSay
  <2> QED
    BY <1>1, <1>2, <2>1, StateChangeKeepsIdle, ClearingKeepsIdle DEF IdleInv, IsController
<1>6. CASE HandleEnd
  <2>1. \E new \in {"finished", "rejected"} : ctl' = SetAgentState(ctl, new)
    BY <1>6 DEF HandleEnd
  <2> QED
    BY <1>1, <1>2, <2>1, StateChangeKeepsIdle
<1>7. CASE HandleOtherAction
  <2>1. ctl' = ctl
    BY <1>7 DEF HandleOtherAction
  <2> QED
    BY <1>1, <1>2, <2>1, ClearingKeepsIdle DEF IdleInv, IsController
<1>8. CASE HandleObservation
  <2> DEFINE d == [ctl EXCEPT !.pending = NoAction]
  <2>1. IsController(d) /\ d.state = ctl.state /\ d.pending = NoAction
    BY DEF IdleInv, IsController
  <2>2. \/ ctl' = ctl \/ ctl' = d
        \/ \E new \in {"running", "awaiting_user_input"} : ctl' = SetAgentState(d, new)
    BY <1>8 DEF HandleObservation, Release
  <2> HIDE DEF d
  <2>3. CASE ctl' = ctl \/ ctl' = d
    BY <1>1, <1>2, <2>1, <2>3, ClearingKeepsIdle DEF IdleInv, IsController
  <2>4. ASSUME NEW new \in {"running", "awaiting_user_input"}, ctl' = SetAgentState(d, new)
        PROVE  IdleInv'
    BY <1>1, <2>1, <2>4, StateIsSet DEF IdleInv, ThinksAlone, IdleHasNoPending, IsController
  <2> QED
    BY <2>2, <2>3, <2>4
<1> QED
  BY <1>3, <1>4, <1>5, <1>6, <1>7, <1>8

\* Neither does _step up to agent.step: it goes on only with nothing pending.
LEMMA StepKeepsIdle ==
  ASSUME IdleInv,
         \/ StepBlocked \/ StepStuck \/ StepOverIterations \/ StepOverBudget
         \/ StepNoBalance \/ StepCallsLLM
  PROVE  IdleInv'
PROOF
<1>1. raced' = raced
  BY DEF StepBlocked, StepStuck, StepOverIterations, StepOverBudget, StepFails,
         StepNoBalance, StepCallsLLM, history
<1>2. CASE StepBlocked
  BY <1>1, <1>2, ClearingKeepsIdle DEF StepBlocked, IdleInv, IsController
<1>3. ASSUME NEW c, StepFails(c), IsController(c), c.pending = ctl.pending
      PROVE  IdleInv'
  <2>1. ctl' = SetAgentState(c, "error") /\ c.pending = NoAction /\ pc' = "ready"
    BY <1>3 DEF StepFails, Blocked
  <2> QED
    BY <1>3, <2>1, StateIsSet DEF IdleInv, ThinksAlone, IdleHasNoPending, IsController
<1>4. CASE StepStuck
  BY <1>3, <1>4 DEF StepStuck, IdleInv
<1>5. CASE StepOverIterations
  <2> DEFINE c == [ctl EXCEPT !.hitIter = TRUE]
  <2>1. IsController(c) /\ c.pending = ctl.pending /\ StepFails(c)
    BY <1>5 DEF StepOverIterations, IdleInv, IsController
  <2> QED
    BY <1>3, <2>1
<1>6. CASE StepOverBudget
  <2> DEFINE c == [ctl EXCEPT !.iter = @ + 1, !.hitIter = FALSE, !.hitCost = TRUE]
  <2>1. IsController(c) /\ c.pending = ctl.pending /\ StepFails(c)
    BY <1>6 DEF StepOverBudget, IdleInv, IsController
  <2> QED
    BY <1>3, <2>1
<1>7. IsController(Counted) /\ Counted.pending = ctl.pending /\ Counted.state = ctl.state
  BY DEF Counted, IdleInv, IsController
<1>8. CASE StepNoBalance
  <2>1. ctl' = SetAgentState(Counted, "paused") /\ pc' = "ready"
    BY <1>8 DEF StepNoBalance
  <2> QED
    BY <1>7, <2>1, StateIsSet DEF IdleInv, ThinksAlone, IdleHasNoPending, IsController
<1>9. CASE StepCallsLLM
  <2>1. ctl' = Counted /\ ctl.state = "running" /\ ctl.pending = NoAction
    BY <1>9 DEF StepCallsLLM, Blocked
  <2> QED
    BY <1>7, <2>1 DEF IdleInv, ThinksAlone, IdleHasNoPending, IsController
<1> QED
  BY <1>2, <1>4, <1>5, <1>6, <1>8, <1>9

\* What agent.step returns becomes pending in a running controller, or in one
\* that a status error met in the meantime.
LEMMA AnswerKeepsIdle == IdleInv /\ AgentReturns => IdleInv'
PROOF
<1> SUFFICES ASSUME IdleInv, AgentReturns PROVE IdleInv'
  OBVIOUS
<1>1. ASSUME NEW c, NEW out, Returns(c, out)
      PROVE  /\ ctl' = c /\ pc' = "ready" /\ raced' = raced
             /\ ctl.pending = NoAction /\ ctl.state # "stopped"
             /\ ctl.state = "error" => raced
  BY <1>1 DEF Returns, history, IdleInv, ThinksAlone
<1>2. ASSUME NEW out, Returns(ctl, out) PROVE IdleInv'
  BY <1>1, <1>2 DEF IdleInv, ThinksAlone, IdleHasNoPending, IsController
<1>3. ASSUME NEW awaiting \in BOOLEAN, Acts(awaiting) PROVE IdleInv'
  <2> DEFINE c == [ctl EXCEPT !.pending = Pending("act", calls, awaiting)]
             d == IF awaiting THEN SetAgentState(c, "awaiting_user_confirmation") ELSE c
  <2>1. IsController(c) /\ c.state = ctl.state
    BY DEF IdleInv, IsController
  <2>2. \E out : Returns(d, out)
    BY <1>3 DEF Acts, ReturnsUnreported
  <2> HIDE DEF c
  <2>3. IsController(d) /\ d.state \in {ctl.state, "awaiting_user_confirmation"}
    BY <2>1, StateIsSet
  <2> HIDE DEF d
  <2> QED
    BY <1>1, <2>2, <2>3 DEF IdleInv, ThinksAlone, IdleHasNoPending, IsController
<1>4. ASSUME NEW new, NEW n, LLMRaises(new, n) PROVE IdleInv'
  <2>1. Returns(SetAgentState(ctl, new), SetAgentStateOut(ctl, new))
    BY <1>4 DEF LLMRaises
  <2> QED
    BY <1>1, <2>1, StateChangeKeepsIdle
<1>5. ASSUME NEW info, Says(info) PROVE IdleInv'
  BY <1>2, <1>5 DEF Says, ReturnsUnreported
<1>6. ASSUME NEW type, Ends(type) PROVE IdleInv'
  BY <1>2, <1>6 DEF Ends, ReturnsUnreported
<1>7. CASE BadAnswer \/ ContextExceeded
  BY <1>2, <1>7 DEF BadAnswer, ContextExceeded, ReturnsUnreported
<1> QED
  BY <1>3, <1>4, <1>5, <1>6, <1>7 DEF AgentReturns

\* A status error drops what is pending, unless the state was ERROR already.
LEMMA StatusErrorKeepsIdle == IdleInv /\ StatusError => IdleInv'
PROOF
<1> SUFFICES ASSUME IdleInv, StatusError PROVE IdleInv'
  OBVIOUS
<1>1. ctl' = SetAgentState(ctl, "error") /\ pc' = pc /\ raced' = (raced \/ pc = "thinking")
  BY DEF StatusError
<1>2. (raced => raced') /\ (pc = "thinking" => raced')
  BY <1>1, Zenon
<1>3. /\ IsController(ctl)' /\ ctl'.state = "error"
      /\ ctl.state # "error" => ctl'.pending = NoAction
      /\ ctl.state = "error" => ctl'.pending = ctl.pending
      /\ ctl.pending = NoAction => ctl'.pending = NoAction
  BY <1>1, StateIsSet DEF IdleInv, IsController
<1> QED
  BY <1>1, <1>2, <1>3 DEF IdleInv, ThinksAlone, IdleHasNoPending

\* What the user, the runtime and the memory do goes through the queues.
LEMMA OthersKeepIdle ==
  IdleInv /\ (User \/ Runtime \/ Memory \/ UNCHANGED vars) => IdleInv'
PROOF
<1> SUFFICES ASSUME IdleInv, User \/ Runtime \/ Memory \/ UNCHANGED vars PROVE IdleInv'
  OBVIOUS
<1>1. ctl' = ctl /\ pc' = pc /\ raced' = raced
  BY DEF User, SendMessage, ChangeState, Confirm, UserAdds, Runtime, Runs, RunFails,
         Memory, Recalls, RecallFails, history, vars
<1> QED
  BY <1>1 DEF IdleInv, ThinksAlone, IdleHasNoPending, IsController

-----------------------------------------------------------------------------
(* The theorem *)

\* Every step of the system keeps it.
LEMMA NextIdle == IdleInv /\ [Next]_vars => IdleInv'
PROOF
  BY HandlersKeepIdle, StepKeepsIdle, AnswerKeepsIdle, StatusErrorKeepsIdle, OthersKeepIdle
     DEF Next, Controller

\* A stopped controller never has a pending action, and a failed one only if
\* the error came while agent.step was running (set_agent_state_to, _reset and
\* _step of agent_controller.py): for any limits, budget, confirmation and
\* headless mode, any user and any of the modelled faults.
THEOREM ControllerIdle == Spec => []IdleHasNoPending
PROOF
<1>1. IdleInv => IdleHasNoPending
  BY DEF IdleInv
<1> QED
  BY InitIdle, NextIdle, <1>1, PTL DEF Spec

-----------------------------------------------------------------------------
(* The queues, as sets of events *)

EventType == {"message", "change", "recall", "act", "condense", "say",
              "finished", "rejected", "obs"}
EventInfo == {"user", "running", "paused", "stopped", "user_confirmed", "user_rejected",
              "none", "wait", "go_on", "awaiting", "confirmed", "rejected",
              "not_executed", "done", "error", "recalled", "null"}
Events == [type : EventType, id : Nat, call : Nat, cause : Nat, info : EventInfo]
Actions == [type : {"none", "recall", "act"}, id : Nat, call : Nat,
            awaiting : BOOLEAN, asked : Nat]
Controllers == [state : AgentState, pending : Actions, iter : Nat, maxIter : Nat,
                hitIter : BOOLEAN, maxCost : Nat, hitCost : BOOLEAN]

\* A queue holds events in the order of their ids, all of them below k.
Ordered(q, k) ==
  /\ q \in Seq(Events)
  /\ \A n \in DOMAIN q : 0 < q[n].id /\ q[n].id < k
  /\ \A m, n \in DOMAIN q : m < n => q[m].id < q[n].id

Elems(q) == {q[n] : n \in DOMAIN q}

\* What is left of a queue when its head is taken: the events that follow it.
LEMMA TailOrdered ==
  ASSUME NEW k \in Nat, NEW q, Ordered(q, k), q # <<>>
  PROVE  /\ Ordered(Tail(q), k)
         /\ Head(q) \in Elems(q)
         /\ Elems(Tail(q)) = Elems(q) \ {Head(q)}
         /\ \A e \in Elems(Tail(q)) : Head(q).id < e.id
PROOF
<1>1. q \in Seq(Events) /\ Len(q) \in Nat /\ Len(q) > 0 /\ DOMAIN q = 1..Len(q)
  BY EmptySeq, LenProperties DEF Ordered
<1>2. /\ Tail(q) \in Seq(Events) /\ Len(Tail(q)) = Len(q) - 1 /\ Head(q) = q[1]
      /\ \A n \in 1..Len(q) - 1 : Tail(q)[n] = q[n + 1]
      /\ DOMAIN Tail(q) = 1..Len(q) - 1
  BY <1>1, HeadTailProperties, LenProperties
<1>3. Ordered(Tail(q), k)
  <2>1. \A n \in DOMAIN Tail(q) : n + 1 \in DOMAIN q /\ Tail(q)[n] = q[n + 1]
    BY <1>1, <1>2
  <2> QED
    BY <1>1, <1>2, <2>1 DEF Ordered
<1>4. \A n \in DOMAIN q : n = 1 \/ (n - 1 \in DOMAIN Tail(q) /\ q[n] = Tail(q)[n - 1])
  BY <1>1, <1>2
<1>5. \A n \in DOMAIN Tail(q) : Head(q).id < Tail(q)[n].id
  <2> TAKE n \in DOMAIN Tail(q)
  <2>1. 1 \in DOMAIN q /\ n + 1 \in DOMAIN q /\ 1 < n + 1 /\ Tail(q)[n] = q[n + 1]
    BY <1>1, <1>2
  <2> QED
    BY <1>2, <2>1 DEF Ordered
<1>6. \A n \in DOMAIN Tail(q) : Tail(q)[n].id \in Nat /\ Head(q).id \in Nat
  <2> TAKE n \in DOMAIN Tail(q)
  <2>1. Tail(q)[n] \in Events /\ Head(q) \in Events
    BY <1>1, <1>2, ElementOfSeq
  <2> QED
    BY <2>1 DEF Events
<1>7. \A n \in DOMAIN Tail(q) : Tail(q)[n] # Head(q)
  BY <1>5, <1>6
<1>8. Elems(Tail(q)) = Elems(q) \ {Head(q)}
  <2>1. ASSUME NEW e \in Elems(Tail(q)) PROVE e \in Elems(q) \ {Head(q)}
    <3>1. PICK n \in DOMAIN Tail(q) : e = Tail(q)[n]
      BY DEF Elems
    <3>2. n + 1 \in DOMAIN q /\ e = q[n + 1]
      BY <1>1, <1>2, <3>1
    <3> QED
      BY <1>7, <3>1, <3>2 DEF Elems
  <2>2. ASSUME NEW e \in Elems(q), e # Head(q) PROVE e \in Elems(Tail(q))
    <3>1. PICK n \in DOMAIN q : e = q[n]
      BY DEF Elems
    <3>2. n - 1 \in DOMAIN Tail(q) /\ e = Tail(q)[n - 1]
      BY <1>2, <1>4, <2>2, <3>1
    <3> QED
      BY <3>2 DEF Elems
  <2> QED
    BY <2>1, <2>2
<1>9. Head(q) \in Elems(q)
  BY <1>1, <1>2 DEF Elems
<1> QED
  BY <1>3, <1>5, <1>8, <1>9 DEF Elems

\* An event with the next id goes to the end.
LEMMA OneMoreOrdered ==
  ASSUME NEW k \in Nat, k > 0, NEW q, Ordered(q, k), NEW e \in Events, e.id = k
  PROVE  /\ Ordered(q \o <<e>>, k + 1)
         /\ Elems(q \o <<e>>) = Elems(q) \cup {e}
PROOF
<1> DEFINE r == q \o <<e>>
<1>1. q \in Seq(Events) /\ Len(q) \in Nat /\ DOMAIN q = 1..Len(q)
  BY LenProperties DEF Ordered
<1>2. <<e>> \in Seq(Events) /\ Len(<<e>>) = 1 /\ <<e>>[1] = e
  OBVIOUS
<1>3. /\ r \in Seq(Events) /\ Len(r) = Len(q) + 1 /\ DOMAIN r = 1..Len(q) + 1
      /\ \A n \in 1..Len(q) : r[n] = q[n]
      /\ r[Len(q) + 1] = e
  BY <1>1, <1>2, ConcatProperties, LenProperties
<1> HIDE DEF r
<1>4. \A n \in DOMAIN r : (n \in DOMAIN q /\ r[n] = q[n]) \/ (n = Len(q) + 1 /\ r[n] = e)
  BY <1>1, <1>3
<1>5. \A n \in DOMAIN q : 0 < q[n].id /\ q[n].id < k /\ q[n].id \in Nat
  <2>1. \A n \in DOMAIN q : q[n] \in Events
    BY <1>1, ElementOfSeq
  <2> QED
    BY <2>1 DEF Ordered, Events
<1>6. \A n \in DOMAIN r : 0 < r[n].id /\ r[n].id < k + 1
  BY <1>4, <1>5
<1>7. \A m, n \in DOMAIN r : m < n => r[m].id < r[n].id
  <2> SUFFICES ASSUME NEW m \in DOMAIN r, NEW n \in DOMAIN r, m < n PROVE r[m].id < r[n].id
    OBVIOUS
  <2>1. m \in DOMAIN q /\ r[m] = q[m]
    BY <1>1, <1>3
  <2>2. CASE n \in DOMAIN q
    BY <1>4, <2>1, <2>2, <1>1, <1>3 DEF Ordered
  <2>3. CASE n = Len(q) + 1
    BY <1>3, <1>5, <2>1, <2>3
  <2> QED
    BY <1>4, <2>2, <2>3
<1>8. Ordered(r, k + 1)
  BY <1>3, <1>6, <1>7 DEF Ordered
<1>9. Elems(r) = Elems(q) \cup {e}
  <2>1. Elems(r) \subseteq Elems(q) \cup {e}
    BY <1>4 DEF Elems
  <2>2. Elems(q) \cup {e} \subseteq Elems(r)
    BY <1>1, <1>3 DEF Elems
  <2> QED
    BY <2>1, <2>2
<1> QED
  BY <1>8, <1>9 DEF r

Incoming == Elems(inbox)
ToRun == Elems(runq)
ToRecall == Elems(memq)

QueuesOK ==
  /\ nextId \in Nat \ {0}
  /\ Ordered(inbox, nextId) /\ Ordered(runq, nextId) /\ Ordered(memq, nextId)

\* The bound on the ids may grow.
LEMMA OrderedAbove ==
  ASSUME NEW k \in Nat, NEW q, Ordered(q, k)
  PROVE  Ordered(q, k + 1)
PROOF
<1>1. \A n \in DOMAIN q : q[n] \in Events
  BY ElementOfSeq, LenProperties DEF Ordered
<1> QED
  BY <1>1 DEF Ordered, Events

\* What is queued is an event, and known by its id.
LEMMA QueuedAreEvents ==
  ASSUME NEW k \in Nat, NEW q, Ordered(q, k), NEW e \in Elems(q)
  PROVE  /\ e \in Events
         /\ 0 < e.id /\ e.id < k
         /\ \A f \in Elems(q) : f.id = e.id => f = e
PROOF
<1>1. PICK n \in DOMAIN q : e = q[n]
  BY DEF Elems
<1>2. \A m \in DOMAIN q : q[m] \in Events
  BY ElementOfSeq, LenProperties DEF Ordered
<1>3. ASSUME NEW f \in Elems(q), f.id = e.id PROVE f = e
  <2>1. PICK m \in DOMAIN q : f = q[m]
    BY DEF Elems
  <2>2. m \in Nat /\ n \in Nat
    BY LenProperties DEF Ordered
  <2>3. ~(m < n) /\ ~(n < m)
    BY <1>1, <1>2, <1>3, <2>1 DEF Ordered, Events
  <2> QED
    BY <1>1, <2>1, <2>2, <2>3
<1> QED
  BY <1>1, <1>2, <1>3 DEF Ordered

\* The queue that a handler leaves: all of it, or all but the event handled.
LEMMA HandledQueue ==
  ASSUME QueuesOK, inbox # <<>>
  PROVE  /\ Ordered(Tail(inbox), nextId)
         /\ Head(inbox) \in Incoming
         /\ Elems(Tail(inbox)) = Incoming \ {Head(inbox)}
         /\ \A e \in Incoming \ {Head(inbox)} : Head(inbox).id < e.id
PROOF
  BY TailOrdered DEF QueuesOK, Incoming

\* A handler that adds nothing leaves the other queues alone.
LEMMA EmitNone ==
  ASSUME QueuesOK, NEW rest, Ordered(rest, nextId), Emit(rest, NoEvent)
  PROVE  /\ QueuesOK'
         /\ Incoming' = Elems(rest) /\ ToRun' = ToRun /\ ToRecall' = ToRecall /\ nextId' = nextId
PROOF
<1>1. OfType(NoEvent, "act") = <<>> /\ OfType(NoEvent, "recall") = <<>>
  BY DEF OfType, NoEvent
<1>2. rest \in Seq(Events) /\ runq \in Seq(Events) /\ memq \in Seq(Events)
  BY DEF QueuesOK, Ordered
<1>3. inbox' = rest /\ runq' = runq /\ memq' = memq
  BY <1>1, <1>2, ConcatEmptySeq DEF Emit, NoEvent
<1>4. nextId' = nextId
  BY DEF Emit, NoEvent, QueuesOK
<1> QED
  BY <1>3, <1>4 DEF QueuesOK, Incoming, ToRun, ToRecall

\* An event that is added reaches the controller, and the runtime or the memory if it is for them.
LEMMA EmitOne ==
  ASSUME QueuesOK, NEW rest, Ordered(rest, nextId), NEW e \in Events, e.id = nextId,
         Emit(rest, <<e>>)
  PROVE  /\ QueuesOK'
         /\ Incoming' = Elems(rest) \cup {e}
         /\ ToRun' = ToRun \cup (IF e.type = "act" THEN {e} ELSE {})
         /\ ToRecall' = ToRecall \cup (IF e.type = "recall" THEN {e} ELSE {})
         /\ nextId' = nextId + 1
PROOF
<1>1. <<e>> # <<>> /\ Head(<<e>>) = e
  OBVIOUS
<1>2. /\ OfType(<<e>>, "act") = IF e.type = "act" THEN <<e>> ELSE <<>>
      /\ OfType(<<e>>, "recall") = IF e.type = "recall" THEN <<e>> ELSE <<>>
  BY <1>1 DEF OfType, NoEvent
<1>3. rest \in Seq(Events) /\ runq \in Seq(Events) /\ memq \in Seq(Events)
  BY DEF QueuesOK, Ordered
<1>4. nextId' = nextId + 1
  BY DEF Emit, QueuesOK
<1>5. Ordered(inbox', nextId') /\ Incoming' = Elems(rest) \cup {e}
  BY <1>4, OneMoreOrdered DEF Emit, QueuesOK, Incoming
<1>6. Ordered(runq', nextId') /\ ToRun' = ToRun \cup (IF e.type = "act" THEN {e} ELSE {})
  <2>1. CASE e.type = "act"
    <3>1. runq' = runq \o <<e>>
      BY <1>2, <2>1 DEF Emit
    <3> QED
      BY <1>4, <2>1, <3>1, OneMoreOrdered DEF QueuesOK, ToRun
  <2>2. CASE e.type # "act"
    <3>1. runq' = runq
      BY <1>2, <1>3, <2>2, ConcatEmptySeq DEF Emit
    <3> QED
      BY <1>4, <2>2, <3>1, OrderedAbove DEF QueuesOK, ToRun
  <2> QED
    BY <2>1, <2>2
<1>7. Ordered(memq', nextId') /\ ToRecall' = ToRecall \cup (IF e.type = "recall" THEN {e} ELSE {})
  <2>1. CASE e.type = "recall"
    <3>1. memq' = memq \o <<e>>
      BY <1>2, <2>1 DEF Emit
    <3> QED
      BY <1>4, <2>1, <3>1, OneMoreOrdered DEF QueuesOK, ToRecall
  <2>2. CASE e.type # "recall"
    <3>1. memq' = memq
      BY <1>2, <1>3, <2>2, ConcatEmptySeq DEF Emit
    <3> QED
      BY <1>4, <2>2, <3>1, OrderedAbove DEF QueuesOK, ToRecall
  <2> QED
    BY <2>1, <2>2
<1>8. nextId' \in Nat \ {0}
  BY <1>4 DEF QueuesOK
<1> QED
  BY <1>4, <1>5, <1>6, <1>7, <1>8 DEF QueuesOK

-----------------------------------------------------------------------------
(* set_agent_state_to, with the types of its fields *)

Numbers == nextId \in Nat \ {0} /\ calls \in Nat

\* There is a value for having no pending action.
LEMMA NoActionTyped == NoAction \in Actions /\ NoAction.awaiting = FALSE /\ NoAction.type = "none"
PROOF
  BY DEF NoAction, Actions

\* Extending the limits touches nothing but the limits.
LEMMA LimitsTyped ==
  ASSUME Numbers, NEW c \in Controllers
  PROVE  LET d == IncreaseLimits(c)
         IN /\ d \in Controllers
            /\ d.state = c.state /\ d.pending = c.pending /\ d.iter = c.iter
            /\ d.maxIter = IF ~Headless /\ c.hitIter THEN c.maxIter + Delta ELSE c.maxIter
            /\ d.maxCost = IF BudgetDelta > 0 /\ c.hitCost THEN calls + BudgetDelta ELSE c.maxCost
PROOF
<1> DEFINE d == IncreaseIterations(c)
<1>1. /\ d \in Controllers
      /\ d.state = c.state /\ d.pending = c.pending /\ d.iter = c.iter
      /\ d.maxIter = IF ~Headless /\ c.hitIter THEN c.maxIter + Delta ELSE c.maxIter
      /\ d.maxCost = c.maxCost /\ d.hitCost = c.hitCost
  <2>1. CASE ~Headless /\ c.hitIter
    <3>1. c.maxIter + Delta \in Nat
      BY ControllerAssumption DEF Controllers
    <3> QED
      BY <2>1, <3>1 DEF IncreaseIterations, Controllers
  <2>2. CASE ~(~Headless /\ c.hitIter)
    BY <2>2 DEF IncreaseIterations, Controllers
  <2> QED
    BY <2>1, <2>2
<1> HIDE DEF d
<1> DEFINE f == IncreaseBudget(d)
<1>2. /\ f \in Controllers
      /\ f.state = d.state /\ f.pending = d.pending /\ f.iter = d.iter /\ f.maxIter = d.maxIter
      /\ f.maxCost = IF BudgetDelta > 0 /\ d.hitCost THEN calls + BudgetDelta ELSE d.maxCost
  <2>1. CASE BudgetDelta > 0 /\ d.hitCost
    <3>1. calls + BudgetDelta \in Nat
      BY ControllerAssumption DEF Numbers
    <3> QED
      BY <1>1, <2>1, <3>1 DEF IncreaseBudget, Controllers
  <2>2. CASE ~(BudgetDelta > 0 /\ d.hitCost)
    BY <1>1, <2>2 DEF IncreaseBudget, Controllers
  <2> QED
    BY <2>1, <2>2
<1> QED
  BY <1>1, <1>2 DEF IncreaseLimits, d

\* What set_agent_state_to makes of the pending action.
PendingAfter(c, new) ==
  CASE new = c.state -> c.pending
    [] new # c.state /\ new \in {"stopped", "error"} -> NoAction
    [] new # c.state /\ new \in {"user_confirmed", "user_rejected"} /\ c.pending # NoAction ->
         [c.pending EXCEPT !.id = nextId, !.awaiting = FALSE]
    [] OTHER -> c.pending

Retries(c, new) == c.state = "error" /\ new = "running"

\* set_agent_state_to: the state, what becomes of the pending action, and the limits.
LEMMA StateSet ==
  ASSUME Numbers, NEW c \in Controllers, NEW new \in AgentState
  PROVE  LET d == SetAgentState(c, new)
         IN /\ d \in Controllers
            /\ d.state = new /\ d.pending = PendingAfter(c, new) /\ d.iter = c.iter
            /\ ~Retries(c, new) =>
                 /\ d.maxIter = c.maxIter /\ d.hitIter = c.hitIter
                 /\ d.maxCost = c.maxCost /\ d.hitCost = c.hitCost
            /\ Retries(c, new) =>
                 /\ d.maxIter = IF ~Headless /\ c.hitIter THEN c.maxIter + Delta ELSE c.maxIter
                 /\ d.maxCost = IF BudgetDelta > 0 /\ c.hitCost THEN calls + BudgetDelta ELSE c.maxCost
PROOF
<1>1. CASE new = c.state
  BY <1>1 DEF SetAgentState, PendingAfter, Controllers, Retries
<1>2. CASE new # c.state /\ new \in {"stopped", "error"}
  <2>1. SetAgentState(c, new) = [c EXCEPT !.state = new, !.pending = NoAction]
    BY <1>2 DEF SetAgentState
  <2>2. PendingAfter(c, new) = NoAction
    BY <1>2 DEF PendingAfter
  <2> QED
    BY <1>2, <2>1, <2>2, NoActionTyped DEF Controllers, Retries
<1>3. CASE new # c.state /\ Retries(c, new)
  <2> DEFINE d == [c EXCEPT !.state = new]
  <2>1. SetAgentState(c, new) = IncreaseLimits(d)
    BY <1>3 DEF SetAgentState, Retries
  <2>2. PendingAfter(c, new) = c.pending
    BY <1>3 DEF PendingAfter, Retries
  <2>3. /\ d \in Controllers /\ d.state = new /\ d.pending = c.pending /\ d.iter = c.iter
        /\ d.maxIter = c.maxIter /\ d.hitIter = c.hitIter
        /\ d.maxCost = c.maxCost /\ d.hitCost = c.hitCost
    BY DEF Controllers
  <2> HIDE DEF d
  <2> QED
    BY <1>3, <2>1, <2>2, <2>3, LimitsTyped
<1>4. CASE /\ new # c.state /\ new \in {"user_confirmed", "user_rejected"}
           /\ c.pending # NoAction
  <2>1. SetAgentState(c, new)
          = [c EXCEPT !.state = new, !.pending.id = nextId, !.pending.awaiting = FALSE]
    BY <1>4 DEF SetAgentState
  <2>2. PendingAfter(c, new) = [c.pending EXCEPT !.id = nextId, !.awaiting = FALSE]
    BY <1>4 DEF PendingAfter
  <2>3. [c.pending EXCEPT !.id = nextId, !.awaiting = FALSE] \in Actions
    BY DEF Controllers, Actions, Numbers
  <2>4. SetAgentState(c, new) = [c EXCEPT !.state = new, !.pending = PendingAfter(c, new)]
    BY <2>1, <2>2, <2>3 DEF Controllers, Actions
  <2> QED
    BY <1>4, <2>2, <2>3, <2>4 DEF Controllers, Retries
<1>5. CASE /\ new # c.state /\ new \notin {"stopped", "error"} /\ ~Retries(c, new)
           /\ ~(new \in {"user_confirmed", "user_rejected"} /\ c.pending # NoAction)
  <2>1. SetAgentState(c, new) = [c EXCEPT !.state = new]
    BY <1>5 DEF SetAgentState, Retries
  <2>2. PendingAfter(c, new) = c.pending
    BY <1>5 DEF PendingAfter
  <2> QED
    BY <1>5, <2>1, <2>2 DEF Controllers
<1> QED
  BY <1>1, <1>2, <1>3, <1>4, <1>5

\* Only stopping, failing and the user's answer touch the pending action.
LEMMA PendingKept ==
  ASSUME NEW c, NEW new
  PROVE  /\ new \notin {"stopped", "error", "user_confirmed", "user_rejected"} =>
              PendingAfter(c, new) = c.pending
         /\ new \in {"stopped", "error"} =>
              PendingAfter(c, new) = IF new = c.state THEN c.pending ELSE NoAction
         /\ new \in {"user_confirmed", "user_rejected"} =>
              PendingAfter(c, new) =
                IF new = c.state \/ c.pending = NoAction THEN c.pending
                ELSE [c.pending EXCEPT !.id = nextId, !.awaiting = FALSE]
PROOF
<1>1. CASE new = c.state
  BY <1>1 DEF PendingAfter
<1>2. CASE new # c.state /\ new \in {"stopped", "error"}
  BY <1>2 DEF PendingAfter
<1>3. CASE new # c.state /\ new \in {"user_confirmed", "user_rejected"}
  BY <1>3 DEF PendingAfter
<1>4. CASE new # c.state /\ new \notin {"stopped", "error", "user_confirmed", "user_rejected"}
  BY <1>4 DEF PendingAfter
<1> QED
  BY <1>1, <1>2, <1>3, <1>4

-----------------------------------------------------------------------------
(* The invariants of the confirmations, the answers and the limits *)

\* The types of the variables.
Typed ==
  /\ QueuesOK
  /\ ctl \in Controllers
  /\ pc \in {"ready", "stepping", "thinking"}
  /\ reports \in Nat /\ users \in Nat /\ calls \in Nat
  /\ ran \subseteq [call : Nat, id : Nat, info : EventInfo]
  /\ approved \subseteq [call : Nat, asked : Nat, by : Nat]

\* What events and the pending action refer to.
Refers ==
  /\ answered \subseteq 0..calls
  /\ \A e \in Incoming : /\ e.call <= calls
                         /\ e.type = "obs" => e.cause < e.id
                         /\ e.type = "change" => e.info \in {"running", "paused", "stopped",
                                                             "user_confirmed", "user_rejected"}
  /\ \A a \in ToRun : a.type = "act" /\ a.call <= calls
  /\ \A r \in ran : r.call <= calls
  /\ ctl.pending.id < nextId /\ ctl.pending.asked < nextId /\ ctl.pending.call <= calls
  /\ ctl.pending.type = "none" => ctl.pending = NoAction

\* agent.step runs with nothing pending; its tool call is new.
Thinks ==
  pc = "thinking" =>
    /\ ctl.pending = NoAction
    /\ ctl.state \in {"running", "error"}
    /\ \A a \in ToRun : a.call < calls
    /\ \A r \in ran : r.call < calls

\* A tool call is executed once.
Once ==
  /\ \A a, b \in ToRun : Executes(a) /\ Executes(b) /\ a.call = b.call => a = b
  /\ \A a \in ToRun, r \in ran : Executes(a) => a.call # r.call
  /\ RunsOnce
  /\ ctl.pending.awaiting =>
       /\ ctl.pending.type = "act"
       /\ \A a \in ToRun : Executes(a) => a.call # ctl.pending.call
       /\ \A r \in ran : r.call # ctl.pending.call

Answers(e) == e.type = "change" /\ e.info \in {"user_confirmed", "user_rejected"}

\* While the user's answer is on its way, what awaits it stays pending, unless a
\* message or an error has taken its place, and the agent does not go on.
WhileAnswered(c) ==
  /\ pc # "thinking"
  /\ ctl.state \notin {"user_confirmed", "user_rejected"}
  /\ \A e \in Incoming : e.type = "change" => c.id <= e.id
  /\ ctl.state = "running" => ctl.pending.type = "recall"
  /\ ctl.pending.type = "act" => ctl.pending.awaiting /\ ctl.pending.asked < c.id
  /\ ctl.pending.type = "recall" => c.id < ctl.pending.id

\* Who awaits a confirmation has something to confirm, and no answer overtakes
\* what it answers.
Asked ==
  /\ ctl.state = "awaiting_user_confirmation" => ctl.pending.awaiting
  /\ \A c \in Incoming : Answers(c) => WhileAnswered(c)
  /\ ConfirmedAfterRequest

\* The answer to the pending action is on its way.
AnswerComes ==
  \/ \E a \in ToRun : a.id = ctl.pending.id /\ a.info # "awaiting"
  \/ \E a \in ToRecall : a.id = ctl.pending.id
  \/ \E e \in Incoming : e.type = "obs" /\ e.cause = ctl.pending.id

\* Nothing stays pending by accident.
Pends == ctl.pending # NoAction => ctl.pending.awaiting \/ AnswerComes \/ reports > 0 \/ raced

ControlInv == Typed /\ Refers /\ Thinks /\ Once /\ Asked

\* What the user did that the controller has still to handle.
UserEvents == {e \in Incoming : e.type \in {"message", "change"}}
Handled == users - Cardinality(UserEvents)

\* Before the first of them, nothing has happened.
Untouched ==
  /\ ctl.state = "loading" /\ pc = "ready" /\ calls = 0 /\ reports = 0
  /\ ctl.maxIter = Delta /\ ctl.maxCost = BudgetDelta
  /\ Incoming = UserEvents /\ ToRun = {} /\ ToRecall = {}

\* Every event handled so far has extended each limit at most once.
Limited ==
  /\ IsFiniteSet(UserEvents) /\ Handled \in Nat
  /\ Handled = 0 => Untouched
  /\ calls <= ctl.iter /\ ctl.iter <= ctl.maxIter
  /\ Headless => ctl.maxIter = Delta
  /\ Handled > 0 => ctl.maxIter <= Delta * Handled
  /\ BudgetDelta > 0 =>
       /\ calls <= ctl.maxCost
       /\ Handled > 0 => ctl.maxCost <= BudgetDelta * Handled

-----------------------------------------------------------------------------
(* Every handler of _on_event keeps the control invariant *)

\* An event that only goes to history, or that changes the state, leaves the
\* queues but for the event itself.
LEMMA ConsumeKeeps ==
  ASSUME ControlInv, NEW h \in Incoming, QueuesOK', Incoming' = Incoming \ {h}, ToRun' = ToRun, ToRecall' = ToRecall,
         nextId' = nextId, pc = "ready", pc' \in {"ready", "stepping"},
         \/ ctl' = ctl
         \/ \E new \in {"awaiting_user_input", "finished", "rejected"} :
              ctl' = SetAgentState(ctl, new),
         UNCHANGED <<answered, reports, history>>
  PROVE  ControlInv' /\ ctl'.pending = ctl.pending
PROOF
<1>1. UNCHANGED <<users, calls, ran, approved, raced, answered, reports>>
  BY DEF history
<1>2. /\ ctl' \in Controllers
      /\ ctl'.pending = ctl.pending
      /\ ctl'.state \in {ctl.state, "awaiting_user_input", "finished", "rejected"}
  <2>1. CASE ctl' = ctl
    BY <2>1 DEF ControlInv, Typed
  <2>2. ASSUME NEW new \in {"awaiting_user_input", "finished", "rejected"},
               ctl' = SetAgentState(ctl, new)
        PROVE  /\ ctl' \in Controllers
               /\ ctl'.pending = ctl.pending
               /\ ctl'.state \in {ctl.state, "awaiting_user_input", "finished", "rejected"}
    <3>1. new \in AgentState /\ Numbers /\ ctl \in Controllers
      BY DEF AgentState, Numbers, ControlInv, Typed, QueuesOK
    <3>2. ctl' \in Controllers /\ ctl'.state = new /\ ctl'.pending = PendingAfter(ctl, new)
      BY <2>2, <3>1, StateSet
    <3>3. PendingAfter(ctl, new) = ctl.pending
      BY PendingKept
    <3> QED
      BY <3>2, <3>3
  <2> QED
    BY <2>1, <2>2
<1>3. Typed'
  BY <1>1, <1>2 DEF ControlInv, Typed
<1>4. Refers'
  BY <1>1, <1>2 DEF ControlInv, Refers
<1>5. Thinks'
  BY DEF Thinks
<1>6. Once'
  BY <1>1, <1>2 DEF ControlInv, Once, RunsOnce, Executes
<1>7. Asked'
  <2>1. ctl'.state = "awaiting_user_confirmation" => ctl'.pending.awaiting
    BY <1>2 DEF ControlInv, Asked
  <2>2. ConfirmedAfterRequest'
    BY <1>1 DEF ControlInv, Asked, ConfirmedAfterRequest
  <2>3. ASSUME NEW c \in Incoming', Answers(c) PROVE WhileAnswered(c)'
    BY <1>2, <2>3 DEF ControlInv, Asked, WhileAnswered
  <2> QED
    BY <2>1, <2>2, <2>3 DEF Asked, Answers
<1> QED
  BY <1>2, <1>3, <1>4, <1>5, <1>6, <1>7 DEF ControlInv

\* The same of a step that sets the state of a controller.
LEMMA CtlSet ==
  ASSUME Typed, NEW c \in Controllers, NEW new \in AgentState, ctl' = SetAgentState(c, new)
  PROVE  /\ ctl' \in Controllers
         /\ ctl'.state = new
         /\ ctl'.pending = PendingAfter(c, new)
PROOF
<1>1. Numbers
  BY DEF Typed, QueuesOK, Numbers
<1> QED
  BY <1>1, StateSet

\* on_event takes the oldest event of the queue.
LEMMA EventTaken ==
  ASSUME Typed, NEW type, OnEvent(type)
  PROVE  /\ pc = "ready" /\ Ordered(Tail(inbox), nextId)
         /\ Head(inbox) \in Incoming /\ Head(inbox) \in Events /\ Head(inbox).type = type
         /\ Elems(Tail(inbox)) = Incoming \ {Head(inbox)}
         /\ \A e \in Incoming \ {Head(inbox)} : Head(inbox).id < e.id
PROOF
<1>1. QueuesOK /\ inbox # <<>> /\ nextId \in Nat /\ Ordered(inbox, nextId)
  BY DEF Typed, OnEvent, QueuesOK
<1>2. Head(inbox) \in Incoming /\ Head(inbox) \in Events
  BY <1>1, HandledQueue, QueuedAreEvents DEF Incoming
<1> QED
  BY <1>1, <1>2, HandledQueue DEF OnEvent

\* Handlers that only change the state.
LEMMA QuietHandlers ==
  ASSUME ControlInv, HandleSay \/ HandleEnd \/ HandleOtherAction
  PROVE  /\ ControlInv' /\ ToRun' = ToRun /\ ToRecall' = ToRecall /\ ctl'.pending = ctl.pending
         /\ \A e \in Incoming : e.type = "obs" => e \in Incoming'
         /\ UNCHANGED <<reports, raced>>
PROOF
<1> DEFINE h == Head(inbox)
<1>1. PICK type \in EventType \ {"obs"} : OnEvent(type)
  BY DEF HandleSay, HandleEnd, HandleOtherAction, EventType
<1>2. Emit(Tail(inbox), NoEvent)
  BY DEF HandleSay, HandleEnd, HandleOtherAction
<1>3. /\ pc = "ready" /\ h \in Incoming /\ h.type # "obs"
      /\ Ordered(Tail(inbox), nextId) /\ Elems(Tail(inbox)) = Incoming \ {h}
  BY <1>1, EventTaken DEF ControlInv
<1>4. QueuesOK' /\ Incoming' = Incoming \ {h} /\ ToRun' = ToRun /\ ToRecall' = ToRecall /\ nextId' = nextId
  BY <1>2, <1>3, EmitNone DEF ControlInv, Typed
<1>5. pc' \in {"ready", "stepping"} /\ UNCHANGED <<answered, reports, history>>
  BY DEF HandleSay, HandleEnd, HandleOtherAction, Then
<1>6. \/ ctl' = ctl
      \/ \E new \in {"awaiting_user_input", "finished", "rejected"} :
           ctl' = SetAgentState(ctl, new)
  BY DEF HandleSay, HandleEnd, HandleOtherAction
<1>7. ControlInv' /\ ctl'.pending = ctl.pending
  BY <1>3, <1>4, <1>5, <1>6, ConsumeKeeps
<1> QED
  BY <1>3, <1>4, <1>5, <1>7 DEF history

\* A user message: the recall it starts is pending, and on its way to the memory.
LEMMA MessageHandled ==
  ASSUME ControlInv, HandleMessage
  PROVE  /\ ControlInv'
         /\ \E e \in ToRecall' : e.id = ctl'.pending.id
PROOF
<1> DEFINE h == Head(inbox)
           e == Event("recall", 0, 0, "none")
           c == [ctl EXCEPT !.pending = Pending("recall", 0, FALSE)]
<1>1. /\ pc = "ready" /\ h \in Incoming /\ Ordered(Tail(inbox), nextId)
      /\ Elems(Tail(inbox)) = Incoming \ {h} /\ h.type = "message"
  BY EventTaken DEF ControlInv, HandleMessage
<1>2. e \in Events /\ e.id = nextId /\ e.type = "recall" /\ e.call = 0
  BY DEF Event, Events, EventType, EventInfo, ControlInv, Typed, QueuesOK
<1>3. QueuesOK /\ Emit(Tail(inbox), <<e>>)
  BY DEF HandleMessage, ControlInv, Typed
<1> HIDE DEF e
<1>4. /\ QueuesOK' /\ Incoming' = (Incoming \ {h}) \cup {e} /\ ToRun' = ToRun /\ ToRecall' = ToRecall \cup {e}
      /\ nextId' = nextId + 1 /\ nextId \in Nat
  BY <1>1, <1>2, <1>3, EmitOne DEF QueuesOK
<1>5. c \in Controllers /\ c.pending = Pending("recall", 0, FALSE) /\ "running" \in AgentState
  BY DEF ControlInv, Typed, QueuesOK, Controllers, Actions, Pending, AgentState
<1>6. ctl' = SetAgentState(c, "running")
  BY DEF HandleMessage
<1> HIDE DEF c
<1>7. /\ ctl' \in Controllers /\ ctl'.state = "running"
      /\ ctl'.pending = Pending("recall", 0, FALSE)
  <2>1. PendingAfter(c, "running") = c.pending
    BY PendingKept
  <2> QED
    BY <1>5, <1>6, <2>1, CtlSet DEF ControlInv
<1>8. /\ ctl'.pending.type = "recall" /\ ctl'.pending.id = nextId /\ ctl'.pending.asked = nextId
      /\ ctl'.pending.call = 0 /\ ctl'.pending.awaiting = FALSE
  BY <1>7 DEF Pending
<1>9. UNCHANGED <<answered, reports, users, calls, ran, approved, raced>> /\ pc' = "stepping"
  BY DEF HandleMessage, Then
<1>10. Typed'
  BY <1>4, <1>7, <1>9 DEF ControlInv, Typed
<1>11. Refers'
  <2>1. calls \in Nat
    BY DEF ControlInv, Typed
  <2> QED
    BY <1>2, <1>4, <1>8, <1>9, <2>1 DEF ControlInv, Refers
<1>12. Thinks'
  BY <1>9 DEF Thinks
<1>13. Once'
  BY <1>4, <1>8, <1>9 DEF ControlInv, Once, RunsOnce, Executes
<1>14. Asked'
  <2>1. ctl'.state # "awaiting_user_confirmation"
    BY <1>7
  <2>2. ConfirmedAfterRequest'
    BY <1>9 DEF ControlInv, Asked, ConfirmedAfterRequest
  <2>3. ASSUME NEW x \in Incoming', Answers(x) PROVE WhileAnswered(x)'
    <3>1. x \in Incoming /\ x # e
      BY <1>2, <1>4, <2>3 DEF Answers
    <3>2. x.id < nextId
      BY <3>1, QueuedAreEvents DEF ControlInv, Typed, QueuesOK, Incoming
    <3> QED
      BY <1>2, <1>4, <1>7, <1>8, <1>9, <2>3, <3>1, <3>2 DEF ControlInv, Asked, WhileAnswered
  <2> QED
    BY <2>1, <2>2, <2>3 DEF Asked, Answers
<1> QED
  BY <1>2, <1>4, <1>8, <1>10, <1>11, <1>12, <1>13, <1>14 DEF ControlInv

\* No answer of the user waits behind another change of state.
LEMMA AnswersComeFirst ==
  ASSUME ControlInv, OnEvent("change")
  PROVE  \A x \in Incoming \ {Head(inbox)} : ~Answers(x)
PROOF
<1> SUFFICES ASSUME NEW x \in Incoming \ {Head(inbox)}, Answers(x) PROVE FALSE
  OBVIOUS
<1>1. /\ Head(inbox) \in Incoming /\ Head(inbox).type = "change" /\ Head(inbox).id < x.id
      /\ Head(inbox) \in Events
  BY EventTaken DEF ControlInv
<1>2. x.id <= Head(inbox).id
  BY <1>1 DEF ControlInv, Asked, WhileAnswered
<1>3. x \in Events
  BY QueuedAreEvents DEF Incoming, ControlInv, Typed, QueuesOK
<1> QED
  BY <1>1, <1>2, <1>3 DEF Events

\* The error observation of _reset answers the pending action.
LEMMA ResetEvent ==
  ASSUME ControlInv, ResetOut(ctl) # NoEvent
  PROVE  \E e \in Events :
           /\ ResetOut(ctl) = <<e>> /\ e.id = nextId /\ e.type = "obs"
           /\ e.cause < e.id /\ e.call <= calls
PROOF
<1> DEFINE e == Event("obs", ctl.pending.call, ctl.pending.id, "not_executed")
<1>1. ResetOut(ctl) = <<e>>
  BY DEF ResetOut
<1>2. /\ ctl.pending \in Actions /\ ctl.pending.id < nextId /\ ctl.pending.call <= calls
      /\ nextId \in Nat
  BY DEF ControlInv, Typed, Refers, Controllers, QueuesOK
<1>3. e \in Events
  BY <1>2 DEF Event, Events, EventType, EventInfo, Actions
<1>4. e.id = nextId /\ e.type = "obs" /\ e.cause < e.id /\ e.call <= calls
  BY <1>2 DEF Event
<1> QED
  BY <1>1, <1>3, <1>4

\* A change of state that is no answer.
LEMMA ChangeHandled ==
  ASSUME ControlInv, HandleChange, ~Answers(Head(inbox))
  PROVE  /\ ControlInv' /\ ToRun' = ToRun /\ ToRecall' = ToRecall
         /\ \A e \in Incoming : e.type = "obs" => e \in Incoming'
         /\ ctl'.pending \in {NoAction, ctl.pending}
PROOF
<1> DEFINE h == Head(inbox)
<1>1. OnEvent("change")
  BY DEF HandleChange
<1>2. /\ pc = "ready" /\ Ordered(Tail(inbox), nextId) /\ h \in Incoming /\ h.type = "change"
      /\ Elems(Tail(inbox)) = Incoming \ {h}
  BY <1>1, EventTaken DEF ControlInv
<1>3. h.info \in {"running", "paused", "stopped"}
  BY <1>2 DEF ControlInv, Refers, Answers
<1>4. h.info \in AgentState /\ QueuesOK /\ ctl \in Controllers /\ calls \in Nat
  BY <1>3 DEF AgentState, ControlInv, Typed
<1>5. /\ ctl' \in Controllers /\ ctl'.state = h.info
      /\ ctl'.pending = PendingAfter(ctl, h.info)
  BY <1>4, CtlSet DEF ControlInv, HandleChange
<1>6. ctl'.pending \in {NoAction, ctl.pending}
  BY <1>3, <1>5, PendingKept
<1>7. UNCHANGED <<answered, reports, users, calls, ran, approved, raced>> /\ pc' = "ready"
  BY <1>3 DEF HandleChange, Then
<1>8. SetAgentStateOut(ctl, h.info) \in {NoEvent, ResetOut(ctl)}
  BY <1>3 DEF SetAgentStateOut
<1>9. /\ QueuesOK' /\ ToRun' = ToRun /\ ToRecall' = ToRecall /\ nextId' \in Nat /\ nextId \in Nat
      /\ nextId <= nextId'
      /\ \A e \in Incoming \ {h} : e \in Incoming'
      /\ \A e \in Incoming' : \/ e \in Incoming \ {h}
                              \/ e.type = "obs" /\ e.cause < e.id /\ e.call <= calls
  <2>1. Emit(Tail(inbox), SetAgentStateOut(ctl, h.info))
    BY DEF HandleChange
  <2>2. CASE SetAgentStateOut(ctl, h.info) = NoEvent
    BY <1>2, <1>4, <2>1, <2>2, EmitNone DEF QueuesOK
  <2>3. CASE SetAgentStateOut(ctl, h.info) # NoEvent
    <3>1. PICK e \in Events : /\ SetAgentStateOut(ctl, h.info) = <<e>> /\ e.id = nextId
                              /\ e.type = "obs" /\ e.cause < e.id /\ e.call <= calls
      BY <1>8, <2>3, ResetEvent
    <3>2. /\ QueuesOK' /\ Incoming' = (Incoming \ {h}) \cup {e} /\ ToRun' = ToRun /\ ToRecall' = ToRecall
          /\ nextId' = nextId + 1
      BY <1>2, <1>4, <2>1, <3>1, EmitOne
    <3> QED
      BY <1>4, <3>1, <3>2 DEF QueuesOK
  <2> QED
    BY <2>2, <2>3
<1>10. Typed'
  BY <1>5, <1>7, <1>9 DEF ControlInv, Typed
<1>11. Refers'
  <2>1. /\ ctl'.pending.id < nextId' /\ ctl'.pending.asked < nextId'
        /\ ctl'.pending.call <= calls
        /\ ctl'.pending.type = "none" => ctl'.pending = NoAction
    <3>1. CASE ctl'.pending = NoAction
      BY <1>4, <1>9, <3>1 DEF NoAction, QueuesOK
    <3>2. CASE ctl'.pending = ctl.pending
      BY <1>4, <1>9, <3>2 DEF ControlInv, Refers, Controllers, Actions
    <3> QED
      BY <1>6, <3>1, <3>2
  <2>2. \A e \in Incoming' : /\ e.call <= calls'
                             /\ e.type = "obs" => e.cause < e.id
                             /\ e.type = "change" => e.info \in {"running", "paused", "stopped",
                                                                 "user_confirmed", "user_rejected"}
    BY <1>7, <1>9 DEF ControlInv, Refers
  <2> QED
    BY <1>7, <1>9, <2>1, <2>2 DEF ControlInv, Refers
<1>12. Thinks'
  BY <1>7 DEF Thinks
<1>13. Once'
  BY <1>6, <1>7, <1>9, NoActionTyped DEF ControlInv, Once, RunsOnce, Executes
<1>14. Asked'
  <2>1. ctl'.state # "awaiting_user_confirmation"
    BY <1>3, <1>5
  <2>2. ConfirmedAfterRequest'
    BY <1>7 DEF ControlInv, Asked, ConfirmedAfterRequest
  <2>3. \A x \in Incoming' : ~Answers(x)
    BY <1>1, <1>9, AnswersComeFirst DEF Answers
  <2> QED
    BY <2>1, <2>2, <2>3 DEF Asked, Answers
<1> QED
  BY <1>2, <1>6, <1>9, <1>10, <1>11, <1>12, <1>13, <1>14 DEF ControlInv

\* The user's answer goes to the action that awaits it.
LEMMA AnswerHandled ==
  ASSUME ControlInv, HandleChange, Answers(Head(inbox))
  PROVE  /\ ControlInv'
         /\ \/ ctl'.pending = NoAction
            \/ \E a \in ToRun' : a.id = ctl'.pending.id /\ a.info # "awaiting"
            \/ \E a \in ToRecall' : a.id = ctl'.pending.id
PROOF
<1> DEFINE h == Head(inbox)
<1>1. OnEvent("change")
  BY DEF HandleChange
<1>2. /\ pc = "ready" /\ Ordered(Tail(inbox), nextId) /\ h \in Incoming /\ h.type = "change"
      /\ h \in Events /\ Elems(Tail(inbox)) = Incoming \ {h}
  BY <1>1, EventTaken DEF ControlInv
<1>3. h.info \in {"user_confirmed", "user_rejected"}
  BY DEF Answers
<1>4. /\ h.info \in AgentState /\ QueuesOK /\ ctl \in Controllers /\ calls \in Nat
      /\ nextId \in Nat \ {0}
  BY <1>3 DEF AgentState, ControlInv, Typed, QueuesOK
<1>5. WhileAnswered(h)
  BY <1>2 DEF ControlInv, Asked
<1>6. ctl.state # h.info
  BY <1>3, <1>5 DEF WhileAnswered
<1>7. /\ ctl' \in Controllers /\ ctl'.state = h.info
      /\ ctl'.pending = PendingAfter(ctl, h.info)
  BY <1>4, CtlSet DEF ControlInv, HandleChange
<1>8. UNCHANGED <<answered, reports, users, calls, ran, raced>> /\ pc' = "ready"
  BY DEF HandleChange, Then
<1>9. SetAgentStateOut(ctl, h.info) = AnswerOut(ctl, h.info)
  BY <1>3, <1>6 DEF SetAgentStateOut
<1>10. Emit(Tail(inbox), AnswerOut(ctl, h.info))
  BY <1>9 DEF HandleChange
<1>11. Thinks'
  BY <1>8 DEF Thinks
<1>12. \A x \in Incoming \ {h} : ~Answers(x)
  BY <1>1, AnswersComeFirst
<1>13. ctl'.state # "awaiting_user_confirmation"
  BY <1>3, <1>7
<1>14. /\ ConfirmedAfterRequest'
       /\ approved' \subseteq [call : Nat, asked : Nat, by : Nat]
  <2>1. ctl.pending.type = "act" => ctl.pending.asked < h.id
    BY <1>5 DEF WhileAnswered
  <2>2. CASE approved' = approved
    BY <2>2 DEF ControlInv, Typed, Asked, ConfirmedAfterRequest
  <2>3. CASE /\ ctl.pending.type = "act"
             /\ approved' = approved \cup {[call |-> ctl.pending.call,
                                            asked |-> ctl.pending.asked, by |-> h.id]}
    <3>1. ctl.pending.asked \in Nat /\ ctl.pending.call \in Nat /\ h.id \in Nat
      BY <1>2, <1>4 DEF Controllers, Actions, Events
    <3> QED
      BY <2>1, <2>3, <3>1 DEF ControlInv, Typed, Asked, ConfirmedAfterRequest
  <2> QED
    BY <2>2, <2>3 DEF HandleChange
<1>15. CASE ctl.pending = NoAction
  <2>1. ctl'.pending = NoAction
    BY <1>3, <1>7, <1>15, PendingKept
  <2>2. AnswerOut(ctl, h.info) = NoEvent
    BY <1>15 DEF AnswerOut
  <2>3. QueuesOK' /\ Incoming' = Incoming \ {h} /\ ToRun' = ToRun /\ ToRecall' = ToRecall /\ nextId' = nextId
    BY <1>2, <1>4, <1>10, <2>2, EmitNone
  <2>4. Typed'
    BY <1>7, <1>8, <1>14, <2>3 DEF ControlInv, Typed
  <2>5. Refers'
    BY <1>4, <1>8, <1>15, <2>1, <2>3 DEF ControlInv, Refers, NoAction
  <2>6. Once'
    BY <1>8, <2>1, <2>3, NoActionTyped DEF ControlInv, Once, RunsOnce, Executes
  <2>7. Asked'
    BY <1>12, <1>13, <1>14, <2>3 DEF Asked, Answers
  <2> QED
    BY <1>11, <2>1, <2>4, <2>5, <2>6, <2>7 DEF ControlInv
<1>16. CASE ctl.pending # NoAction
  <2> DEFINE info == IF h.info = "user_confirmed" THEN "confirmed" ELSE "rejected"
             e == Event(ctl.pending.type, ctl.pending.call, 0, info)
  <2>1. ctl'.pending = [ctl.pending EXCEPT !.id = nextId, !.awaiting = FALSE]
    BY <1>3, <1>6, <1>7, <1>16, PendingKept
  <2>2. /\ ctl.pending \in Actions /\ ctl.pending.type \in {"recall", "act"}
        /\ ctl.pending.call <= calls /\ ctl.pending.asked < nextId
    BY <1>4, <1>16 DEF ControlInv, Refers, Controllers, Actions
  <2>3. /\ ctl'.pending.id = nextId /\ ctl'.pending.awaiting = FALSE
        /\ ctl'.pending.type = ctl.pending.type /\ ctl'.pending.call = ctl.pending.call
        /\ ctl'.pending.asked = ctl.pending.asked
    BY <2>1, <2>2 DEF Actions
  <2>4. AnswerOut(ctl, h.info) = <<e>>
    BY <1>16 DEF AnswerOut
  <2>5. e \in Events
    BY <1>4, <2>2 DEF Event, Events, EventType, EventInfo, Actions
  <2>6. /\ e.id = nextId /\ e.type = ctl.pending.type /\ e.call = ctl.pending.call
        /\ e.info \in {"confirmed", "rejected"}
    BY DEF Event
  <2> HIDE DEF e, info
  <2>7. /\ QueuesOK' /\ Incoming' = (Incoming \ {h}) \cup {e} /\ nextId' = nextId + 1
        /\ ToRun' = ToRun \cup (IF e.type = "act" THEN {e} ELSE {})
        /\ ToRecall' = ToRecall \cup (IF e.type = "recall" THEN {e} ELSE {})
    BY <1>2, <1>4, <1>10, <2>4, <2>5, <2>6, EmitOne
  <2>8. e.type = "act" => ctl.pending.awaiting
    BY <1>5, <2>6 DEF WhileAnswered
  <2>9. Typed'
    BY <1>7, <1>8, <1>14, <2>7 DEF ControlInv, Typed
  <2>10. Refers'
    <3>1. \A x \in Incoming' : /\ x.call <= calls'
                               /\ x.type = "obs" => x.cause < x.id
                               /\ x.type = "change" => x.info \in {"running", "paused", "stopped",
                                                                   "user_confirmed", "user_rejected"}
      BY <1>8, <2>2, <2>6, <2>7 DEF ControlInv, Refers
    <3>2. \A a \in ToRun' : a.type = "act" /\ a.call <= calls'
      BY <1>8, <2>2, <2>6, <2>7 DEF ControlInv, Refers
    <3>3. /\ ctl'.pending.id < nextId' /\ ctl'.pending.asked < nextId'
          /\ ctl'.pending.call <= calls' /\ ctl'.pending.type # "none"
      BY <1>4, <1>8, <2>2, <2>3, <2>7 DEF Actions
    <3> QED
      BY <1>8, <3>1, <3>2, <3>3 DEF ControlInv, Refers
  <2>11. Once'
    <3>1. CASE e.type = "act"
      BY <1>8, <2>3, <2>6, <2>7, <2>8, <3>1 DEF ControlInv, Once, RunsOnce
    <3>2. CASE e.type # "act"
      BY <1>8, <2>3, <2>7, <3>2 DEF ControlInv, Once, RunsOnce, Executes
    <3> QED
      BY <3>1, <3>2
  <2>12. Asked'
    BY <1>12, <1>13, <1>14, <2>2, <2>6, <2>7 DEF Asked, Answers
  <2>13. \/ \E a \in ToRun' : a.id = ctl'.pending.id /\ a.info # "awaiting"
         \/ \E a \in ToRecall' : a.id = ctl'.pending.id
    BY <2>2, <2>3, <2>6, <2>7
  <2> QED
    BY <1>11, <2>9, <2>10, <2>11, <2>12, <2>13 DEF ControlInv
<1> QED
  BY <1>15, <1>16

\* What an observation makes of the controller.
LEMMA Released ==
  ASSUME ControlInv, NEW h, ctl' = Release(ctl, h)
  PROVE  /\ ctl' \in Controllers
         /\ \/ /\ ctl' = ctl
               /\ \/ ctl.pending = NoAction \/ ctl.pending.id # h.cause
                  \/ ctl.state = "awaiting_user_confirmation"
            \/ /\ ctl'.pending = NoAction
               /\ ctl.pending # NoAction /\ ctl.pending.id = h.cause
               /\ \/ ctl'.state = ctl.state
                  \/ ctl.state = "user_confirmed" /\ ctl'.state = "running"
                  \/ ctl.state = "user_rejected" /\ ctl'.state = "awaiting_user_input"
               /\ ctl'.state # "awaiting_user_confirmation"
PROOF
<1> DEFINE d == [ctl EXCEPT !.pending = NoAction]
<1>1. ctl \in Controllers /\ Typed
  BY DEF ControlInv, Typed
<1>2. d \in Controllers /\ d.pending = NoAction /\ d.state = ctl.state
  BY <1>1, NoActionTyped DEF Controllers
<1>3. CASE \/ ctl.pending = NoAction \/ ctl.pending.id # h.cause
           \/ ctl.state = "awaiting_user_confirmation"
  BY <1>1, <1>3 DEF Release
<1>4. CASE /\ ctl.pending # NoAction /\ ctl.pending.id = h.cause
           /\ ctl.state # "awaiting_user_confirmation"
  <2> HIDE DEF d
  <2>1. CASE ctl.state \in {"user_confirmed", "user_rejected"}
    <3>1. PICK new \in {"running", "awaiting_user_input"} :
            /\ ctl' = SetAgentState(d, new)
            /\ ctl.state = "user_confirmed" => new = "running"
            /\ ctl.state = "user_rejected" => new = "awaiting_user_input"
      BY <1>4, <2>1 DEF Release, d
    <3>2. PendingAfter(d, new) = d.pending
      BY PendingKept
    <3>3. new \in AgentState
      BY DEF AgentState
    <3>4. ctl' \in Controllers /\ ctl'.state = new /\ ctl'.pending = NoAction
      BY <1>1, <1>2, <3>1, <3>2, <3>3, CtlSet
    <3> QED
      BY <1>4, <2>1, <3>1, <3>4
  <2>2. CASE ctl.state \notin {"user_confirmed", "user_rejected"}
    <3>1. ctl' = d
      BY <1>4, <2>2 DEF Release, d
    <3> QED
      BY <1>2, <1>4, <3>1
  <2> QED
    BY <2>1, <2>2
<1> QED
  BY <1>3, <1>4

\* An observation releases the action it answers, unless the user is being asked.
LEMMA ObservationHandled ==
  ASSUME ControlInv, HandleObservation
  PROVE  /\ ControlInv'
         /\ ToRun' = ToRun /\ ToRecall' = ToRecall /\ Incoming' = Incoming \ {Head(inbox)}
         /\ \/ ctl'.pending = NoAction
            \/ /\ ctl' = ctl
               /\ ctl.pending.id # Head(inbox).cause \/ ctl.pending.awaiting
PROOF
<1> DEFINE h == Head(inbox)
<1>1. OnEvent("obs")
  BY DEF HandleObservation
<1>2. /\ pc = "ready" /\ Ordered(Tail(inbox), nextId) /\ h \in Incoming /\ h.type = "obs"
      /\ h \in Events /\ Elems(Tail(inbox)) = Incoming \ {h}
      /\ \A e \in Incoming \ {h} : h.id < e.id
  BY <1>1, EventTaken DEF ControlInv
<1>3. QueuesOK' /\ Incoming' = Incoming \ {h} /\ ToRun' = ToRun /\ ToRecall' = ToRecall /\ nextId' = nextId
  BY <1>2, EmitNone DEF HandleObservation, ControlInv, Typed
<1>4. UNCHANGED <<reports, users, calls, ran, approved, raced>> /\ pc' = "stepping"
  BY DEF HandleObservation, Then, history
<1>5. /\ ctl' \in Controllers
      /\ \/ /\ ctl' = ctl
            /\ \/ ctl.pending = NoAction \/ ctl.pending.id # h.cause
               \/ ctl.state = "awaiting_user_confirmation"
         \/ /\ ctl'.pending = NoAction
            /\ ctl.pending # NoAction /\ ctl.pending.id = h.cause
            /\ \/ ctl'.state = ctl.state
               \/ ctl.state = "user_confirmed" /\ ctl'.state = "running"
               \/ ctl.state = "user_rejected" /\ ctl'.state = "awaiting_user_input"
            /\ ctl'.state # "awaiting_user_confirmation"
  BY Released DEF HandleObservation
<1>6. ctl'.pending \in {NoAction, ctl.pending}
  BY <1>5
<1>7. answered' \subseteq 0..calls
  <2>1. h.call \in 0..calls
    BY <1>2 DEF ControlInv, Refers, Events, Typed
  <2> QED
    BY <2>1 DEF HandleObservation, ControlInv, Refers
<1>8. Typed'
  BY <1>3, <1>4, <1>5 DEF ControlInv, Typed
<1>9. Refers'
  <2>1. /\ ctl'.pending.id < nextId' /\ ctl'.pending.asked < nextId'
        /\ ctl'.pending.call <= calls
        /\ ctl'.pending.type = "none" => ctl'.pending = NoAction
    <3>1. CASE ctl'.pending = NoAction
      BY <1>3, <3>1 DEF NoAction, QueuesOK, ControlInv, Typed
    <3>2. CASE ctl'.pending = ctl.pending
      BY <1>3, <3>2 DEF ControlInv, Refers
    <3> QED
      BY <1>6, <3>1, <3>2
  <2> QED
    BY <1>3, <1>4, <1>7, <2>1 DEF ControlInv, Refers
<1>10. Thinks'
  BY <1>4 DEF Thinks
<1>11. Once'
  BY <1>3, <1>4, <1>6, NoActionTyped DEF ControlInv, Once, RunsOnce, Executes
<1>12. Asked'
  <2>1. ctl'.state = "awaiting_user_confirmation" => ctl'.pending.awaiting
    BY <1>5 DEF ControlInv, Asked
  <2>2. ConfirmedAfterRequest'
    BY <1>4 DEF ControlInv, Asked, ConfirmedAfterRequest
  <2>3. ASSUME NEW x \in Incoming', Answers(x) PROVE WhileAnswered(x)'
    <3>1. x \in Incoming /\ h.id < x.id /\ WhileAnswered(x) /\ Incoming' \subseteq Incoming /\ x \in Events
      <4>1. x \in Incoming /\ h.id < x.id /\ Incoming' \subseteq Incoming
        BY <1>2, <1>3
      <4> QED
        BY <2>3, <4>1, QueuedAreEvents DEF ControlInv, Asked, Incoming, Typed, QueuesOK
    <3>2. CASE ctl' = ctl
      BY <1>4, <3>1, <3>2 DEF WhileAnswered
    <3>3. CASE ctl' # ctl
      <4>1. ctl'.pending = NoAction /\ ctl'.state = ctl.state /\ ctl.pending.id = h.cause
        BY <1>5, <3>1, <3>3 DEF WhileAnswered
      <4>2. h.cause < h.id /\ h.cause \in Nat /\ h.id \in Nat /\ x.id \in Nat
        BY <1>2, <3>1 DEF ControlInv, Refers, Events
      <4>3. ~(x.id < h.cause)
        BY <3>1, <4>2
      <4>4. ctl.state # "running"
        BY <3>1, <4>1, <4>3 DEF WhileAnswered
      <4> QED
        BY <1>4, <3>1, <4>1, <4>4, NoActionTyped DEF WhileAnswered
    <3> QED
      BY <3>2, <3>3
  <2> QED
    BY <2>1, <2>2, <2>3 DEF Asked, Answers
<1>13. \/ ctl'.pending = NoAction
       \/ /\ ctl' = ctl
          /\ ctl.pending.id # h.cause \/ ctl.pending.awaiting
  BY <1>5 DEF ControlInv, Asked
<1> QED
  BY <1>3, <1>8, <1>9, <1>10, <1>11, <1>12, <1>13 DEF ControlInv

-----------------------------------------------------------------------------
(* So do _step, agent.step and what goes on elsewhere *)

\* A running controller with nothing pending has no answer of the user waiting.
LEMMA FreeHasNoAnswer ==
  ASSUME ControlInv, ctl.state = "running", ctl.pending = NoAction
  PROVE  \A x \in Incoming : ~Answers(x)
PROOF
  BY NoActionTyped DEF ControlInv, Asked, WhileAnswered

\* Steps that add no event.
LEMMA QueuesSame ==
  ASSUME QueuesOK, UNCHANGED queues
  PROVE  QueuesOK' /\ Incoming' = Incoming /\ ToRun' = ToRun /\ ToRecall' = ToRecall /\ nextId' = nextId
PROOF
  BY DEF queues, QueuesOK, Incoming, ToRun, ToRecall

\* What every outcome of _step has in common.
LEMMA FreeStepKeeps ==
  ASSUME ControlInv, ~Blocked, ctl' \in Controllers, ctl'.pending = NoAction,
         ctl'.state \in {"error", "paused", "running"}, calls' \in Nat,
         \/ pc' = "ready" /\ calls' = calls
         \/ pc' = "thinking" /\ calls' = calls + 1 /\ ctl'.state = "running",
         QueuesOK', ToRun' = ToRun, ToRecall' = ToRecall, nextId' \in Nat, nextId <= nextId',
         \A e \in Incoming' : \/ e \in Incoming
                              \/ e.type = "obs" /\ e.cause < e.id /\ e.call = 0,
         reports' \in Nat, UNCHANGED <<answered, users, ran, approved>>
  PROVE  ControlInv'
PROOF
<1>1. ctl.state = "running" /\ ctl.pending = NoAction /\ calls \in Nat /\ nextId \in Nat \ {0}
  BY DEF Blocked, ControlInv, Typed, QueuesOK
<1>2. Typed'
  BY DEF ControlInv, Typed
<1>3. Refers'
  <2>1. calls <= calls'
    BY <1>1
  <2>2. answered' \subseteq 0..calls'
    BY <1>1, <2>1 DEF ControlInv, Refers
  <2>3. \A e \in Incoming : e \in Events
    BY QueuedAreEvents DEF Incoming, ControlInv, Typed, QueuesOK
  <2>4. \A e \in Incoming' : /\ e.call <= calls'
                             /\ e.type = "obs" => e.cause < e.id
                             /\ e.type = "change" => e.info \in {"running", "paused", "stopped",
                                                                 "user_confirmed", "user_rejected"}
    BY <1>1, <2>1, <2>3 DEF ControlInv, Refers, Events
  <2>5. \A a \in ToRun' : a.type = "act" /\ a.call <= calls'
    <3>1. \A a \in ToRun : a \in Events
      BY QueuedAreEvents DEF ToRun, ControlInv, Typed, QueuesOK
    <3> QED
      BY <1>1, <2>1, <3>1 DEF ControlInv, Refers, Events
  <2>6. \A r \in ran' : r.call <= calls'
    BY <1>1, <2>1 DEF ControlInv, Refers, Typed
  <2>7. /\ ctl'.pending.id < nextId' /\ ctl'.pending.asked < nextId' /\ ctl'.pending.call <= calls'
    BY <1>1 DEF NoAction, QueuesOK
  <2> QED
    BY <2>2, <2>4, <2>5, <2>6, <2>7 DEF Refers
<1>4. Thinks'
  <2>1. \A a \in ToRun : a \in Events /\ a.call <= calls
    BY QueuedAreEvents DEF ToRun, ControlInv, Typed, QueuesOK, Refers
  <2>2. \A r \in ran : r.call \in Nat /\ r.call <= calls
    BY DEF ControlInv, Typed, Refers
  <2> QED
    BY <1>1, <2>1, <2>2 DEF Thinks, Events
<1>5. Once'
  BY NoActionTyped DEF ControlInv, Once, RunsOnce, Executes
<1>6. Asked'
  <2>1. \A x \in Incoming' : ~Answers(x)
    BY <1>1, FreeHasNoAnswer DEF Answers
  <2>2. ConfirmedAfterRequest'
    BY DEF ControlInv, Asked, ConfirmedAfterRequest
  <2> QED
    BY <2>1, <2>2 DEF Asked, Answers
<1> QED
  BY <1>2, <1>3, <1>4, <1>5, <1>6 DEF ControlInv

\* So does a step that changes nothing but the thread.
LEMMA BlockedKeeps ==
  ASSUME ControlInv, UNCHANGED <<ctl, answered, reports, queues, history>>,
         pc' = pc \/ pc' = "ready"
  PROVE  ControlInv'
PROOF
<1>1. QueuesOK' /\ Incoming' = Incoming /\ ToRun' = ToRun /\ ToRecall' = ToRecall /\ nextId' = nextId
  BY QueuesSame DEF ControlInv, Typed
<1>2. UNCHANGED <<users, calls, ran, approved, raced>>
  BY DEF history
<1>3. Typed'
  BY <1>1, <1>2 DEF ControlInv, Typed
<1>4. Refers'
  BY <1>1, <1>2 DEF ControlInv, Refers
<1>5. Thinks'
  BY <1>1, <1>2 DEF ControlInv, Thinks
<1>6. Once'
  BY <1>1, <1>2 DEF ControlInv, Once, RunsOnce, Executes
<1>7. Asked'
  BY <1>1, <1>2 DEF ControlInv, Asked, WhileAnswered, Answers, ConfirmedAfterRequest
<1> QED
  BY <1>3, <1>4, <1>5, <1>6, <1>7 DEF ControlInv

\* _step up to agent.step: nothing is pending then, nor is there an answer of the user.
LEMMA StepTaken ==
  ASSUME ControlInv,
         \/ StepStuck \/ StepOverIterations \/ StepOverBudget
         \/ StepNoBalance \/ StepCallsLLM
  PROVE  ControlInv' /\ ctl'.pending = NoAction
PROOF
<1>1. /\ ctl \in Controllers /\ Typed /\ QueuesOK /\ calls \in Nat /\ reports \in Nat
      /\ nextId \in Nat \ {0}
  BY DEF ControlInv, Typed, QueuesOK
<1>2. "error" \in AgentState /\ "paused" \in AgentState
  BY DEF AgentState
<1>3. ASSUME NEW c \in Controllers, c.pending = ctl.pending, StepFails(c)
      PROVE  ControlInv' /\ ctl'.pending = NoAction
  <2>1. /\ ~Blocked /\ ctl' = SetAgentState(c, "error") /\ pc' = "ready" /\ reports' = reports + 1
        /\ UNCHANGED <<answered, queues, users, calls, ran, approved>>
    BY <1>3 DEF StepFails
  <2>2. c.pending = NoAction
    BY <1>3, <2>1 DEF Blocked
  <2>3. PendingAfter(c, "error") = NoAction
    BY <2>2, PendingKept
  <2>4. ctl' \in Controllers /\ ctl'.state = "error" /\ ctl'.pending = NoAction
    BY <1>1, <1>2, <1>3, <2>1, <2>3, CtlSet
  <2>5. QueuesOK' /\ Incoming' = Incoming /\ ToRun' = ToRun /\ ToRecall' = ToRecall /\ nextId' = nextId
    BY <1>1, <2>1, QueuesSame
  <2> QED
    BY <1>1, <2>1, <2>4, <2>5, FreeStepKeeps
<1>4. CASE StepStuck
  BY <1>1, <1>3, <1>4 DEF StepStuck
<1>5. CASE StepOverIterations
  <2> DEFINE c == [ctl EXCEPT !.hitIter = TRUE]
  <2>1. c \in Controllers /\ c.pending = ctl.pending /\ StepFails(c)
    BY <1>1, <1>5 DEF StepOverIterations, Controllers
  <2> QED
    BY <1>3, <2>1
<1>6. ctl.iter + 1 \in Nat
  BY <1>1 DEF Controllers
<1>7. CASE StepOverBudget
  <2> DEFINE c == [ctl EXCEPT !.iter = @ + 1, !.hitIter = FALSE, !.hitCost = TRUE]
  <2>1. c \in Controllers /\ c.pending = ctl.pending /\ StepFails(c)
    BY <1>1, <1>6, <1>7 DEF StepOverBudget, Controllers
  <2> QED
    BY <1>3, <2>1
<1>8. Counted \in Controllers /\ Counted.pending = ctl.pending /\ Counted.state = ctl.state
  BY <1>1, <1>6 DEF Counted, Controllers
<1>9. CASE StepNoBalance
  <2> DEFINE e == Event("obs", 0, 0, "error")
  <2>1. /\ ~Blocked /\ ctl' = SetAgentState(Counted, "paused") /\ pc' = "ready"
        /\ Emit(inbox, <<e>>) /\ UNCHANGED <<answered, reports, users, calls, ran, approved>>
    BY <1>9 DEF StepNoBalance
  <2>2. PendingAfter(Counted, "paused") = NoAction
    BY <1>8, <2>1, PendingKept DEF Blocked
  <2>3. ctl' \in Controllers /\ ctl'.state = "paused" /\ ctl'.pending = NoAction
    BY <1>1, <1>2, <1>8, <2>1, <2>2, CtlSet
  <2>4. e \in Events /\ e.id = nextId /\ e.type = "obs" /\ e.call = 0 /\ e.cause = 0
    BY <1>1 DEF Event, Events, EventType, EventInfo
  <2> HIDE DEF e
  <2>5. QueuesOK' /\ Incoming' = Incoming \cup {e} /\ ToRun' = ToRun /\ ToRecall' = ToRecall /\ nextId' = nextId + 1
    BY <1>1, <2>1, <2>4, EmitOne DEF QueuesOK, Incoming
  <2>6. e.cause < e.id
    BY <1>1, <2>4
  <2> QED
    BY <1>1, <2>1, <2>3, <2>4, <2>5, <2>6, FreeStepKeeps
<1>10. CASE StepCallsLLM
  <2>1. /\ ~Blocked /\ ctl' = Counted /\ pc' = "thinking" /\ calls' = calls + 1
        /\ UNCHANGED <<answered, reports, queues, users, ran, approved>>
    BY <1>10 DEF StepCallsLLM
  <2>2. ctl.pending = NoAction /\ ctl.state = "running"
    BY <2>1 DEF Blocked
  <2>3. QueuesOK' /\ Incoming' = Incoming /\ ToRun' = ToRun /\ ToRecall' = ToRecall /\ nextId' = nextId
    BY <1>1, <2>1, QueuesSame
  <2> QED
    BY <1>1, <1>8, <2>1, <2>2, <2>3, FreeStepKeeps
<1> QED
  BY <1>4, <1>5, <1>7, <1>9, <1>10

\* What every outcome of agent.step but an action has in common.
LEMMA ReturnKeeps ==
  ASSUME ControlInv, pc = "thinking", pc' = "ready", ctl' \in Controllers,
         ctl'.pending = NoAction, ctl'.state \in {"running", "error", "rate_limited"},
         QueuesOK', ToRun' = ToRun, ToRecall' = ToRecall, nextId' \in Nat, nextId <= nextId',
         \A e \in Incoming' : \/ e \in Incoming
                              \/ e.type # "change" /\ e.call = 0 /\ (e.type = "obs" => e.cause < e.id),
         reports' \in Nat, UNCHANGED <<answered, users, calls, ran, approved>>
  PROVE  ControlInv'
PROOF
<1>1. calls \in Nat /\ nextId \in Nat \ {0}
  BY DEF ControlInv, Typed, QueuesOK
<1>2. Typed'
  BY DEF ControlInv, Typed
<1>3. Refers'
  <2>1. \A e \in Incoming' : /\ e.call <= calls'
                             /\ e.type = "obs" => e.cause < e.id
                             /\ e.type = "change" => e.info \in {"running", "paused", "stopped",
                                                                 "user_confirmed", "user_rejected"}
    BY <1>1 DEF ControlInv, Refers
  <2>2. ctl'.pending.id < nextId' /\ ctl'.pending.asked < nextId' /\ ctl'.pending.call <= calls'
    BY <1>1 DEF NoAction
  <2> QED
    BY <2>1, <2>2 DEF ControlInv, Refers
<1>4. Thinks'
  BY DEF Thinks
<1>5. Once'
  BY NoActionTyped DEF ControlInv, Once, RunsOnce, Executes
<1>6. Asked'
  <2>1. \A x \in Incoming' : ~Answers(x)
    BY DEF ControlInv, Asked, WhileAnswered, Answers
  <2>2. ConfirmedAfterRequest'
    BY DEF ControlInv, Asked, ConfirmedAfterRequest
  <2> QED
    BY <2>1, <2>2 DEF Asked, Answers
<1> QED
  BY <1>2, <1>3, <1>4, <1>5, <1>6 DEF ControlInv

\* The agent's action becomes the pending one.
LEMMA ActKeeps ==
  ASSUME ControlInv, NEW awaiting \in BOOLEAN, Acts(awaiting)
  PROVE  /\ ControlInv'
         /\ \/ ctl'.pending.awaiting
            \/ \E a \in ToRun' : a.id = ctl'.pending.id /\ a.info # "awaiting"
PROOF
<1> DEFINE e == Event("act", calls, 0, IF awaiting THEN "awaiting" ELSE "none")
           c == [ctl EXCEPT !.pending = Pending("act", calls, awaiting)]
           d == IF awaiting THEN SetAgentState(c, "awaiting_user_confirmation") ELSE c
<1>1. /\ pc = "thinking" /\ ctl' = d /\ Emit(inbox, <<e>>) /\ pc' = "ready"
      /\ UNCHANGED <<answered, reports, users, calls, ran, approved, raced>>
  BY DEF Acts, ReturnsUnreported, Returns, history
<1>2. /\ ctl \in Controllers /\ Typed /\ QueuesOK /\ calls \in Nat /\ nextId \in Nat \ {0}
      /\ Ordered(inbox, nextId)
  BY DEF ControlInv, Typed, QueuesOK
<1>3. ctl.pending = NoAction /\ ctl.state \in {"running", "error"}
  BY <1>1 DEF ControlInv, Thinks
<1>4. e \in Events /\ e.id = nextId /\ e.type = "act" /\ e.call = calls
  BY <1>2 DEF Event, Events, EventType, EventInfo
<1>5. (e.info = "awaiting" <=> awaiting) /\ (~awaiting => e.info = "none")
  BY DEF Event
<1>6. Pending("act", calls, awaiting) \in Actions
  BY <1>2 DEF Pending, Actions
<1>7. c \in Controllers /\ c.pending = Pending("act", calls, awaiting) /\ c.state = ctl.state
  BY <1>2, <1>6 DEF Controllers
<1> HIDE DEF c, e
<1>8. /\ ctl' \in Controllers /\ ctl'.pending = Pending("act", calls, awaiting)
      /\ ctl'.state = "awaiting_user_confirmation" => awaiting
  <2>1. CASE awaiting
    <3>1. PendingAfter(c, "awaiting_user_confirmation") = c.pending
      BY PendingKept
    <3>2. "awaiting_user_confirmation" \in AgentState
      BY DEF AgentState
    <3> QED
      BY <1>1, <1>2, <1>7, <2>1, <3>1, <3>2, CtlSet
  <2>2. CASE ~awaiting
    BY <1>1, <1>3, <1>7, <2>2
  <2> QED
    BY <2>1, <2>2
<1>9. /\ ctl'.pending.type = "act" /\ ctl'.pending.id = nextId /\ ctl'.pending.call = calls
      /\ ctl'.pending.asked = nextId /\ ctl'.pending.awaiting = awaiting
  BY <1>8 DEF Pending
<1>10. QueuesOK' /\ Incoming' = Incoming \cup {e} /\ ToRun' = ToRun \cup {e} /\ ToRecall' = ToRecall /\ nextId' = nextId + 1
  BY <1>1, <1>2, <1>4, EmitOne DEF Incoming
<1>11. Typed'
  BY <1>1, <1>2, <1>8, <1>10 DEF Typed
<1>12. Refers'
  <2>1. \A x \in Incoming' : /\ x.call <= calls'
                             /\ x.type = "obs" => x.cause < x.id
                             /\ x.type = "change" => x.info \in {"running", "paused", "stopped",
                                                                 "user_confirmed", "user_rejected"}
    BY <1>1, <1>2, <1>4, <1>10 DEF ControlInv, Refers
  <2>2. /\ ctl'.pending.id < nextId' /\ ctl'.pending.asked < nextId' /\ ctl'.pending.call <= calls'
        /\ ctl'.pending.type # "none"
    BY <1>1, <1>2, <1>9, <1>10
  <2>3. \A a \in ToRun' : a.type = "act" /\ a.call <= calls'
    BY <1>1, <1>2, <1>4, <1>10 DEF ControlInv, Refers
  <2> QED
    BY <1>1, <2>1, <2>2, <2>3 DEF ControlInv, Refers
<1>13. Thinks'
  BY <1>1 DEF Thinks
<1>14. Once'
  <2>1. \A a \in ToRun : a.call < calls /\ a.call \in Nat
    BY <1>1, <1>2, QueuedAreEvents DEF ControlInv, Thinks, ToRun, QueuesOK, Events
  <2>2. \A r \in ran : r.call < calls /\ r.call \in Nat
    BY <1>1 DEF ControlInv, Thinks, Typed
  <2>3. Executes(e) => ~awaiting
    BY <1>5 DEF Executes
  <2>4. \A a, b \in ToRun' : Executes(a) /\ Executes(b) /\ a.call = b.call => a = b
    BY <1>2, <1>4, <1>10, <2>1 DEF ControlInv, Once
  <2>5. \A a \in ToRun', r \in ran' : Executes(a) => a.call # r.call
    BY <1>1, <1>2, <1>4, <1>10, <2>2 DEF ControlInv, Once
  <2>6. ASSUME ctl'.pending.awaiting
        PROVE  /\ \A a \in ToRun' : Executes(a) => a.call # ctl'.pending.call
               /\ \A r \in ran' : r.call # ctl'.pending.call
    <3>1. ~Executes(e)
      BY <1>9, <2>3, <2>6
    <3> QED
      BY <1>1, <1>2, <1>9, <1>10, <2>1, <2>2, <3>1
  <2>7. RunsOnce'
    BY <1>1 DEF ControlInv, Once, RunsOnce
  <2> QED
    BY <1>9, <2>4, <2>5, <2>6, <2>7 DEF Once, Executes
<1>15. Asked'
  <2>1. \A x \in Incoming' : ~Answers(x)
    BY <1>1, <1>4, <1>10 DEF ControlInv, Asked, WhileAnswered, Answers
  <2>2. ConfirmedAfterRequest'
    BY <1>1 DEF ControlInv, Asked, ConfirmedAfterRequest
  <2>3. ctl'.state = "awaiting_user_confirmation" => ctl'.pending.awaiting
    BY <1>8, <1>9
  <2> QED
    BY <2>1, <2>2, <2>3 DEF Asked, Answers
<1>16. ctl'.pending.awaiting \/ \E a \in ToRun' : a.id = ctl'.pending.id /\ a.info # "awaiting"
  BY <1>4, <1>5, <1>9, <1>10
<1> QED
  BY <1>11, <1>12, <1>13, <1>14, <1>15, <1>16 DEF ControlInv

\* agent.step returns.
LEMMA AgentReturned ==
  ASSUME ControlInv, AgentReturns
  PROVE  /\ ControlInv'
         /\ \/ ctl'.pending = NoAction
            \/ ctl'.pending.awaiting
            \/ \E a \in ToRun' : a.id = ctl'.pending.id /\ a.info # "awaiting"
PROOF
<1>1. /\ ctl \in Controllers /\ Typed /\ QueuesOK /\ calls \in Nat /\ nextId \in Nat \ {0}
      /\ Ordered(inbox, nextId) /\ reports \in Nat
  BY DEF ControlInv, Typed, QueuesOK
<1>2. ASSUME NEW type \in {"say", "finished", "rejected", "condense", "obs"},
             NEW info \in EventInfo, ReturnsUnreported(ctl, <<Event(type, 0, 0, info)>>)
      PROVE  ControlInv' /\ ctl'.pending = NoAction
  <2> DEFINE e == Event(type, 0, 0, info)
  <2>1. /\ pc = "thinking" /\ ctl' = ctl /\ Emit(inbox, <<e>>) /\ pc' = "ready"
        /\ UNCHANGED <<answered, reports, users, calls, ran, approved, raced>>
    BY <1>2 DEF ReturnsUnreported, Returns, history
  <2>2. e \in Events /\ e.id = nextId /\ e.type = type /\ e.call = 0 /\ e.cause = 0
    BY <1>1 DEF Event, Events, EventType
  <2> HIDE DEF e
  <2>3. QueuesOK' /\ Incoming' = Incoming \cup {e} /\ ToRun' = ToRun /\ ToRecall' = ToRecall /\ nextId' = nextId + 1
    BY <1>1, <2>1, <2>2, EmitOne DEF Incoming
  <2>4. ctl.pending = NoAction /\ ctl.state \in {"running", "error"}
    BY <2>1 DEF ControlInv, Thinks
  <2>5. e.type # "change" /\ e.cause < e.id
    BY <1>1, <2>2
  <2> QED
    BY <1>1, <2>1, <2>2, <2>3, <2>4, <2>5, ReturnKeeps
<1>3. ASSUME NEW new \in {"error", "rate_limited"}, NEW n \in {0, 1}, LLMRaises(new, n)
      PROVE  ControlInv' /\ ctl'.pending = NoAction
  <2>1. /\ pc = "thinking" /\ ctl' = SetAgentState(ctl, new)
        /\ Emit(inbox, SetAgentStateOut(ctl, new)) /\ pc' = "ready" /\ reports' = reports + n
        /\ UNCHANGED <<answered, users, calls, ran, approved, raced>>
    BY <1>3 DEF LLMRaises, Returns, history
  <2>2. ctl.pending = NoAction /\ ctl.state \in {"running", "error"}
    BY <2>1 DEF ControlInv, Thinks
  <2>3. SetAgentStateOut(ctl, new) = NoEvent
    BY <2>2 DEF SetAgentStateOut, ResetOut
  <2>4. QueuesOK' /\ Incoming' = Incoming /\ ToRun' = ToRun /\ ToRecall' = ToRecall /\ nextId' = nextId
    BY <1>1, <2>1, <2>3, EmitNone DEF Incoming
  <2>5. new \in AgentState
    BY DEF AgentState
  <2>6. PendingAfter(ctl, new) = NoAction
    BY <2>2, PendingKept
  <2>7. ctl' \in Controllers /\ ctl'.state = new /\ ctl'.pending = NoAction
    BY <1>1, <2>1, <2>5, <2>6, CtlSet
  <2> QED
    BY <1>1, <2>1, <2>4, <2>7, ReturnKeeps
<1>4. CASE Acts(FALSE) \/ (ConfirmationMode /\ Acts(TRUE))
  BY <1>4, ActKeeps
<1>5. CASE Says("wait") \/ Says("go_on")
  BY <1>2, <1>5 DEF Says, EventInfo
<1>6. CASE \E type \in {"finished", "rejected"} : Ends(type)
  BY <1>2, <1>6 DEF Ends, EventInfo
<1>7. CASE BadAnswer \/ ContextExceeded
  BY <1>2, <1>7 DEF BadAnswer, ContextExceeded, EventInfo
<1>8. CASE LLMRaises("error", 1) \/ \E new \in {"error", "rate_limited"} : LLMRaises(new, 0)
  BY <1>3, <1>8
<1> QED
  BY <1>4, <1>5, <1>6, <1>7, <1>8 DEF AgentReturns

\* A status error from the session's thread.
LEMMA ErrorReported ==
  ASSUME ControlInv, StatusError
  PROVE  /\ ControlInv'
         /\ ctl'.pending = NoAction \/ (ctl'.pending = ctl.pending /\ ctl.state = "error")
PROOF
<1>1. /\ ctl \in Controllers /\ Typed /\ QueuesOK /\ calls \in Nat /\ nextId \in Nat \ {0}
      /\ Ordered(inbox, nextId) /\ reports \in Nat
  BY DEF ControlInv, Typed, QueuesOK
<1>2. /\ reports' = reports - 1 /\ reports > 0 /\ ctl' = SetAgentState(ctl, "error") /\ pc' = pc
      /\ Emit(inbox, SetAgentStateOut(ctl, "error"))
      /\ UNCHANGED <<answered, users, calls, ran, approved>>
  BY DEF StatusError
<1>3. "error" \in AgentState
  BY DEF AgentState
<1>4. PendingAfter(ctl, "error") = IF ctl.state = "error" THEN ctl.pending ELSE NoAction
  BY PendingKept
<1>5. /\ ctl' \in Controllers /\ ctl'.state = "error"
      /\ ctl'.pending = IF ctl.state = "error" THEN ctl.pending ELSE NoAction
  BY <1>1, <1>2, <1>3, <1>4, CtlSet
<1>6. SetAgentStateOut(ctl, "error") \in {NoEvent, ResetOut(ctl)}
  BY DEF SetAgentStateOut
<1>7. /\ QueuesOK' /\ ToRun' = ToRun /\ ToRecall' = ToRecall /\ nextId' \in Nat /\ nextId <= nextId'
      /\ \A e \in Incoming' : \/ e \in Incoming
                              \/ e.type = "obs" /\ e.cause < e.id /\ e.call <= calls
  <2>1. CASE SetAgentStateOut(ctl, "error") = NoEvent
    BY <1>1, <1>2, <2>1, EmitNone DEF Incoming
  <2>2. CASE SetAgentStateOut(ctl, "error") # NoEvent
    <3>1. PICK e \in Events : /\ SetAgentStateOut(ctl, "error") = <<e>> /\ e.id = nextId
                              /\ e.type = "obs" /\ e.cause < e.id /\ e.call <= calls
      BY <1>6, <2>2, ResetEvent
    <3>2. QueuesOK' /\ Incoming' = Incoming \cup {e} /\ ToRun' = ToRun /\ ToRecall' = ToRecall /\ nextId' = nextId + 1
      BY <1>1, <1>2, <3>1, EmitOne DEF Incoming
    <3> QED
      BY <1>1, <3>1, <3>2
  <2> QED
    BY <2>1, <2>2
<1>8. Typed'
  BY <1>1, <1>2, <1>5, <1>7 DEF Typed
<1>9. Refers'
  <2>1. \A e \in Incoming' : /\ e.call <= calls'
                             /\ e.type = "obs" => e.cause < e.id
                             /\ e.type = "change" => e.info \in {"running", "paused", "stopped",
                                                                 "user_confirmed", "user_rejected"}
    BY <1>2, <1>7 DEF ControlInv, Refers
  <2>2. /\ ctl'.pending.id < nextId' /\ ctl'.pending.asked < nextId'
        /\ ctl'.pending.call <= calls'
        /\ ctl'.pending.type = "none" => ctl'.pending = NoAction
    <3>1. CASE ctl'.pending = NoAction
      BY <1>1, <1>2, <1>7, <3>1 DEF NoAction
    <3>2. CASE ctl'.pending = ctl.pending
      BY <1>1, <1>2, <1>7, <3>2 DEF ControlInv, Refers, Controllers, Actions
    <3> QED
      BY <1>5, <3>1, <3>2
  <2> QED
    BY <1>2, <1>7, <2>1, <2>2 DEF ControlInv, Refers
<1>10. Thinks'
  BY <1>2, <1>5, <1>7 DEF ControlInv, Thinks
<1>11. Once'
  BY <1>2, <1>5, <1>7, NoActionTyped DEF ControlInv, Once, RunsOnce, Executes
<1>12. Asked'
  <2>1. ConfirmedAfterRequest'
    BY <1>2 DEF ControlInv, Asked, ConfirmedAfterRequest
  <2>2. ASSUME NEW x \in Incoming', Answers(x) PROVE WhileAnswered(x)'
    <3>1. x \in Incoming /\ WhileAnswered(x)
      BY <1>7, <2>2 DEF ControlInv, Asked, Answers
    <3>2. \A e \in Incoming' : e.type = "change" => x.id <= e.id
      BY <1>7, <3>1 DEF WhileAnswered
    <3> QED
      BY <1>2, <1>5, <3>1, <3>2, NoActionTyped DEF WhileAnswered
  <2> QED
    BY <1>5, <2>1, <2>2 DEF Asked, Answers
<1> QED
  BY <1>5, <1>8, <1>9, <1>10, <1>11, <1>12 DEF ControlInv

\* The user's message or change of state.
LEMMA UserKeeps ==
  ASSUME ControlInv, User
  PROVE  ControlInv' /\ ctl' = ctl /\ ToRun' = ToRun /\ ToRecall' = ToRecall /\ Incoming \subseteq Incoming'
         /\ UNCHANGED <<reports, raced>>
PROOF
<1>1. /\ ctl \in Controllers /\ Typed /\ QueuesOK /\ calls \in Nat /\ nextId \in Nat \ {0}
      /\ Ordered(inbox, nextId) /\ users \in Nat
  BY DEF ControlInv, Typed, QueuesOK
<1>2. PICK type \in {"message", "change"}, info \in EventInfo :
        /\ UserAdds(Event(type, 0, 0, info))
        /\ type = "change" => info \in {"running", "paused", "stopped",
                                        "user_confirmed", "user_rejected"}
        /\ (type = "change" /\ info \in {"user_confirmed", "user_rejected"}) =>
             /\ ctl.state = "awaiting_user_confirmation"
             /\ \A n \in DOMAIN inbox : inbox[n].type # "change"
  <2>1. CASE SendMessage
    <3>1. "user" \in EventInfo
      BY DEF EventInfo
    <3> QED
      BY <2>1, <3>1 DEF SendMessage
  <2>2. CASE \E new \in {"running", "paused", "stopped"} : ChangeState(new)
    <3>1. PICK new \in {"running", "paused", "stopped"} : UserAdds(Event("change", 0, 0, new))
      BY <2>2 DEF ChangeState
    <3>2. new \in EventInfo
      BY DEF EventInfo
    <3> QED
      BY <3>1, <3>2
  <2>3. CASE \E new \in {"user_confirmed", "user_rejected"} : Confirm(new)
    <3>1. PICK new \in {"user_confirmed", "user_rejected"} :
            /\ UserAdds(Event("change", 0, 0, new))
            /\ ctl.state = "awaiting_user_confirmation"
            /\ \A n \in DOMAIN inbox : inbox[n].type # "change"
      BY <2>3 DEF Confirm
    <3>2. new \in EventInfo
      BY DEF EventInfo
    <3> QED
      BY <3>1, <3>2
  <2> QED
    BY <2>1, <2>2, <2>3 DEF User
<1> DEFINE e == Event(type, 0, 0, info)
<1>3. /\ users' = users + 1 /\ Emit(inbox, <<e>>)
      /\ UNCHANGED <<ctl, pc, answered, reports, calls, ran, approved, raced>>
  BY <1>2 DEF UserAdds
<1>4. e \in Events /\ e.id = nextId /\ e.type = type /\ e.call = 0 /\ e.info = info
  BY <1>1 DEF Event, Events, EventType
<1> HIDE DEF e
<1>5. QueuesOK' /\ Incoming' = Incoming \cup {e} /\ ToRun' = ToRun /\ ToRecall' = ToRecall /\ nextId' = nextId + 1
  BY <1>1, <1>3, <1>4, EmitOne DEF Incoming
<1>6. Answers(e) => /\ ctl.state = "awaiting_user_confirmation"
                    /\ \A x \in Incoming : x.type # "change"
  BY <1>2, <1>4 DEF Answers, Incoming, Elems
<1>7. Typed'
  BY <1>1, <1>3, <1>5 DEF Typed
<1>8. Refers'
  <2>1. \A x \in Incoming' : /\ x.call <= calls'
                             /\ x.type = "obs" => x.cause < x.id
                             /\ x.type = "change" => x.info \in {"running", "paused", "stopped",
                                                                 "user_confirmed", "user_rejected"}
    BY <1>1, <1>2, <1>3, <1>4, <1>5 DEF ControlInv, Refers
  <2>2. ctl.pending.id < nextId' /\ ctl.pending.asked < nextId'
    BY <1>1, <1>5 DEF ControlInv, Refers, Controllers, Actions
  <2> QED
    BY <1>3, <1>5, <2>1, <2>2 DEF ControlInv, Refers
<1>9. Thinks'
  BY <1>3, <1>5 DEF ControlInv, Thinks
<1>10. Once'
  BY <1>3, <1>5 DEF ControlInv, Once, RunsOnce, Executes
<1>11. Asked'
  <2>1. ConfirmedAfterRequest'
    BY <1>3 DEF ControlInv, Asked, ConfirmedAfterRequest
  <2>2. \A x \in Incoming : x \in Events /\ x.id < nextId
    BY <1>1, QueuedAreEvents DEF Incoming
  <2>3. ASSUME NEW x \in Incoming', Answers(x) PROVE WhileAnswered(x)'
    <3>1. CASE x = e
      <4>1. ctl.state = "awaiting_user_confirmation" /\ \A y \in Incoming : y.type # "change"
        BY <1>6, <2>3, <3>1
      <4>2. pc # "thinking" /\ ctl.pending.type = "act" /\ ctl.pending.awaiting
        BY <4>1 DEF ControlInv, Thinks, Asked, Once
      <4>3. ctl.pending.asked < x.id /\ x.id <= x.id
        BY <1>1, <1>4, <3>1 DEF ControlInv, Refers, Events
      <4> QED
        BY <1>3, <1>5, <3>1, <4>1, <4>2, <4>3 DEF WhileAnswered
    <3>2. CASE x # e
      <4>1. x \in Incoming /\ WhileAnswered(x) /\ x.id <= e.id
        BY <1>1, <1>4, <1>5, <2>2, <2>3, <3>2 DEF ControlInv, Asked, Events
      <4> QED
        BY <1>3, <1>5, <4>1 DEF WhileAnswered
    <3> QED
      BY <3>1, <3>2
  <2> QED
    BY <1>3, <2>1, <2>3 DEF ControlInv, Asked, Answers
<1> QED
  BY <1>3, <1>5, <1>7, <1>8, <1>9, <1>10, <1>11 DEF ControlInv

\* What the runtime takes from its queue, or the memory from its own.
LEMMA ElsewhereKeeps ==
  ASSUME ControlInv, UNCHANGED <<ctl, pc, answered, users, calls, approved>>,
         QueuesOK', ToRun' \subseteq ToRun, nextId' \in Nat, nextId <= nextId', reports' \in Nat,
         \A e \in Incoming' : \/ e \in Incoming
                              \/ e.type = "obs" /\ e.cause < e.id /\ e.call <= calls,
         \/ ran' = ran
         \/ \E a \in ToRun \ ToRun' : Executes(a) /\ ran' = Executed(a)
  PROVE  ControlInv'
PROOF
<1>1. /\ ctl \in Controllers /\ Typed /\ QueuesOK /\ calls \in Nat /\ nextId \in Nat \ {0}
  BY DEF ControlInv, Typed, QueuesOK
<1>2. \A a \in ToRun : a \in Events
  BY <1>1, QueuedAreEvents DEF ToRun, QueuesOK
<1>3. \A r \in ran' : \/ r \in ran
                      \/ \E a \in ToRun \ ToRun' : Executes(a) /\ r = [call |-> a.call, id |-> a.id, info |-> a.info]
  BY DEF Executed
<1>4. Typed'
  <2>1. ran' \subseteq [call : Nat, id : Nat, info : EventInfo]
    BY <1>1, <1>2, <1>3 DEF Typed, Events
  <2> QED
    BY <1>1, <2>1 DEF Typed
<1>5. Refers'
  <2>1. \A e \in Incoming' : /\ e.call <= calls'
                             /\ e.type = "obs" => e.cause < e.id
                             /\ e.type = "change" => e.info \in {"running", "paused", "stopped",
                                                                 "user_confirmed", "user_rejected"}
    BY DEF ControlInv, Refers
  <2>2. ctl.pending.id < nextId' /\ ctl.pending.asked < nextId'
    BY <1>1 DEF ControlInv, Refers, Controllers, Actions
  <2>3. \A r \in ran' : r.call <= calls
    BY <1>3 DEF ControlInv, Refers
  <2> QED
    BY <2>1, <2>2, <2>3 DEF ControlInv, Refers
<1>6. Thinks'
  BY <1>3 DEF ControlInv, Thinks
<1>7. Once'
  <2>1. \A a, b \in ToRun' : Executes(a) /\ Executes(b) /\ a.call = b.call => a = b
    BY DEF ControlInv, Once
  <2>2. \A a \in ToRun', r \in ran' : Executes(a) => a.call # r.call
    BY <1>3 DEF ControlInv, Once
  <2>3. RunsOnce'
    <3>1. CASE ran' = ran
      BY <3>1 DEF ControlInv, Once, RunsOnce
    <3>2. ASSUME NEW a \in ToRun \ ToRun', Executes(a), ran' = Executed(a) PROVE RunsOnce'
      <4>1. \A r \in ran : r.call # a.call
        BY <3>2 DEF ControlInv, Once
      <4> QED
        BY <3>2, <4>1 DEF ControlInv, Once, RunsOnce, Executed
    <3> QED
      BY <3>1, <3>2
  <2>4. ASSUME ctl.pending.awaiting
        PROVE  \A r \in ran' : r.call # ctl.pending.call
    BY <1>3, <2>4 DEF ControlInv, Once
  <2> QED
    BY <2>1, <2>2, <2>3, <2>4 DEF ControlInv, Once, Executes
<1>8. Asked'
  <2>1. ConfirmedAfterRequest'
    BY DEF ControlInv, Asked, ConfirmedAfterRequest
  <2>2. ASSUME NEW x \in Incoming', Answers(x) PROVE WhileAnswered(x)'
    <3>1. x \in Incoming /\ WhileAnswered(x)
      BY <2>2 DEF ControlInv, Asked, Answers
    <3>2. \A e \in Incoming' : e.type = "change" => x.id <= e.id
      BY <3>1 DEF WhileAnswered
    <3> QED
      BY <3>1, <3>2 DEF WhileAnswered
  <2> QED
    BY <2>1, <2>2 DEF ControlInv, Asked, Answers
<1> QED
  BY <1>4, <1>5, <1>6, <1>7, <1>8 DEF ControlInv

\* An observation appended to the controller's queue.
LEMMA ObservationAdded ==
  ASSUME QueuesOK, NEW e \in Events, e.id = nextId, inbox' = Append(inbox, e), nextId' = nextId + 1
  PROVE  Ordered(inbox', nextId') /\ Incoming' = Incoming \cup {e} /\ nextId' \in Nat \ {0}
PROOF
<1>1. nextId \in Nat \ {0} /\ Ordered(inbox, nextId) /\ inbox \in Seq(Events)
  BY DEF QueuesOK, Ordered
<1>2. inbox' = inbox \o <<e>>
  BY <1>1, AppendIsConcat
<1> QED
  BY <1>1, <1>2, OneMoreOrdered DEF Incoming

\* The runtime and the memory: what they take is answered, or reported.
LEMMA OthersAnswer ==
  ASSUME ControlInv, Runtime \/ Memory
  PROVE  /\ ControlInv' /\ ctl' = ctl /\ raced' = raced /\ Incoming \subseteq Incoming' /\ reports <= reports'
         /\ reports' \in Nat
         /\ \A a \in ToRun : \/ a \in ToRun' \/ a.info = "awaiting" \/ reports' > 0
                             \/ \E e \in Incoming' : e.type = "obs" /\ e.cause = a.id
         /\ \A a \in ToRecall : \/ a \in ToRecall' \/ reports' > 0
                                \/ \E e \in Incoming' : e.type = "obs" /\ e.cause = a.id
PROOF
<1>1. /\ Typed /\ QueuesOK /\ calls \in Nat /\ nextId \in Nat \ {0} /\ reports \in Nat
      /\ Ordered(runq, nextId) /\ Ordered(memq, nextId) /\ Ordered(inbox, nextId)
  BY DEF ControlInv, Typed, QueuesOK
<1>2. CASE Runs
  <2> DEFINE a == Head(runq)
  <2>1. /\ runq # <<>> /\ runq' = Tail(runq) /\ memq' = memq
        /\ UNCHANGED <<ctl, pc, answered, reports, users, calls, approved, raced>>
        /\ ran' = IF Executes(a) THEN Executed(a) ELSE ran
    BY <1>2 DEF Runs
  <2>2. /\ a \in ToRun /\ Ordered(Tail(runq), nextId) /\ ToRun' = ToRun \ {a}
    BY <1>1, <2>1, TailOrdered DEF ToRun
  <2>3. a \in Events /\ a.id < nextId /\ a.call <= calls
    BY <1>1, <2>2, QueuedAreEvents DEF ToRun, ControlInv, Refers
  <2>4. ToRecall' = ToRecall
    BY <2>1 DEF ToRecall
  <2>5. CASE a.info = "awaiting"
    <3>1. inbox' = inbox /\ nextId' = nextId
      BY <1>2, <2>5 DEF Runs
    <3>2. QueuesOK' /\ Incoming' = Incoming
      BY <1>1, <2>1, <2>2, <3>1 DEF QueuesOK, Incoming
    <3>3. ControlInv'
      BY <1>1, <2>1, <2>2, <3>1, <3>2, ElsewhereKeeps
    <3> QED
      BY <1>1, <2>1, <2>2, <2>4, <2>5, <3>2, <3>3
  <2>6. CASE a.info # "awaiting"
    <3> DEFINE e == Event("obs", a.call, a.id, "done")
    <3>1. inbox' = Append(inbox, e) /\ nextId' = nextId + 1
      BY <1>2, <2>6 DEF Runs
    <3>2. e \in Events /\ e.id = nextId /\ e.type = "obs" /\ e.cause = a.id /\ e.call = a.call
      BY <1>1, <2>3 DEF Event, Events, EventType, EventInfo
    <3> HIDE DEF e
    <3>3. Ordered(inbox', nextId') /\ Incoming' = Incoming \cup {e}
      BY <1>1, <3>1, <3>2, ObservationAdded
    <3>4. QueuesOK'
      BY <1>1, <2>1, <2>2, <3>1, <3>3, OrderedAbove DEF QueuesOK
    <3>5. ControlInv'
      BY <1>1, <2>1, <2>2, <2>3, <3>1, <3>2, <3>3, <3>4, ElsewhereKeeps
    <3> QED
      BY <1>1, <2>1, <2>2, <2>4, <3>2, <3>3, <3>5
  <2> QED
    BY <2>5, <2>6
<1>3. CASE RunFails
  <2> DEFINE a == Head(runq)
  <2>1. /\ runq # <<>> /\ runq' = Tail(runq) /\ memq' = memq /\ reports' = reports + 1
        /\ UNCHANGED <<ctl, pc, answered, inbox, nextId, users, calls, approved, raced>>
        /\ Executes(a) /\ ran' \in {ran, Executed(a)}
    BY <1>3 DEF RunFails
  <2>2. a \in ToRun /\ Ordered(Tail(runq), nextId) /\ ToRun' = ToRun \ {a} /\ ToRecall' = ToRecall
    BY <1>1, <2>1, TailOrdered DEF ToRun, ToRecall
  <2>3. QueuesOK' /\ Incoming' = Incoming
    BY <1>1, <2>1, <2>2 DEF QueuesOK, Incoming
  <2>4. ControlInv'
    BY <1>1, <2>1, <2>2, <2>3, ElsewhereKeeps
  <2> QED
    BY <1>1, <2>1, <2>2, <2>3, <2>4
<1>4. ASSUME NEW info \in {"recalled", "null"}, Recalls(info)
      PROVE  /\ ControlInv' /\ ctl' = ctl /\ raced' = raced /\ Incoming \subseteq Incoming' /\ reports' = reports
             /\ ToRun' = ToRun
             /\ \A a \in ToRecall : a \in ToRecall' \/ \E e \in Incoming' : e.type = "obs" /\ e.cause = a.id
  <2> DEFINE a == Head(memq)
             e == Event("obs", 0, a.id, info)
  <2>1. /\ memq # <<>> /\ memq' = Tail(memq) /\ runq' = runq
        /\ inbox' = Append(inbox, e) /\ nextId' = nextId + 1
        /\ UNCHANGED <<ctl, pc, answered, reports, users, calls, ran, approved, raced>>
    BY <1>4 DEF Recalls, history
  <2>2. a \in ToRecall /\ Ordered(Tail(memq), nextId) /\ ToRecall' = ToRecall \ {a} /\ ToRun' = ToRun
    BY <1>1, <2>1, TailOrdered DEF ToRun, ToRecall
  <2>3. a \in Events /\ a.id < nextId
    BY <1>1, <2>2, QueuedAreEvents DEF ToRecall
  <2>4. e \in Events /\ e.id = nextId /\ e.type = "obs" /\ e.cause = a.id /\ e.call = 0
    BY <1>1, <2>3 DEF Event, Events, EventType, EventInfo
  <2> HIDE DEF e
  <2>5. Ordered(inbox', nextId') /\ Incoming' = Incoming \cup {e}
    BY <1>1, <2>1, <2>4, ObservationAdded
  <2>6. QueuesOK'
    BY <1>1, <2>1, <2>2, <2>5, OrderedAbove DEF QueuesOK
  <2>7. ControlInv'
    BY <1>1, <2>1, <2>2, <2>3, <2>4, <2>5, <2>6, ElsewhereKeeps
  <2> QED
    BY <2>1, <2>2, <2>4, <2>5, <2>7
<1>5. CASE RecallFails
  <2>1. /\ memq # <<>> /\ memq' = Tail(memq) /\ runq' = runq /\ reports' = reports + 1
        /\ UNCHANGED <<ctl, pc, answered, inbox, nextId, users, calls, ran, approved, raced>>
    BY <1>5 DEF RecallFails, history
  <2>2. Ordered(Tail(memq), nextId) /\ ToRun' = ToRun
    BY <1>1, <2>1, TailOrdered DEF ToRun
  <2>3. QueuesOK' /\ Incoming' = Incoming
    BY <1>1, <2>1, <2>2 DEF QueuesOK, Incoming
  <2>4. ControlInv'
    BY <1>1, <2>1, <2>2, <2>3, ElsewhereKeeps
  <2> QED
    BY <1>1, <2>1, <2>3, <2>4
<1> QED
  BY <1>1, <1>2, <1>3, <1>4, <1>5 DEF Runtime, Memory

-----------------------------------------------------------------------------
(* The control invariant is inductive *)

\* The invariant holds in a new controller, and every step keeps it.
LEMMA InitControl == Init => ControlInv
PROOF
<1> SUFFICES ASSUME Init PROVE ControlInv
  OBVIOUS
<1>1. Incoming = {} /\ ToRun = {} /\ ToRecall = {}
  BY DEF Init, Incoming, ToRun, ToRecall, Elems
<1>2. ctl.pending = NoAction /\ ctl.state = "loading"
  BY DEF Init
<1>3. QueuesOK
  <2>1. Ordered(<<>>, 1)
    BY DEF Ordered
  <2> QED
    BY <2>1 DEF Init, QueuesOK
<1>4. Typed
  <2>1. ctl \in Controllers
    BY NoActionTyped, ControllerAssumption DEF Init, Controllers, AgentState
  <2> QED
    BY <1>3, <2>1 DEF Init, Typed
<1>5. Refers
  BY <1>1, <1>2 DEF Init, Refers, NoAction
<1>6. Thinks /\ Once /\ Asked
  BY <1>1, <1>2, NoActionTyped DEF Init, Thinks, Once, Asked, RunsOnce, ConfirmedAfterRequest
<1> QED
  BY <1>4, <1>5, <1>6 DEF ControlInv

\* Every step of the system keeps it.
LEMMA NextControl == ControlInv /\ [Next]_vars => ControlInv'
PROOF
<1> SUFFICES ASSUME ControlInv, [Next]_vars PROVE ControlInv'
  OBVIOUS
<1>1. CASE UNCHANGED vars \/ StepBlocked
  BY <1>1, BlockedKeeps DEF vars, StepBlocked
<1>2. CASE HandleChange
  BY <1>2, ChangeHandled, AnswerHandled
<1>3. CASE /\ Controller /\ ~HandleChange /\ ~StepBlocked
  BY <1>3, MessageHandled, QuietHandlers, ObservationHandled, StepTaken, AgentReturned
     DEF Controller
<1>4. CASE User \/ StatusError \/ Runtime \/ Memory
  BY <1>4, UserKeeps, ErrorReported, OthersAnswer
<1> QED
  BY <1>1, <1>2, <1>3, <1>4 DEF Next

\* It implies the types the runs check.
LEMMA ControlTypes == ControlInv => ControllerTypeOK
PROOF
<1> SUFFICES ASSUME ControlInv PROVE ControllerTypeOK
  OBVIOUS
<1>1. ASSUME NEW q, NEW k \in Nat, Ordered(q, k), NEW n \in DOMAIN q PROVE IsEvent(q[n])
  <2>1. q[n] \in Events
    BY <1>1, ElementOfSeq, LenProperties DEF Ordered
  <2> QED
    BY <2>1 DEF Events, EventType, IsEvent
<1>2. nextId \in Nat /\ Ordered(inbox, nextId) /\ Ordered(runq, nextId) /\ Ordered(memq, nextId)
  BY DEF ControlInv, Typed, QueuesOK
<1>3. /\ \A n \in DOMAIN inbox : IsEvent(inbox[n])
      /\ \A n \in DOMAIN runq : IsEvent(runq[n])
      /\ \A n \in DOMAIN memq : IsEvent(memq[n])
  BY <1>1, <1>2
<1>4. /\ ctl.state \in AgentState /\ ctl.pending \in Actions
      /\ ctl.iter \in Nat /\ ctl.maxIter \in Nat /\ ctl.maxCost \in Nat
  BY DEF ControlInv, Typed, Controllers
<1>5. /\ ctl.pending.type \in {"none", "recall", "act"}
      /\ ctl.pending.id \in Nat
  BY <1>4 DEF Actions
<1> QED
  BY <1>3, <1>4, <1>5 DEF ControlInv, Typed, Refers, ControllerTypeOK

\* A tool call is executed at most once, and a confirmation approves only an
\* action that was pending before it came (set_agent_state_to, _handle_action and
\* on_event of agent_controller.py, Runtime._handle_action): for any limits, modes
\* and faults, and however the status errors and the runtime interleave.
THEOREM ControllerConfirmed == Spec => []ConfirmedRunsOnce
PROOF
<1>1. ControlInv => ConfirmedRunsOnce
  BY ControlTypes DEF ControlInv, Once, Asked, ConfirmedRunsOnce
<1> QED
  BY InitControl, NextControl, <1>1, PTL DEF Spec

-----------------------------------------------------------------------------
(* The answer to the pending action *)

\* No step loses the answer to the pending action.
LEMMA PendsStep ==
  ASSUME ControlInv, IdleInv, Pends, [Next]_vars
  PROVE  Pends'
PROOF
<1>1. ASSUME ctl'.pending = ctl.pending, ToRun' = ToRun, ToRecall' = ToRecall, reports' = reports, raced' = raced,
             \A e \in Incoming : e.type = "obs" => e \in Incoming'
      PROVE  Pends'
  BY <1>1 DEF Pends, AnswerComes
<1>2. ASSUME ctl'.pending = NoAction PROVE Pends'
  BY <1>2 DEF Pends
<1>3. CASE UNCHANGED vars \/ StepBlocked
  <2>1. UNCHANGED <<ctl, queues, reports, raced>>
    BY <1>3 DEF vars, StepBlocked, history
  <2>2. ToRun' = ToRun /\ ToRecall' = ToRecall /\ Incoming' = Incoming
    BY <2>1, QueuesSame DEF ControlInv, Typed
  <2> QED
    BY <1>1, <2>1, <2>2
<1>4. CASE HandleChange
  <2>1. UNCHANGED <<reports, raced>>
    BY <1>4 DEF HandleChange
  <2>2. CASE Answers(Head(inbox))
    BY <1>4, <2>2, AnswerHandled DEF Pends, AnswerComes
  <2>3. CASE ~Answers(Head(inbox))
    BY <1>1, <1>2, <1>4, <2>1, <2>3, ChangeHandled
  <2> QED
    BY <2>2, <2>3
<1>5. CASE HandleMessage
  BY <1>5, MessageHandled DEF Pends, AnswerComes
<1>6. CASE HandleSay \/ HandleEnd \/ HandleOtherAction
  BY <1>1, <1>6, QuietHandlers
<1>7. CASE HandleObservation
  <2>1. UNCHANGED <<reports, raced>>
    BY <1>7 DEF HandleObservation, history
  <2>2. /\ ToRun' = ToRun /\ ToRecall' = ToRecall /\ Incoming' = Incoming \ {Head(inbox)}
        /\ \/ ctl'.pending = NoAction
           \/ /\ ctl' = ctl
              /\ ctl.pending.id # Head(inbox).cause \/ ctl.pending.awaiting
    BY <1>7, ObservationHandled
  <2> QED
    BY <2>1, <2>2 DEF Pends, AnswerComes
<1>8. CASE StepStuck \/ StepOverIterations \/ StepOverBudget \/ StepNoBalance \/ StepCallsLLM
  BY <1>2, <1>8, StepTaken
<1>9. CASE AgentReturns
  BY <1>9, AgentReturned DEF Pends, AnswerComes
<1>10. CASE StatusError
  <2>1. raced => raced'
    BY <1>10, Zenon DEF StatusError
  <2>2. ctl'.pending = NoAction \/ (ctl'.pending = ctl.pending /\ ctl.state = "error")
    BY <1>10, ErrorReported
  <2> QED
    BY <2>1, <2>2 DEF Pends, IdleInv, IdleHasNoPending
<1>11. CASE User
  BY <1>1, <1>11, UserKeeps
<1>12. CASE Runtime \/ Memory
  <2>1. /\ ctl' = ctl /\ raced' = raced /\ Incoming \subseteq Incoming' /\ reports <= reports'
        /\ reports' \in Nat
        /\ \A a \in ToRun : \/ a \in ToRun' \/ a.info = "awaiting" \/ reports' > 0
                            \/ \E e \in Incoming' : e.type = "obs" /\ e.cause = a.id
        /\ \A a \in ToRecall : \/ a \in ToRecall' \/ reports' > 0
                               \/ \E e \in Incoming' : e.type = "obs" /\ e.cause = a.id
    BY <1>12, OthersAnswer
  <2>2. reports > 0 => reports' > 0
    BY <2>1 DEF ControlInv, Typed
  <2> QED
    BY <2>1, <2>2 DEF Pends, AnswerComes
<1> QED
  BY <1>3, <1>4, <1>5, <1>6, <1>7, <1>8, <1>9, <1>10, <1>11, <1>12 DEF Next, Controller

\* What is said of the queues as sets, said of them as sequences.
LEMMA PendsAnswered == Pends => PendingIsAnswered
PROOF
  BY DEF Pends, AnswerComes, PendingIsAnswered, OnItsWay, Incoming, ToRun, ToRecall, Elems

\* What is pending waits for the user, or its answer is on its way, or an error
\* report is, unless a report was wasted on a running agent.step (_pending_action
\* of agent_controller.py, the runtime's and the memory's on_event).
THEOREM ControllerPendingAnswered == Spec => []PendingIsAnswered
PROOF
<1> DEFINE Inv == ControlInv /\ IdleInv /\ Pends
<1>1. Init => Inv
  BY InitControl, InitIdle DEF Init, Pends
<1>2. Inv /\ [Next]_vars => Inv'
  BY NextControl, NextIdle, PendsStep
<1>3. Inv => PendingIsAnswered
  BY PendsAnswered
<1> QED
  BY <1>1, <1>2, <1>3, PTL DEF Spec

-----------------------------------------------------------------------------
(* The limits, counted in user events *)

\* What Emit puts into the queue of the controller, whatever its type.
LEMMA EmitInbox ==
  ASSUME NEW rest \in Seq(Events), NEW out, out = NoEvent \/ \E e : out = <<e>>, Emit(rest, out)
  PROVE  Incoming' = Elems(rest) \cup Elems(out)
PROOF
<1>1. inbox' = rest \o out
  BY DEF Emit
<1>2. CASE out = NoEvent
  <2>1. inbox' = rest /\ Elems(out) = {}
    BY <1>1, <1>2, ConcatEmptySeq DEF NoEvent, Elems
  <2> QED
    BY <2>1 DEF Incoming
<1>3. ASSUME NEW e, out = <<e>> PROVE Incoming' = Elems(rest) \cup Elems(out)
  <2> DEFINE S == Events \cup {e}
  <2>1. rest \in Seq(S) /\ out \in Seq(S) /\ Len(out) = 1 /\ DOMAIN out = {1} /\ out[1] = e
    BY <1>3
  <2>2. Elems(out) = {e}
    BY <2>1 DEF Elems
  <2>3. DOMAIN rest = 1..Len(rest) /\ Len(rest) \in Nat
    BY <2>1, LenProperties
  <2> HIDE DEF S
  <2>0. /\ rest \o out \in Seq(S)
        /\ Len(rest \o out) = Len(rest) + Len(out)
        /\ \A n \in 1..Len(rest) + Len(out) :
             (rest \o out)[n] = IF n <= Len(rest) THEN rest[n] ELSE out[n - Len(rest)]
    BY <2>1, ConcatProperties
  <2>4. /\ DOMAIN inbox' = 1..Len(rest) + 1
        /\ \A n \in 1..Len(rest) : inbox'[n] = rest[n]
        /\ inbox'[Len(rest) + 1] = e
    <3>1. DOMAIN inbox' = 1..Len(rest) + 1
      BY <1>1, <2>0, <2>1, LenProperties
    <3>2. \A n \in 1..Len(rest) : inbox'[n] = rest[n]
      BY <1>1, <2>0, <2>1, <2>3
    <3>3. inbox'[Len(rest) + 1] = e
      <4>1. Len(rest) + 1 \in 1..Len(rest) + 1 /\ ~(Len(rest) + 1 <= Len(rest)) /\ Len(rest) + 1 - Len(rest) = 1
        BY <2>3
      <4> QED
        BY <1>1, <2>0, <2>1, <4>1
    <3> QED
      BY <3>1, <3>2, <3>3
  <2>5. \A n \in DOMAIN inbox' : (n \in DOMAIN rest /\ inbox'[n] = rest[n]) \/ inbox'[n] = e
    BY <2>3, <2>4
  <2>6. Incoming' \subseteq Elems(rest) \cup {e}
    BY <2>5 DEF Incoming, Elems
  <2>7. Elems(rest) \cup {e} \subseteq Incoming'
    BY <2>3, <2>4 DEF Incoming, Elems
  <2> QED
    BY <2>2, <2>6, <2>7
<1> QED
  BY <1>2, <1>3

FromUser(e) == e.type \in {"message", "change"}

\* What the agent, the runtime and the memory add is no user event, and the
\* handlers of other events take none.
LEMMA UserEventsStay ==
  ASSUME ControlInv,
         \/ HandleSay \/ HandleEnd \/ HandleOtherAction \/ HandleObservation
         \/ StepBlocked \/ StepStuck \/ StepOverIterations \/ StepOverBudget
         \/ StepNoBalance \/ StepCallsLLM \/ AgentReturns
         \/ StatusError \/ Runtime \/ Memory \/ UNCHANGED vars
  PROVE  UserEvents' = UserEvents /\ users' = users
PROOF
<1>1. inbox \in Seq(Events) /\ Typed /\ QueuesOK
  BY DEF ControlInv, Typed, QueuesOK, Ordered
<1>2. users' = users
  BY DEF HandleSay, HandleEnd, HandleOtherAction, HandleObservation, StepBlocked, StepStuck,
         StepOverIterations, StepOverBudget, StepFails, StepNoBalance, StepCallsLLM,
         AgentReturns, Acts, Says, Ends, BadAnswer, ContextExceeded, LLMRaises,
         ReturnsUnreported, Returns, StatusError, Runtime, Runs, RunFails, Memory, Recalls,
         RecallFails, vars, history
<1> SUFFICES UserEvents' = UserEvents
  BY <1>2
<1>3. ASSUME NEW out, Emit(inbox, out),
             out = NoEvent \/ \E e : out = <<e>> /\ e.type \notin {"message", "change"}
      PROVE  UserEvents' = UserEvents
  <2>1. Incoming' = Incoming \cup Elems(out)
    BY <1>1, <1>3, EmitInbox DEF Incoming
  <2>2. \A e \in Elems(out) : e.type \notin {"message", "change"}
    BY <1>3 DEF Elems, NoEvent
  <2> QED
    BY <2>1, <2>2 DEF UserEvents
<1>4. ASSUME inbox' = inbox PROVE UserEvents' = UserEvents
  BY <1>4 DEF UserEvents, Incoming
<1>5. ASSUME NEW e, inbox' = Append(inbox, e), e.type = "obs" PROVE UserEvents' = UserEvents
  <2>1. Incoming' \subseteq Incoming \cup {e} /\ Incoming \subseteq Incoming'
    BY <1>1, <1>5 DEF Incoming, Elems
  <2> QED
    BY <1>5, <2>1 DEF UserEvents
<1>6. CASE HandleSay \/ HandleEnd \/ HandleOtherAction \/ HandleObservation
  <2>1. PICK type \in EventType \ {"message", "change"} : OnEvent(type)
    BY <1>6 DEF HandleSay, HandleEnd, HandleOtherAction, HandleObservation, EventType
  <2>2. Emit(Tail(inbox), NoEvent)
    BY <1>6 DEF HandleSay, HandleEnd, HandleOtherAction, HandleObservation
  <2>3. /\ Head(inbox).type \notin {"message", "change"} /\ Ordered(Tail(inbox), nextId)
        /\ Elems(Tail(inbox)) = Incoming \ {Head(inbox)}
    BY <1>1, <2>1, EventTaken
  <2>4. Incoming' = Incoming \ {Head(inbox)}
    BY <1>1, <2>2, <2>3, EmitNone
  <2> QED
    BY <2>3, <2>4 DEF UserEvents
<1>7. CASE \/ StepBlocked \/ StepStuck \/ StepOverIterations \/ StepOverBudget \/ StepCallsLLM
           \/ UNCHANGED vars
  <2>1. inbox' = inbox
    BY <1>7 DEF StepBlocked, StepStuck, StepOverIterations, StepOverBudget, StepFails,
                StepCallsLLM, queues, vars
  <2> QED
    BY <1>4, <2>1
<1>8. CASE StepNoBalance
  <2>1. Event("obs", 0, 0, "error").type = "obs"
    BY DEF Event
  <2> QED
    BY <1>3, <1>8, <2>1 DEF StepNoBalance
<1>9. ASSUME NEW new PROVE \/ SetAgentStateOut(ctl, new) = NoEvent
                           \/ new \in {"user_confirmed", "user_rejected"}
                           \/ \E e : SetAgentStateOut(ctl, new) = <<e>> /\ e.type = "obs"
  <2>1. Event("obs", ctl.pending.call, ctl.pending.id, "not_executed").type = "obs"
    BY DEF Event
  <2>2. ResetOut(ctl) = NoEvent \/ \E e : ResetOut(ctl) = <<e>> /\ e.type = "obs"
    BY <2>1 DEF ResetOut
  <2>3. \/ SetAgentStateOut(ctl, new) \in {NoEvent, ResetOut(ctl)}
        \/ new \in {"user_confirmed", "user_rejected"}
    BY DEF SetAgentStateOut
  <2> QED
    BY <2>2, <2>3
<1>10. CASE StatusError
  <2>1. Emit(inbox, SetAgentStateOut(ctl, "error"))
    BY <1>10 DEF StatusError
  <2> QED
    BY <1>3, <1>9, <2>1
<1>11. CASE AgentReturns
  <2>1. ASSUME NEW new \in {"error", "rate_limited"}, NEW n, LLMRaises(new, n)
        PROVE  UserEvents' = UserEvents
    <3>1. Emit(inbox, SetAgentStateOut(ctl, new))
      BY <2>1 DEF LLMRaises, Returns
    <3> QED
      BY <1>3, <1>9, <3>1
  <2>2. ASSUME NEW c, NEW type \in EventType \ {"message", "change"}, NEW call, NEW info,
               ReturnsUnreported(c, <<Event(type, call, 0, info)>>)
        PROVE  UserEvents' = UserEvents
    <3>1. Event(type, call, 0, info).type = type
      BY DEF Event
    <3> QED
      BY <1>3, <2>2, <3>1 DEF ReturnsUnreported, Returns
  <2>3. CASE Acts(FALSE) \/ (ConfirmationMode /\ Acts(TRUE))
    BY <2>2, <2>3 DEF Acts, EventType
  <2>4. CASE Says("wait") \/ Says("go_on") \/ \E type \in {"finished", "rejected"} : Ends(type)
    BY <2>2, <2>4 DEF Says, Ends, EventType
  <2>5. CASE BadAnswer \/ ContextExceeded
    BY <2>2, <2>5 DEF BadAnswer, ContextExceeded, EventType
  <2> QED
    BY <1>11, <2>1, <2>3, <2>4, <2>5 DEF AgentReturns
<1>12. CASE Runtime \/ Memory
  <2>1. ASSUME NEW call, NEW cause, NEW info PROVE Event("obs", call, cause, info).type = "obs"
    BY DEF Event
  <2>2. CASE Runs
    BY <1>4, <1>5, <2>1, <2>2 DEF Runs
  <2>3. CASE RunFails \/ RecallFails
    BY <1>4, <2>3 DEF RunFails, RecallFails
  <2>4. CASE \E info : Recalls(info)
    BY <1>5, <2>1, <2>4 DEF Recalls
  <2> QED
    BY <1>12, <2>2, <2>3, <2>4 DEF Runtime, Memory
<1> QED
  BY <1>2, <1>6, <1>7, <1>8, <1>10, <1>11, <1>12

\* Handling a user event takes it from those that wait.
LEMMA UserEventTaken ==
  ASSUME ControlInv, HandleMessage \/ HandleChange
  PROVE  /\ users' = users /\ Head(inbox) \in UserEvents
         /\ UserEvents' = UserEvents \ {Head(inbox)}
PROOF
<1>1. PICK type \in {"message", "change"} : OnEvent(type)
  BY DEF HandleMessage, HandleChange
<1>2. /\ Ordered(Tail(inbox), nextId) /\ Head(inbox) \in Incoming /\ Head(inbox).type = type
      /\ Elems(Tail(inbox)) = Incoming \ {Head(inbox)}
  BY <1>1, EventTaken DEF ControlInv
<1>3. PICK out : /\ Emit(Tail(inbox), out)
                 /\ \/ out = NoEvent
                    \/ \E e : out = <<e>> /\ e.type \notin {"message", "change"}
  <2>1. CASE HandleMessage
    <3>1. Event("recall", 0, 0, "none").type = "recall"
      BY DEF Event
    <3> QED
      BY <2>1, <3>1 DEF HandleMessage
  <2>2. CASE HandleChange
    <3> DEFINE new == Head(inbox).info
    <3>1. ctl.pending.type \in {"none", "recall", "act"}
      BY DEF ControlInv, Typed, Controllers, Actions
    <3>2. \A info : Event(ctl.pending.type, ctl.pending.call, 0, info).type = ctl.pending.type
      BY DEF Event
    <3>3. \/ AnswerOut(ctl, new) = NoEvent
          \/ \E e : AnswerOut(ctl, new) = <<e>> /\ e.type \notin {"message", "change"}
      BY <3>1, <3>2 DEF AnswerOut
    <3>4. Event("obs", ctl.pending.call, ctl.pending.id, "not_executed").type = "obs"
      BY DEF Event
    <3>5. \/ ResetOut(ctl) = NoEvent
          \/ \E e : ResetOut(ctl) = <<e>> /\ e.type \notin {"message", "change"}
      BY <3>4 DEF ResetOut
    <3>6. SetAgentStateOut(ctl, new) \in {NoEvent, ResetOut(ctl), AnswerOut(ctl, new)}
      BY DEF SetAgentStateOut
    <3>7. Emit(Tail(inbox), SetAgentStateOut(ctl, new))
      BY <2>2 DEF HandleChange
    <3> QED
      BY <3>3, <3>5, <3>6, <3>7
  <2> QED
    BY <2>1, <2>2
<1>4. Incoming' = (Incoming \ {Head(inbox)}) \cup Elems(out)
  BY <1>2, <1>3, EmitInbox DEF Ordered
<1>5. \A e \in Elems(out) : e.type \notin {"message", "change"}
  BY <1>3 DEF Elems, NoEvent
<1>6. users' = users
  BY DEF HandleMessage, HandleChange
<1> QED
  BY <1>2, <1>4, <1>5, <1>6 DEF UserEvents

\* The user's own step only puts an event into the controller's queue.
LEMMA UserEventAdded ==
  ASSUME ControlInv, User
  PROVE  /\ users' = users + 1 /\ UNCHANGED <<ctl, pc, calls, reports>>
         /\ \E e : /\ e \notin Incoming /\ Incoming' = Incoming \cup {e} /\ e.type \in {"message", "change"}
                   /\ UserEvents' = UserEvents \cup {e}
PROOF
<1>1. PICK type, info : type \in {"message", "change"} /\ UserAdds(Event(type, 0, 0, info))
  BY DEF User, SendMessage, ChangeState, Confirm
<1> DEFINE e == Event(type, 0, 0, info)
<1>2. e.type = type /\ e.id = nextId
  BY DEF Event
<1>3. /\ users' = users + 1 /\ UNCHANGED <<ctl, pc, calls, reports>> /\ Emit(inbox, <<e>>)
  BY <1>1 DEF UserAdds
<1> HIDE DEF e
<1>4. inbox \in Seq(Events) /\ Ordered(inbox, nextId) /\ nextId \in Nat
  BY DEF ControlInv, Typed, QueuesOK, Ordered
<1>5. Incoming' = Incoming \cup {e}
  <2>1. Incoming' = Elems(inbox) \cup Elems(<<e>>)
    BY <1>3, <1>4, EmitInbox
  <2>2. Elems(<<e>>) = {e}
    BY DEF Elems
  <2> QED
    BY <2>1, <2>2 DEF Incoming
<1>6. e \notin Incoming
  <2>1. \A x \in Incoming : x.id < nextId
    BY <1>4, QueuedAreEvents DEF Incoming
  <2> QED
    BY <1>2, <1>4, <2>1
<1>7. UserEvents' = UserEvents \cup {e}
  BY <1>1, <1>2, <1>5 DEF UserEvents
<1>8. e.type \in {"message", "change"}
  BY <1>1, <1>2
<1> QED
  BY <1>3, <1>5, <1>6, <1>7, <1>8

\* What the state changes make of the limits.
LEMMA LimitsSet ==
  ASSUME Typed, NEW c \in Controllers, NEW new \in AgentState, ctl' = SetAgentState(c, new)
  PROVE  /\ ctl'.iter = c.iter
         /\ ~Retries(c, new) => ctl'.maxIter = c.maxIter /\ ctl'.maxCost = c.maxCost
         /\ Retries(c, new) =>
              /\ ctl'.maxIter = c.maxIter \/ (~Headless /\ ctl'.maxIter = c.maxIter + Delta)
              /\ ctl'.maxCost = c.maxCost \/ ctl'.maxCost = calls + BudgetDelta
PROOF
<1>1. Numbers
  BY DEF Typed, QueuesOK, Numbers
<1>2. /\ ctl'.iter = c.iter
      /\ ~Retries(c, new) => ctl'.maxIter = c.maxIter /\ ctl'.maxCost = c.maxCost
      /\ Retries(c, new) =>
           /\ ctl'.maxIter = IF ~Headless /\ c.hitIter THEN c.maxIter + Delta ELSE c.maxIter
           /\ ctl'.maxCost = IF BudgetDelta > 0 /\ c.hitCost THEN calls + BudgetDelta ELSE c.maxCost
  BY <1>1, StateSet
<1> QED
  BY <1>2

\* Until the user's first event is handled, only the user acts.
LEMMA UntouchedWaits ==
  ASSUME ControlInv, Untouched, [Next]_vars
  PROVE  User \/ HandleMessage \/ HandleChange \/ UNCHANGED vars
PROOF
<1>1. pc = "ready" /\ reports = 0 /\ \A e \in Incoming : e.type \in {"message", "change"}
  BY DEF Untouched, UserEvents
<1>2. runq = <<>> /\ memq = <<>>
  <2>1. \A q : q \in Seq(Events) /\ q # <<>> => Head(q) \in Elems(q)
    <3> TAKE q
    <3> HAVE q \in Seq(Events) /\ q # <<>>
    <3>1. 1 \in DOMAIN q /\ Head(q) = q[1]
      BY EmptySeq, LenProperties, HeadTailProperties
    <3> QED
      BY <3>1 DEF Elems
  <2>2. runq \in Seq(Events) /\ memq \in Seq(Events)
    BY DEF ControlInv, Typed, QueuesOK, Ordered
  <2> QED
    BY <2>1, <2>2 DEF Untouched, ToRun, ToRecall
<1>3. ~Runtime /\ ~Memory
  BY <1>2 DEF Runtime, Runs, RunFails, Memory, Recalls, RecallFails
<1>4. ~StatusError
  BY <1>1 DEF StatusError
<1>5. \A type : OnEvent(type) => type \in {"message", "change"}
  BY <1>1, EventTaken DEF ControlInv
<1>6. ~(HandleSay \/ HandleEnd \/ HandleOtherAction \/ HandleObservation)
  <2>1. HandleSay \/ HandleEnd \/ HandleOtherAction \/ HandleObservation =>
          \E type \in EventType \ {"message", "change"} : OnEvent(type)
    BY DEF HandleSay, HandleEnd, HandleOtherAction, HandleObservation, EventType
  <2> QED
    BY <1>5, <2>1
<1>7. ~(StepBlocked \/ StepStuck \/ StepOverIterations \/ StepOverBudget
          \/ StepNoBalance \/ StepCallsLLM)
  <2>1. \A c : ~StepFails(c)
    BY <1>1 DEF StepFails
  <2> QED
    BY <1>1, <2>1 DEF StepBlocked, StepStuck, StepOverIterations, StepOverBudget,
                      StepNoBalance, StepCallsLLM
<1>8. ~AgentReturns
  BY <1>1 DEF AgentReturns, Acts, Says, Ends, BadAnswer, ContextExceeded, LLMRaises,
              ReturnsUnreported, Returns
<1> QED
  BY <1>3, <1>4, <1>6, <1>7, <1>8 DEF Next, Controller

\* Of the controller's steps only those of _step count, and only a message or
\* a change of state extends a limit.
LEMMA LimitsStay ==
  ASSUME ControlInv,
         \/ HandleSay \/ HandleEnd \/ HandleOtherAction \/ HandleObservation
         \/ StepBlocked \/ StepStuck \/ StepOverIterations \/ AgentReturns
         \/ StatusError \/ Runtime \/ Memory \/ UNCHANGED vars
  PROVE  /\ calls' = calls /\ ctl'.iter = ctl.iter
         /\ ctl'.maxIter = ctl.maxIter /\ ctl'.maxCost = ctl.maxCost
PROOF
<1> DEFINE Same(c) == c.iter = ctl.iter /\ c.maxIter = ctl.maxIter /\ c.maxCost = ctl.maxCost
<1>1. Typed /\ ctl \in Controllers
  BY DEF ControlInv, Typed
<1>2. calls' = calls
  BY DEF HandleSay, HandleEnd, HandleOtherAction, HandleObservation, StepBlocked, StepStuck,
         StepOverIterations, StepFails, AgentReturns, Acts, Says, Ends, BadAnswer,
         ContextExceeded, LLMRaises, ReturnsUnreported, Returns, StatusError, Runtime, Runs,
         RunFails, Memory, Recalls, RecallFails, vars, history
<1>3. ASSUME NEW c \in Controllers, Same(c), NEW new \in AgentState, ctl' = SetAgentState(c, new),
             new # "running" \/ c.state # "error"
      PROVE  Same(ctl')
  BY <1>1, <1>3, LimitsSet DEF Retries
<1> SUFFICES Same(ctl')
  BY <1>2
<1>4. CASE UNCHANGED vars \/ HandleOtherAction \/ StepBlocked \/ Runtime \/ Memory
  BY <1>4 DEF vars, HandleOtherAction, StepBlocked, Runtime, Runs, RunFails, Memory, Recalls,
              RecallFails
<1>5. CASE HandleSay \/ HandleEnd
  <2>1. ctl' = ctl \/ \E new \in {"awaiting_user_input", "finished", "rejected"} :
                        ctl' = SetAgentState(ctl, new)
    BY <1>5 DEF HandleSay, HandleEnd
  <2>2. {"awaiting_user_input", "finished", "rejected"} \subseteq AgentState
    BY DEF AgentState
  <2> QED
    BY <1>1, <1>3, <2>1, <2>2
<1>6. CASE HandleObservation
  <2> DEFINE d == [ctl EXCEPT !.pending = NoAction]
  <2>1. d \in Controllers /\ d.state = ctl.state /\ Same(d)
    BY <1>1, NoActionTyped DEF Controllers
  <2>2. \/ ctl' = ctl \/ ctl' = d
        \/ ctl.state = "user_confirmed" /\ ctl' = SetAgentState(d, "running")
        \/ ctl' = SetAgentState(d, "awaiting_user_input")
    BY <1>6 DEF HandleObservation, Release
  <2>3. "running" \in AgentState /\ "awaiting_user_input" \in AgentState
    BY DEF AgentState
  <2> HIDE DEF d
  <2> QED
    BY <1>3, <2>1, <2>2, <2>3
<1>7. "error" \in AgentState
  BY DEF AgentState
<1>8. CASE StepStuck \/ StatusError
  <2>1. ctl' = SetAgentState(ctl, "error")
    BY <1>8 DEF StepStuck, StepFails, StatusError
  <2> QED
    BY <1>1, <1>3, <1>7, <2>1
<1>9. CASE StepOverIterations
  <2> DEFINE c == [ctl EXCEPT !.hitIter = TRUE]
  <2>1. c \in Controllers /\ Same(c)
    BY <1>1 DEF Controllers
  <2>2. ctl' = SetAgentState(c, "error")
    BY <1>9 DEF StepOverIterations, StepFails
  <2> HIDE DEF c
  <2> QED
    BY <1>3, <1>7, <2>1, <2>2
<1>10. CASE AgentReturns
  <2>1. ASSUME NEW awaiting \in BOOLEAN, Acts(awaiting) PROVE Same(ctl')
    <3> DEFINE c == [ctl EXCEPT !.pending = Pending("act", calls, awaiting)]
    <3>1. Pending("act", calls, awaiting) \in Actions
      BY <1>1 DEF Pending, Actions, Typed, QueuesOK
    <3>2. c \in Controllers /\ Same(c)
      BY <1>1, <3>1 DEF Controllers
    <3>3. ctl' = c \/ ctl' = SetAgentState(c, "awaiting_user_confirmation")
      BY <2>1 DEF Acts, ReturnsUnreported, Returns
    <3>4. "awaiting_user_confirmation" \in AgentState
      BY DEF AgentState
    <3> HIDE DEF c
    <3> QED
      BY <1>3, <3>2, <3>3, <3>4
  <2>2. ASSUME NEW new \in {"error", "rate_limited"}, NEW n, LLMRaises(new, n) PROVE Same(ctl')
    <3>1. ctl' = SetAgentState(ctl, new) /\ new \in AgentState
      BY <2>2 DEF LLMRaises, Returns, AgentState
    <3> QED
      BY <1>1, <1>3, <3>1
  <2>3. CASE \/ Says("wait") \/ Says("go_on") \/ BadAnswer \/ ContextExceeded
             \/ \E type \in {"finished", "rejected"} : Ends(type)
    BY <2>3 DEF Says, BadAnswer, ContextExceeded, Ends, ReturnsUnreported, Returns
  <2> QED
    BY <1>10, <2>1, <2>2, <2>3 DEF AgentReturns
<1> QED
  BY <1>4, <1>5, <1>6, <1>8, <1>9, <1>10

\* A new controller has taken no step.
LEMMA InitLimited == Init => Limited
PROOF
<1> SUFFICES ASSUME Init PROVE Limited
  OBVIOUS
<1>1. Incoming = {} /\ ToRun = {} /\ ToRecall = {} /\ UserEvents = {}
  BY DEF Init, Incoming, ToRun, ToRecall, Elems, UserEvents
<1>2. Cardinality(UserEvents) = 0 /\ IsFiniteSet(UserEvents)
  BY <1>1, FS_EmptySet
<1>3. Handled = 0
  BY <1>2 DEF Handled, Init
<1> QED
  BY <1>1, <1>2, <1>3, ControllerAssumption DEF Init, Limited, Untouched

\* One more user event handled leaves room for what it may add.
LEMMA RoomGrows ==
  ASSUME NEW d \in Nat, NEW h \in Nat
  PROVE  d * (h + 1) = d * h + d /\ d * h <= d * (h + 1) /\ d * 1 = d /\ d * h \in Nat
PROOF
  OBVIOUS

\* No step of the system exceeds what the events handled so far allow.
LEMMA LimitedStep ==
  ASSUME ControlInv, ControlInv', Limited, [Next]_vars
  PROVE  Limited'
PROOF
<1> DEFINE h == Handled
           d == Delta
           b == BudgetDelta
<1>1. /\ h \in Nat /\ d \in Nat \ {0} /\ b \in Nat /\ calls \in Nat /\ users \in Nat
      /\ ctl \in Controllers /\ ctl.iter \in Nat /\ ctl.maxIter \in Nat /\ ctl.maxCost \in Nat
      /\ Typed /\ IsFiniteSet(UserEvents)
  BY ControllerAssumption DEF Limited, ControlInv, Typed, Controllers
<1>2. Cardinality(UserEvents) \in Nat /\ users = h + Cardinality(UserEvents)
  BY <1>1, FS_CardinalityType DEF Handled
<1>3. ctl' \in Controllers /\ ctl'.iter \in Nat /\ ctl'.maxIter \in Nat /\ ctl'.maxCost \in Nat
  BY DEF ControlInv, Typed, Controllers
<1>4. CASE User
  <2>1. PICK e : e \notin Incoming /\ Incoming' = Incoming \cup {e} /\ UserEvents' = UserEvents \cup {e}
    BY <1>4, UserEventAdded
  <2>2. /\ users' = users + 1 /\ UNCHANGED <<ctl, pc, calls, reports>>
        /\ ToRun' = ToRun /\ ToRecall' = ToRecall
    BY <1>4, UserEventAdded, UserKeeps
  <2>3. IsFiniteSet(UserEvents') /\ Cardinality(UserEvents') = Cardinality(UserEvents) + 1
    <3>1. e \notin UserEvents
      BY <2>1 DEF UserEvents
    <3> QED
      BY <1>1, <2>1, <3>1, FS_AddElement
  <2>4. Handled' = h
    BY <1>1, <1>2, <2>2, <2>3 DEF Handled
  <2>5. Incoming = UserEvents => Incoming' = UserEvents'
    BY <2>1
  <2> QED
    BY <2>2, <2>3, <2>4, <2>5 DEF Limited, Untouched
<1>5. CASE HandleMessage \/ HandleChange
  <2>1. /\ users' = users /\ Head(inbox) \in UserEvents
        /\ UserEvents' = UserEvents \ {Head(inbox)}
    BY <1>5, UserEventTaken
  <2>2. IsFiniteSet(UserEvents') /\ Cardinality(UserEvents') = Cardinality(UserEvents) - 1
    BY <1>1, <2>1, FS_RemoveElement
  <2>3. Handled' = h + 1
    BY <1>1, <1>2, <2>1, <2>2 DEF Handled
  <2>4. PICK c \in Controllers, new \in AgentState :
          /\ ctl' = SetAgentState(c, new) /\ c.state = ctl.state /\ c.iter = ctl.iter
          /\ c.maxIter = ctl.maxIter /\ c.maxCost = ctl.maxCost
    <3>1. CASE HandleMessage
      <4> DEFINE c == [ctl EXCEPT !.pending = Pending("recall", 0, FALSE)]
      <4>1. Pending("recall", 0, FALSE) \in Actions
        BY <1>1 DEF Typed, QueuesOK, Pending, Actions
      <4>2. /\ c \in Controllers /\ c.state = ctl.state /\ c.iter = ctl.iter
            /\ c.maxIter = ctl.maxIter /\ c.maxCost = ctl.maxCost
        BY <1>1, <4>1 DEF Controllers
      <4>3. ctl' = SetAgentState(c, "running") /\ "running" \in AgentState
        BY <3>1 DEF HandleMessage, AgentState
      <4> HIDE DEF c
      <4> QED
        BY <4>2, <4>3
    <3>2. CASE HandleChange
      <4>1. /\ Head(inbox) \in Incoming /\ Head(inbox).type = "change"
        BY <3>2, EventTaken DEF HandleChange, ControlInv
      <4>2. Head(inbox).info \in AgentState
        BY <4>1 DEF ControlInv, Refers, AgentState
      <4>3. ctl' = SetAgentState(ctl, Head(inbox).info)
        BY <3>2 DEF HandleChange
      <4> QED
        BY <1>1, <4>2, <4>3
    <3> QED
      BY <1>5, <3>1, <3>2
  <2>5. calls' = calls
    BY <1>5 DEF HandleMessage, HandleChange
  <2>6. /\ ctl'.iter = ctl.iter
        /\ ~Retries(c, new) => ctl'.maxIter = ctl.maxIter /\ ctl'.maxCost = ctl.maxCost
        /\ Retries(c, new) =>
             /\ ctl'.maxIter = ctl.maxIter \/ (~Headless /\ ctl'.maxIter = ctl.maxIter + Delta)
             /\ ctl'.maxCost = ctl.maxCost \/ ctl'.maxCost = calls + BudgetDelta
    BY <1>1, <2>4, LimitsSet
  <2>7. /\ d * (h + 1) = d * h + d /\ d * h \in Nat
        /\ b * (h + 1) = b * h + b /\ b * h \in Nat
    BY <1>1, RoomGrows
  <2>8. ctl.state = "error" => h > 0
    BY <1>1 DEF Limited, Untouched
  <2>9. /\ calls <= ctl'.iter /\ ctl'.iter <= ctl'.maxIter
        /\ Headless => ctl'.maxIter = d
        /\ b > 0 => calls <= ctl'.maxCost
    BY <1>1, <2>6 DEF Limited
  <2>10. /\ ctl'.maxIter <= d * (h + 1)
         /\ b > 0 => ctl'.maxCost <= b * (h + 1)
    <3>1. CASE h = 0
      <4>1. ctl'.maxIter = d /\ ctl'.maxCost = b
        BY <2>4, <2>6, <2>8, <3>1, <1>1 DEF Limited, Untouched, Retries
      <4>2. d * (h + 1) = d /\ b * (h + 1) = b
        BY <1>1, <3>1
      <4> QED
        BY <1>1, <4>1, <4>2
    <3>2. CASE h > 0
      <4>1. ctl.maxIter <= d * h /\ (b > 0 => ctl.maxCost <= b * h /\ calls <= ctl.maxCost)
        BY <3>2 DEF Limited
      <4> HIDE DEF h, d, b
      <4>2. ctl'.maxIter <= ctl.maxIter + d /\ (ctl'.maxCost = ctl.maxCost \/ ctl'.maxCost = calls + b)
        BY <1>1, <1>3, <2>6 DEF d, b
      <4> QED
        BY <1>1, <1>3, <2>7, <4>1, <4>2
    <3> QED
      BY <1>1, <3>1, <3>2
  <2> QED
    BY <1>1, <2>2, <2>3, <2>5, <2>9, <2>10 DEF Limited
<1>6. CASE ~(User \/ HandleMessage \/ HandleChange \/ UNCHANGED vars)
  <2>1. h > 0
    BY <1>1, <1>6, UntouchedWaits DEF Limited
  <2>2. /\ ctl.maxIter <= d * h /\ calls <= ctl.iter /\ ctl.iter <= ctl.maxIter
        /\ Headless => ctl.maxIter = d
        /\ b > 0 => calls <= ctl.maxCost /\ ctl.maxCost <= b * h
    BY <2>1 DEF Limited
  <2>3. UserEvents' = UserEvents /\ users' = users
    BY <1>6, UserEventsStay DEF Next, Controller
  <2>4. Handled' = h /\ IsFiniteSet(UserEvents')
    BY <1>1, <2>3 DEF Handled
  <2>5. /\ ctl'.maxIter = ctl.maxIter /\ ctl'.maxCost = ctl.maxCost
        /\ calls' <= ctl'.iter /\ ctl'.iter <= ctl.maxIter
        /\ b > 0 => calls' <= ctl.maxCost
    <3>1. CASE ~(StepOverBudget \/ StepNoBalance \/ StepCallsLLM)
      <4>1. /\ calls' = calls /\ ctl'.iter = ctl.iter
            /\ ctl'.maxIter = ctl.maxIter /\ ctl'.maxCost = ctl.maxCost
        BY <1>6, <3>1, LimitsStay DEF Next, Controller
      <4> QED
        BY <2>2, <4>1
    <3>2. ASSUME NEW c \in Controllers, c.iter = ctl.iter + 1, c.maxIter = ctl.maxIter,
                 c.maxCost = ctl.maxCost, NEW new \in AgentState, new # "running",
                 ctl' = SetAgentState(c, new), calls' = calls, ~IterationsOver(ctl)
          PROVE  /\ ctl'.maxIter = ctl.maxIter /\ ctl'.maxCost = ctl.maxCost
                 /\ calls' <= ctl'.iter /\ ctl'.iter <= ctl.maxIter
                 /\ b > 0 => calls' <= ctl.maxCost
      <4>1. ctl'.iter = ctl.iter + 1 /\ ctl'.maxIter = ctl.maxIter /\ ctl'.maxCost = ctl.maxCost
        BY <1>1, <3>2, LimitsSet DEF Retries
      <4> QED
        BY <1>1, <2>2, <3>2, <4>1 DEF IterationsOver
    <3>3. ctl.iter + 1 \in Nat /\ "error" \in AgentState /\ "paused" \in AgentState
      BY <1>1 DEF AgentState
    <3>4. CASE StepOverBudget
      <4> DEFINE c == [ctl EXCEPT !.iter = @ + 1, !.hitIter = FALSE, !.hitCost = TRUE]
      <4>1. /\ c \in Controllers /\ c.iter = ctl.iter + 1 /\ c.maxIter = ctl.maxIter
            /\ c.maxCost = ctl.maxCost
        BY <1>1, <3>3 DEF Controllers
      <4>2. ctl' = SetAgentState(c, "error") /\ calls' = calls /\ ~IterationsOver(ctl)
        BY <3>4 DEF StepOverBudget, StepFails
      <4> HIDE DEF c
      <4> QED
        BY <3>2, <3>3, <4>1, <4>2
    <3>5. /\ Counted \in Controllers /\ Counted.iter = ctl.iter + 1
          /\ Counted.maxIter = ctl.maxIter /\ Counted.maxCost = ctl.maxCost
      BY <1>1, <3>3 DEF Counted, Controllers
    <3>6. CASE StepNoBalance
      <4>1. ctl' = SetAgentState(Counted, "paused") /\ calls' = calls /\ ~IterationsOver(ctl)
        BY <3>6 DEF StepNoBalance
      <4> QED
        BY <3>2, <3>3, <3>5, <4>1
    <3>7. CASE StepCallsLLM
      <4>1. ctl' = Counted /\ calls' = calls + 1 /\ ~IterationsOver(ctl) /\ ~BudgetOver
        BY <3>7 DEF StepCallsLLM
      <4>2. ctl.iter < ctl.maxIter /\ (b > 0 => calls < ctl.maxCost)
        BY <1>1, <4>1 DEF IterationsOver, BudgetOver
      <4> HIDE DEF h, d, b
      <4> QED
        BY <1>1, <2>2, <3>5, <4>1, <4>2
    <3> QED
      BY <3>1, <3>4, <3>6, <3>7
  <2> QED
    BY <2>1, <2>2, <2>4, <2>5 DEF Limited
<1>7. CASE UNCHANGED vars
  <2>1. UserEvents' = UserEvents /\ ToRun' = ToRun /\ ToRecall' = ToRecall /\ Incoming' = Incoming
    BY <1>7 DEF UserEvents, Incoming, ToRun, ToRecall, vars, queues
  <2> QED
    BY <1>7, <2>1 DEF Limited, Untouched, Handled, vars, history
<1> QED
  BY <1>4, <1>5, <1>6, <1>7

\* So the calls are bounded by what the user did.
LEMMA LimitedBounds == Limited /\ ControlInv => CallsBounded
PROOF
<1> SUFFICES ASSUME Limited, ControlInv PROVE CallsBounded
  OBVIOUS
<1>1. /\ Handled \in Nat /\ Delta \in Nat \ {0} /\ BudgetDelta \in Nat /\ calls \in Nat /\ users \in Nat
      /\ ctl.iter \in Nat /\ ctl.maxIter \in Nat /\ ctl.maxCost \in Nat
  BY ControllerAssumption DEF Limited, ControlInv, Typed, Controllers
<1>2. Handled <= users
  <2>1. Cardinality(UserEvents) \in Nat
    BY FS_CardinalityType DEF Limited
  <2> QED
    BY <1>1, <2>1 DEF Handled
<1>3. calls <= ctl.maxIter
  BY <1>1 DEF Limited
<1>4. \A d \in Nat : d * Handled <= d * users /\ d * Handled \in Nat /\ d * users \in Nat
  BY <1>1, <1>2
<1>5. CASE Handled = 0
  BY <1>1, <1>4, <1>5 DEF Limited, Untouched, CallsBounded
<1>6. CASE Handled > 0
  <2>1. ctl.maxIter <= Delta * Handled /\ (Headless => ctl.maxIter = Delta)
    BY <1>6 DEF Limited
  <2>2. BudgetDelta > 0 => calls <= ctl.maxCost /\ ctl.maxCost <= BudgetDelta * Handled
    BY <1>6 DEF Limited
  <2>3. calls <= Delta * (IF Headless THEN 1 ELSE users)
    BY <1>1, <1>3, <1>4, <2>1
  <2>4. BudgetDelta > 0 => calls <= BudgetDelta * users
    BY <1>1, <1>4, <2>2
  <2> QED
    BY <2>3, <2>4 DEF CallsBounded
<1> QED
  BY <1>1, <1>5, <1>6

\* The agent takes at most iteration_delta steps and spends at most the budget for
\* each thing the user did (run_control_flag and increase_limit of
\* control_flags.py, maybe_increase_control_flags_limits of state_tracker.py).
THEOREM ControllerCallsBounded == Spec => []CallsBounded
PROOF
<1> DEFINE Inv == ControlInv /\ Limited
<1>1. Init => Inv
  BY InitControl, InitLimited
<1>2. Inv /\ [Next]_vars => Inv'
  BY NextControl, LimitedStep
<1>3. Inv => CallsBounded
  BY LimitedBounds
<1> QED
  BY <1>1, <1>2, <1>3, PTL DEF Spec
=============================================================================
