---------------------------- MODULE HeadlessRun ----------------------------
(* Runs of the agent from the command line, one after the other on one       *)
(* session: what the agent is given, a recorded trajectory that is replayed  *)
(* before the agent decides anything itself, the callback that answers an    *)
(* agent who asks, the loop that looks at the agent once a second, and the   *)
(* two interrupts.  The main task, the controller's thread, the callback's   *)
(* and the runtime's interleave.                                             *)
EXTENDS Naturals, Sequences, SequencesExt
CONSTANTS
    Trajectories,   \* recorded trajectories; <<>> is a run that replays nothing
    MaxHeadlessRuns, MaxDecisions, MaxReports \* bounds: runs; the agent's decisions and the
                    \* runtime's errors in a run

VARIABLES
    cliJob,         \* exit_on_message and the trajectory of this run
    runAt,          \* where run_controller is
    doing,          \* state.agent_state
    unhandled,      \* messages of the user the controller has not handled
    stepDue, inStep, \* the controller is to take a step; it is in one
    asked,          \* announcements AWAITING_USER_INPUT that are not delivered
    lastMessage,    \* the user message the agent sees last
    replay, replayIndex, \* ReplayManager
    failed,         \* state.last_error is set
    errorsToSet,    \* a task that sets ERROR is created and has not run
    interrupts,     \* SIGINTs in this run
    sessionState,   \* the saved state: none, or whether it has a last error
    given,          \* what this run began with
    played, decided, answered, \* history: actions replayed, own decisions, answers
    unheard,        \* history: an announcement came before the callback was subscribed
    reports,        \* history: errors that the runtime reported in this run
    earlier         \* history: of each earlier run, whether it failed and whether it ended
headlessVars == <<cliJob, runAt, doing, unhandled, stepDue, inStep, asked, lastMessage, replay,
                  replayIndex, failed, errorsToSet, interrupts, sessionState, given, played, decided,
                  answered, unheard, reports, earlier>>
runHistory == <<played, decided, answered, unheard, reports, earlier>>

EndStates == {"finished", "rejected", "error", "stopped"}
Spoken == {"user", "say", "ask"}
ReplayedKinds == {"run", "finish", "reject"} \cup Spoken
NoRun == [exit |-> FALSE, trajectory |-> <<>>]

\* get_replay_events leaves the events of the environment out, and ReplayManager
\* empty observations; every message but a last one no longer waits for an answer.
Loaded(t) == SelectSeq(t, LAMBDA e : e # "env")
MutReplayManager(events) == SelectSeq(events, LAMBDA e : e # "blank")
ReplayManager(events) ==
    LET es == SelectSeq(events, LAMBDA e : e # "blank") IN
    [i \in DOMAIN es |-> IF es[i] = "ask" /\ i < Len(es) THEN "say" ELSE es[i]]

HeadlessInit ==
    /\ cliJob = NoRun /\ runAt = "off" /\ doing = "loading" /\ unhandled = <<>> /\ stepDue = FALSE
    /\ inStep = FALSE /\ asked = 0 /\ lastMessage = "none" /\ replay = <<>> /\ replayIndex = 0
    /\ failed = FALSE /\ errorsToSet = 0 /\ interrupts = 0 /\ sessionState = "none" /\ given = "none"
    /\ played = <<>> /\ decided = 0 /\ answered = 0 /\ unheard = FALSE /\ reports = 0
    /\ earlier = <<>>

-----------------------------------------------------------------------------
(* run_controller *)

\* A task, or a trajectory and no task.
Jobs == [exit : BOOLEAN, trajectory : Trajectories]
\* The trajectory is refused, before anything is given, unless a message comes first.
load_replay_log(t) == t = <<>> \/ (Loaded(t) # <<>> /\ Head(Loaded(t)) \in Spoken)
\* What a saved state says of the last error: nothing clears it.
restore_from_session == sessionState = "failed"
SetsUp(j) ==
    /\ runAt = "off" /\ Len(earlier) < MaxHeadlessRuns /\ load_replay_log(j.trajectory)
    /\ cliJob' = j /\ runAt' = "ready" /\ failed' = restore_from_session
    /\ replay' = (IF j.trajectory = <<>> THEN <<>> ELSE ReplayManager(Tail(Loaded(j.trajectory))))
    /\ UNCHANGED <<doing, unhandled, stepDue, inStep, asked, lastMessage, replayIndex, errorsToSet,
                   interrupts, sessionState, given, runHistory>>

\* Who resumes after an error is told so, whatever the task of this run.
GivesTask ==
    /\ runAt = "ready" /\ runAt' = "given"
    /\ given' = (IF failed THEN "resume" ELSE "task") /\ unhandled' = Append(unhandled, "task")
    /\ UNCHANGED <<cliJob, doing, stepDue, inStep, asked, lastMessage, replay, replayIndex, failed,
                   errorsToSet, interrupts, sessionState, runHistory>>
\* on_event is subscribed, and run_agent_until_done sets the status callbacks.
Listens ==
    /\ runAt = "given" /\ runAt' = "watching"
    /\ UNCHANGED <<cliJob, doing, unhandled, stepDue, inStep, asked, lastMessage, replay, replayIndex,
                   failed, errorsToSet, interrupts, sessionState, given, runHistory>>

Saving(error) == IF error THEN "failed" ELSE "fine"
\* set_agent_state_to, which saves the state when it changes.
SetsState(st, error) ==
    /\ doing' = st
    /\ sessionState' = (IF st # doing THEN Saving(error) ELSE sessionState)
    /\ stepDue' = (stepDue /\ st = "running")

\* The loop sees an end state; or the interrupt ends the wait, and the controller, the
\* stream and the runtime are closed.
ClosesRun ==
    /\ runAt' = "closed" /\ SetsState("stopped", failed)
    /\ unhandled' = <<>> /\ asked' = 0
WatchEnds ==
    /\ runAt = "watching" /\ doing \in EndStates
    /\ IF interrupts = 0
       THEN runAt' = "saving" /\ UNCHANGED <<doing, unhandled, asked, sessionState, stepDue>>
       ELSE ClosesRun
    /\ UNCHANGED <<cliJob, inStep, lastMessage, replay, replayIndex, failed, errorsToSet, interrupts,
                   given, runHistory>>
ShutsDown ==
    /\ runAt = "watching" /\ interrupts > 0 /\ ClosesRun
    /\ UNCHANGED <<cliJob, inStep, lastMessage, replay, replayIndex, failed, errorsToSet, interrupts,
                   given, runHistory>>
\* The state is saved, the controller closed without another state.
SavesSession ==
    /\ runAt \in {"saving", "closed"} /\ runAt' = "done" /\ sessionState' = Saving(failed)
    /\ UNCHANGED <<cliJob, doing, unhandled, stepDue, inStep, asked, lastMessage, replay, replayIndex,
                   failed, errorsToSet, interrupts, given, runHistory>>

\* The process goes, with everything that is not saved.
Exits(ended) ==
    /\ runAt' = "off" /\ earlier' = Append(earlier, [failed |-> failed, ended |-> ended])
    /\ unhandled' = <<>> /\ stepDue' = FALSE /\ inStep' = FALSE /\ asked' = 0 /\ errorsToSet' = 0
    /\ interrupts' = 0 /\ played' = <<>> /\ decided' = 0 /\ answered' = 0 /\ unheard' = FALSE
    /\ reports' = 0 /\ replay' = <<>> /\ replayIndex' = 0 /\ cliJob' = NoRun
    /\ given' = "none" /\ lastMessage' = "none" /\ doing' = "loading" /\ failed' = FALSE
    /\ UNCHANGED sessionState
EndsRun == runAt = "done" /\ Exits(TRUE)
\* signal_handler, whenever the main task waits: the first interrupt ends its wait, the
\* second exits at once.
Interrupt ==
    \/ /\ runAt = "watching" /\ interrupts = 0 /\ interrupts' = 1
       /\ UNCHANGED <<cliJob, runAt, doing, unhandled, stepDue, inStep, asked, lastMessage, replay,
                      replayIndex, failed, errorsToSet, sessionState, given, runHistory>>
    \/ runAt \in {"watching", "closed"} /\ interrupts = 1 /\ Exits(FALSE)

-----------------------------------------------------------------------------
(* The controller *)

Subscribed == runAt \notin {"off", "closed", "done"}
\* A message of the user: the agent runs, and steps once the memory has answered.
TakesMessage ==
    /\ Subscribed /\ ~inStep /\ unhandled # <<>> /\ unhandled' = Tail(unhandled)
    /\ lastMessage' = Head(unhandled) /\ doing' = "running" /\ stepDue' = TRUE
    /\ sessionState' = (IF doing = "running" THEN sessionState ELSE Saving(failed))
    /\ UNCHANGED <<cliJob, runAt, inStep, asked, replay, replayIndex, failed, errorsToSet, interrupts,
                   given, runHistory>>

\* The next recorded action, if any is left.
Upcoming == {i \in (replayIndex + 1)..Len(replay) : replay[i] \in ReplayedKinds}
should_replay == Upcoming # {}
\* What becomes of an action once it is in the stream and its answer has come.  A
\* message of the user comes back as one; a closed controller hears of none.
Acts(action) ==
    /\ unhandled' = (IF action = "user" /\ Subscribed THEN Append(unhandled, "task") ELSE unhandled)
    /\ asked' = (IF action = "ask" /\ Subscribed THEN asked + 1 ELSE asked)
    /\ IF ~Subscribed \/ action = "user" THEN UNCHANGED <<doing, sessionState, stepDue>>
       ELSE IF action \in {"run", "say"} THEN stepDue' = (doing = "running") /\ UNCHANGED <<doing, sessionState>>
       ELSE SetsState(CASE action = "ask" -> "awaiting" [] action = "finish" -> "finished"
                        [] action = "reject" -> "rejected", failed)

\* _step, which begins in the state "running" only.
BeginsStep ==
    /\ stepDue /\ doing = "running" /\ ~inStep /\ Subscribed /\ inStep' = TRUE /\ stepDue' = FALSE
    /\ UNCHANGED <<cliJob, runAt, doing, unhandled, asked, lastMessage, replay, replayIndex, failed,
                   errorsToSet, interrupts, sessionState, given, runHistory>>
Replays ==
    /\ inStep /\ inStep' = FALSE /\ should_replay
    /\ LET i == CHOOSE i \in Upcoming : \A j \in Upcoming : i <= j
       IN  replayIndex' = i /\ played' = Append(played, replay[i]) /\ Acts(replay[i])
    /\ UNCHANGED <<cliJob, runAt, lastMessage, replay, failed, errorsToSet, interrupts, given, decided,
                   answered, unheard, reports, earlier>>
\* The agent itself: after '/exit' it finishes, without a call of the model.
Decides(action) ==
    /\ inStep /\ inStep' = FALSE /\ ~should_replay /\ decided < MaxDecisions
    /\ lastMessage = "exit" => action = "finish"
    /\ decided' = decided + 1 /\ Acts(action)
    /\ UNCHANGED <<cliJob, runAt, lastMessage, replay, replayIndex, failed, errorsToSet, interrupts,
                   given, played, answered, unheard, reports, earlier>>
\* A limit, a loop or an exception: the error is noted, a second task to set the state
\* is created by the status callback, and the state set.
StepFails ==
    /\ inStep /\ inStep' = FALSE /\ failed' = TRUE /\ SetsState("error", TRUE)
    /\ errorsToSet' = (IF runAt \in {"ready", "given"} THEN errorsToSet ELSE errorsToSet + 1)
    /\ UNCHANGED <<cliJob, runAt, unhandled, asked, lastMessage, replay, replayIndex, interrupts, given,
                   runHistory>>

-----------------------------------------------------------------------------
(* The callbacks *)

\* status_callback, called by the runtime.
RuntimeReports ==
    /\ runAt = "watching" /\ reports < MaxReports /\ reports' = reports + 1
    /\ failed' = TRUE /\ errorsToSet' = errorsToSet + 1
    /\ UNCHANGED <<cliJob, runAt, doing, unhandled, stepDue, inStep, asked, lastMessage, replay,
                   replayIndex, interrupts, sessionState, given, played, decided, answered, unheard, earlier>>
SetsError ==
    /\ errorsToSet > 0 /\ errorsToSet' = errorsToSet - 1 /\ SetsState("error", failed)
    /\ UNCHANGED <<cliJob, runAt, unhandled, inStep, asked, lastMessage, replay, replayIndex, failed,
                   interrupts, given, runHistory>>

\* on_event: '/exit', the made up response, or what the user types.
on_event(text) ==
    /\ asked > 0 /\ asked' = asked - 1 /\ runAt \in {"watching", "saving"}
    /\ cliJob.exit => text = "exit"
    /\ unhandled' = Append(unhandled, text) /\ answered' = answered + 1
    /\ UNCHANGED <<cliJob, runAt, doing, stepDue, inStep, lastMessage, replay, replayIndex, failed,
                   errorsToSet, interrupts, sessionState, given, played, decided, unheard, reports, earlier>>
\* What is delivered before it is subscribed is lost.
Unheard ==
    /\ asked > 0 /\ asked' = asked - 1 /\ runAt = "given" /\ unheard' = TRUE
    /\ UNCHANGED <<cliJob, runAt, doing, unhandled, stepDue, inStep, lastMessage, replay, replayIndex,
                   failed, errorsToSet, interrupts, sessionState, given, played, decided, answered, reports,
                   earlier>>

HeadlessNext ==
    \/ \E j \in Jobs : SetsUp(j)
    \/ GivesTask \/ Listens \/ WatchEnds \/ ShutsDown \/ SavesSession \/ EndsRun \/ Interrupt
    \/ TakesMessage \/ BeginsStep \/ Replays \/ StepFails
    \/ \E action \in {"run", "ask", "finish", "reject"} : Decides(action)
    \/ RuntimeReports \/ SetsError \/ Unheard \/ \E text \in {"exit", "reply"} : on_event(text)

-----------------------------------------------------------------------------
\* A trajectory is replayed action by action, in its order and to its end before the
\* agent decides anything or anybody is asked: the user's recorded answers take the
\* place of new ones.
ReplayUndisturbed ==
    LET recorded == SelectSeq(replay, LAMBDA e : e \in ReplayedKinds) IN
    /\ IsPrefix(played, recorded)
    /\ decided + answered + asked > 0 => played = recorded

\* An agent that waits for the user in a run that goes on is about to be answered,
\* unless it began to wait before anybody listened; a run that exits on a message
\* answers once.
AskingIsAnswered ==
    /\ doing = "awaiting" /\ runAt \in {"ready", "given", "watching"} =>
           asked > 0 \/ unhandled # <<>> \/ unheard
    /\ cliJob.exit => answered <= 1

\* A run is told to get back on track only if an earlier run of the session failed,
\* and always when one failed that ended by itself.
ResumesAfterFailure ==
    /\ given = "resume" => \E i \in DOMAIN earlier : earlier[i].failed
    /\ given = "task" => ~\E i \in DOMAIN earlier : earlier[i].failed /\ earlier[i].ended

\* Unless the runtime reported an error of its own, an agent that was seen to have
\* ended has ended for good.
EndIsFinal == runAt \in {"saving", "closed", "done"} /\ reports = 0 => doing \in EndStates

\* What the command line promises of a replay, of an agent that asks, of a session
\* that is resumed and of its end.
HeadlessKept == ReplayUndisturbed /\ AskingIsAnswered /\ ResumesAfterFailure /\ EndIsFinal
=============================================================================
