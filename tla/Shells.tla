------------------------------- MODULE Shells -------------------------------
(* The shells of the sandbox: a tmux pane, below it PowerShell jobs, and the *)
(* child processes of the runtime that has no sandbox.                       *)
EXTENDS Naturals, FiniteSets, Sequences, SequencesExt

-----------------------------------------------------------------------------
(***************************************************************************)
(* BashSession: the agent's shell, driven through a tmux pane.  execute    *)
(* types keys into the pane and polls a screen capture until a prompt      *)
(* shows; all it knows of the shell is what the capture holds.  A prompt   *)
(* carries the exit code of the command that ended before it, so here a    *)
(* prompt is the number of that command (0 for the shell's start).         *)
(*                                                                         *)
(* Keys written to the pane are unread until the shell, or the process it  *)
(* runs, reads them: send_keys returns earlier than that.  Time is         *)
(* abstracted: a poll may find that a timeout has passed.                  *)
(***************************************************************************)
CONSTANT MaxCalls      \* bound: calls of execute; call n sends command n

ASSUME BashAssumption == MaxCalls \in Nat

VARIABLES
  bash,   \* BashSession: prev (prev_status), closed, and the call in progress
  term,   \* the pane: prompts captured, whether it ends with one, unread keys, the running command
  seen    \* history: what the last completed call was told, and the races met so far

bashVars == <<bash, term, seen>>

Modes == {"run", "input", "logs"}       \* a command, is_input, the empty command
TimedOut == {"no_change", "hard"}

NoCall == [n |-> 0, mode |-> "none", blocking |-> FALSE, timeout |-> FALSE, count |-> 0]

Unread(n) == \E i \in DOMAIN term.unread : term.unread[i].n = n

BashInit ==
  /\ bash = [prev |-> "none", closed |-> FALSE, calls |-> 0, awaits |-> 0, call |-> NoCall]
  /\ term = [prompts |-> <<0>>, atEnd |-> TRUE, unread |-> <<>>, job |-> 0]
  /\ seen = [own |-> TRUE, fed |-> FALSE, raced |-> FALSE]

Idle == bash.call = NoCall /\ ~bash.closed

-----------------------------------------------------------------------------
(* The terminal *)

\* Bash reads a line at its prompt and starts it; the echo moves the prompt off the end.
ShellReads ==
  /\ term.job = 0 /\ term.unread # <<>>
  /\ term' = [term EXCEPT !.job = Head(term.unread).n, !.unread = Tail(@), !.atEnd = FALSE]
  /\ seen' = [seen EXCEPT !.raced = @ \/ Head(term.unread).mode = "input"]
  /\ UNCHANGED bash

\* The running process reads a line from its standard input.
ProcessReads ==
  /\ term.job # 0 /\ term.unread # <<>>
  /\ term' = [term EXCEPT !.unread = Tail(@)]
  /\ UNCHANGED <<bash, seen>>

\* The running command ends: bash prints a prompt with its exit code.
CommandEnds ==
  /\ term.job # 0
  /\ term' = [term EXCEPT !.prompts = Append(@, term.job), !.atEnd = TRUE, !.job = 0]
  /\ UNCHANGED <<bash, seen>>

\* Output beyond HISTORY_LIMIT pushes the oldest prompt out of the capture.
OutputScrolls ==
  /\ term.job # 0 /\ term.prompts # <<>>
  /\ term' = [term EXCEPT !.prompts = Tail(@)]
  /\ UNCHANGED <<bash, seen>>

-----------------------------------------------------------------------------
(* execute *)

\* Nothing is typed: several commands in one, or input or a log request with no command timed out.
BashRefuses ==
  /\ Idle /\ bash.calls < MaxCalls
  /\ bash' = [bash EXCEPT !.calls = @ + 1]
  /\ UNCHANGED <<term, seen>>

MutNeverStillRunning == FALSE

\* The command that timed out still has the terminal, as far as the capture shows.
PreviousStillRunning == bash.prev \in TimedOut /\ ~term.atEnd

\* execute: the checks, the first capture, the keys.
Execute(mode, blocking, timeout) ==
  /\ Idle /\ bash.calls < MaxCalls
  /\ mode # "run" => bash.prev \in TimedOut
  /\ mode = "run" => ~PreviousStillRunning
  /\ LET n == bash.calls + 1 IN
     /\ bash' = [bash EXCEPT !.calls = n,
                             !.awaits = IF mode = "run" THEN n ELSE @,
                             !.call = [n |-> n, mode |-> mode, blocking |-> blocking,
                                       timeout |-> timeout, count |-> Len(term.prompts)]]
     /\ term' = IF mode = "logs" THEN term
                ELSE [term EXCEPT !.unread = Append(@, [n |-> n, mode |-> mode])]
     /\ seen' = [seen EXCEPT !.fed = @ \/ (mode = "run" /\ term.job # 0)]

\* A capture shows completion: one more prompt than at first, or a prompt at its end.
ShowsCompletion == Len(term.prompts) > bash.call.count \/ term.atEnd

\* _ready_for_next_command: C-l makes an idle bash redraw its last prompt alone.
Cleared == IF term.job = 0 /\ term.unread = <<>>
           THEN [term EXCEPT !.prompts = <<Last(@)>>]
           ELSE term

\* _handle_completed_command: the last prompt in the capture is taken for this call's.
Completed ==
  /\ bash.call # NoCall /\ ShowsCompletion /\ term.prompts # <<>>
  /\ bash' = [bash EXCEPT !.prev = "completed", !.call = NoCall]
  /\ term' = Cleared
  /\ seen' = [seen EXCEPT !.own = bash.call.mode = "input" \/ Last(term.prompts) = bash.awaits,
                          !.raced = @ \/ Unread(bash.call.n)]

\* _handle_nochange_timeout_command, _handle_hard_timeout_command.
PollTimesOut(status) ==
  /\ bash.call # NoCall /\ ~ShowsCompletion
  /\ status = "no_change" => ~bash.call.blocking
  /\ status = "hard" => bash.call.timeout
  /\ bash' = [bash EXCEPT !.prev = status, !.call = NoCall]
  /\ UNCHANGED <<term, seen>>

\* close, or should_continue turns false under a poll and execute raises.
BashCloses ==
  /\ ~bash.closed
  /\ bash' = [bash EXCEPT !.closed = TRUE, !.call = NoCall]
  /\ UNCHANGED <<term, seen>>

BashNext ==
  \/ ShellReads \/ ProcessReads \/ CommandEnds \/ OutputScrolls
  \/ BashRefuses \/ Completed \/ BashCloses
  \/ \E mode \in Modes, blocking, timeout \in BOOLEAN : Execute(mode, blocking, timeout)
  \/ \E status \in TimedOut : PollTimesOut(status)

BashSpec == BashInit /\ [][BashNext]_bashVars

-----------------------------------------------------------------------------
\* A call that is told "completed" carries the exit code of the command it ran or waited for, and
\* a new command is never typed into a process that reads the terminal (bash.py: prev_status, the
\* prompt count and the prompt at the end of the capture together), unless one of two races was
\* met: a poll saw the old prompt before bash had read the keys, or input a process had left
\* unread was run by bash as a command.
AnswersOwnCommand == seen.raced \/ (seen.own /\ ~seen.fed)

-----------------------------------------------------------------------------
(***************************************************************************)
(* WindowsPowershellSession: the agent's shell on Windows.  A command is   *)
(* started as a PowerShell job and followed until it ends or times out; a  *)
(* timed out job stays the active one, and the next calls of execute look  *)
(* at it, stop it or are turned away.  Every answer shows the output since *)
(* the last one: _last_job_output remembers how much was shown.            *)
(*                                                                         *)
(* Output is counted in lines.  Receive-Job -Keep returns all lines so     *)
(* far, so removeprefix(_last_job_output) is a subtraction.  Job n is the  *)
(* one call n started.  execute is called by one caller at a time; close   *)
(* may come in between, except under _check_active_job, which holds        *)
(* _job_lock for as long as it waits.                                      *)
(***************************************************************************)
CONSTANTS
  MaxPsCalls,  \* bound: calls of execute
  MaxLines     \* bound: lines one job prints

ASSUME PowershellAssumption == MaxPsCalls \in Nat /\ MaxLines \in Nat

VARIABLES
  ps,     \* the session: active (job id or 0), last (lines shown of it), closed, calls, call
  jobs,   \* the runspace's jobs: state and lines printed
  shown   \* history: lines shown of each job, and how the caller learnt of its end

psVars == <<ps, jobs, shown>>

JobIds == 1..MaxPsCalls
Ended == {"completed", "failed", "stopped"}
NoWait == [on |-> 0, kind |-> "none", from |-> 0, latest |-> 0]

PsInit ==
  /\ ps = [active |-> 0, last |-> 0, closed |-> FALSE, calls |-> 0, call |-> NoWait]
  /\ jobs = [j \in JobIds |-> [state |-> "absent", lines |-> 0]]
  /\ shown = [j \in JobIds |-> [lines |-> 0, how |-> "open"]]

PsReady == ps.call = NoWait /\ ~ps.closed /\ ps.calls < MaxPsCalls

\* An answer about job j: so many lines shown, and whether it tells the end.
Shows(j, n, how) == shown' = [shown EXCEPT ![j] = [lines |-> @.lines + n, how |-> how]]

\* Remove-Job
RemoveJob(j) == jobs' = [jobs EXCEPT ![j].state = "absent"]

-----------------------------------------------------------------------------
(* The jobs *)

JobPrints(j) ==
  /\ jobs[j].state = "running" /\ jobs[j].lines < MaxLines
  /\ jobs' = [jobs EXCEPT ![j].lines = @ + 1]
  /\ UNCHANGED <<ps, shown>>

JobEnds(j) ==
  /\ jobs[j].state = "running"
  /\ \E s \in {"completed", "failed"} : jobs' = [jobs EXCEPT ![j].state = s]
  /\ UNCHANGED <<ps, shown>>

\* Get-Job no longer returns the job.
JobLost(j) ==
  /\ jobs[j].state = "running"
  /\ RemoveJob(j)
  /\ UNCHANGED <<ps, shown>>

-----------------------------------------------------------------------------
(* execute with an active job *)

\* What removeprefix leaves of a job's output.
Fresh(j, since) == jobs[j].lines - since

\* The job had ended before the call.  Its output is received, _last_job_output is reset, and then
\* taken off the output: the whole output is shown.  The call's own command is not run.
ReapsEnded ==
  /\ PsReady /\ ps.active # 0 /\ jobs[ps.active].state \in Ended
  /\ Shows(ps.active, Fresh(ps.active, 0), "reaped")
  /\ RemoveJob(ps.active)
  /\ ps' = [ps EXCEPT !.calls = @ + 1, !.active = 0, !.last = 0]

\* The job object is gone: an error, and the session forgets the job.
ReapsLost ==
  /\ PsReady /\ ps.active # 0 /\ jobs[ps.active].state = "absent"
  /\ Shows(ps.active, 0, "lost")
  /\ ps' = [ps EXCEPT !.calls = @ + 1, !.active = 0, !.last = 0]
  /\ UNCHANGED jobs

\* Input, or another command, while the job runs: not executed, the new output is shown.
TurnedAway ==
  /\ PsReady /\ ps.active # 0 /\ jobs[ps.active].state = "running"
  /\ Shows(ps.active, Fresh(ps.active, ps.last), "open")
  /\ ps' = [ps EXCEPT !.calls = @ + 1, !.last = jobs[ps.active].lines]
  /\ UNCHANGED jobs

\* C-c: _stop_active_job shows the whole output once more.
StopsActive ==
  /\ PsReady /\ ps.active # 0 /\ jobs[ps.active].state = "running"
  /\ Shows(ps.active, Fresh(ps.active, 0), "stopped")
  /\ RemoveJob(ps.active)
  /\ ps' = [ps EXCEPT !.calls = @ + 1, !.active = 0]

\* The empty command: _check_active_job starts to wait.
ChecksActive ==
  /\ PsReady /\ ps.active # 0 /\ jobs[ps.active].state = "running"
  /\ ps' = [ps EXCEPT !.calls = @ + 1,
                      !.call = [on |-> ps.active, kind |-> "check",
                                from |-> ps.last, latest |-> ps.last]]
  /\ UNCHANGED <<jobs, shown>>

-----------------------------------------------------------------------------
(* execute without one *)

\* Nothing to look at, a control key, a parse error, several statements, or a change of
\* directory run at once in the runspace: no job is started.
NoJobStarted ==
  /\ PsReady /\ ps.active = 0
  /\ ps' = [ps EXCEPT !.calls = @ + 1]
  /\ UNCHANGED <<jobs, shown>>

\* Start-Job for a command with & at its end: answered at once, never tracked.
StartsBackground ==
  /\ PsReady /\ ps.active = 0
  /\ ps' = [ps EXCEPT !.calls = @ + 1, !.last = 0]
  /\ jobs' = [jobs EXCEPT ![ps.calls + 1].state = "running"]
  /\ shown' = [shown EXCEPT ![ps.calls + 1].how = "background"]

\* Start-Job, then the job with the highest id is made the active one and followed.
StartsJob ==
  /\ PsReady /\ ps.active = 0
  /\ LET j == ps.calls + 1 IN
     /\ ps' = [ps EXCEPT !.calls = j, !.active = j, !.last = 0,
                         !.call = [on |-> j, kind |-> "monitor", from |-> 0, latest |-> 0]]
     /\ jobs' = [jobs EXCEPT ![j].state = "running"]
     /\ UNCHANGED shown

\* The job has failed when it is looked up: its output is consumed, only the errors are returned.
StartFails ==
  /\ PsReady /\ ps.active = 0
  /\ ps' = [ps EXCEPT !.calls = @ + 1, !.last = 0]
  /\ UNCHANGED <<jobs, shown>>

-----------------------------------------------------------------------------
(* The waiting loops of execute and _check_active_job *)

\* One poll with -Keep that finds the job running.
Polls ==
  /\ ps.call.on # 0 /\ jobs[ps.call.on].state = "running"
  /\ ps' = [ps EXCEPT !.call.latest = jobs[ps.call.on].lines]
  /\ UNCHANGED <<jobs, shown>>

\* The job has ended: the rest is received, the job removed, the reference cleared.
WaitSeesEnd ==
  /\ ps.call.on # 0 /\ jobs[ps.call.on].state \in Ended
  /\ Shows(ps.call.on, Fresh(ps.call.on, ps.call.from), "ended")
  /\ RemoveJob(ps.call.on)
  /\ ps' = [ps EXCEPT !.active = 0, !.last = 0, !.call = NoWait]

\* The job object is gone: what the last poll had seen is shown.
WaitSeesLost ==
  /\ ps.call.on # 0 /\ jobs[ps.call.on].state = "absent"
  /\ Shows(ps.call.on, ps.call.latest - ps.call.from, "lost")
  /\ ps' = [ps EXCEPT !.active = 0, !.last = 0, !.call = NoWait]
  /\ UNCHANGED jobs

MutForgetsShown ==
  /\ ps.call.on # 0
  /\ Shows(ps.call.on, ps.call.latest - ps.call.from, "open")
  /\ ps' = [ps EXCEPT !.call = NoWait]
  /\ UNCHANGED jobs

\* The timeout, or a shutdown: the job stays active, what was shown is remembered.
WaitTimesOut ==
  /\ ps.call.on # 0
  /\ Shows(ps.call.on, ps.call.latest - ps.call.from, "open")
  /\ ps' = [ps EXCEPT !.last = ps.call.latest, !.call = NoWait]
  /\ UNCHANGED jobs

\* close stops and removes the active job and disposes of the runspace.
PsCloses ==
  /\ ~ps.closed /\ ps.call.kind # "check"
  /\ ps' = [ps EXCEPT !.closed = TRUE, !.active = 0, !.last = 0]
  /\ IF ps.active # 0 THEN RemoveJob(ps.active) ELSE UNCHANGED jobs
  /\ UNCHANGED shown

PsNext ==
  \/ ReapsEnded \/ ReapsLost \/ TurnedAway \/ StopsActive \/ ChecksActive
  \/ NoJobStarted \/ StartsBackground \/ StartsJob \/ StartFails
  \/ Polls \/ WaitSeesEnd \/ WaitSeesLost \/ WaitTimesOut \/ PsCloses
  \/ \E j \in JobIds : JobPrints(j) \/ JobEnds(j) \/ JobLost(j)

PsSpec == PsInit /\ [][PsNext]_psVars

-----------------------------------------------------------------------------
\* However calls time out, are turned away or look again, no line of a followed job is shown twice,
\* and none is missing once the caller has been told that it completed (execute's monitor loop and
\* _check_active_job): the exceptions are a job stopped by C-c or found to have ended between two
\* calls, whose output is shown whole.
FollowedJobShownOnce ==
  \A j \in JobIds :
    shown[j].how \in {"open", "lost", "ended"} =>
      /\ shown[j].lines <= jobs[j].lines
      /\ shown[j].how = "ended" => shown[j].lines = jobs[j].lines

-----------------------------------------------------------------------------
(* CLIRuntime runs a command as a child process and collects its output: it  *)
(* polls the process, waits at most 0.1 s for its pipe, reads line by line,  *)
(* and once the process has ended or timed out reads what is left.  A line   *)
(* read takes everything the pipe holds into the buffer of the text stream,  *)
(* where select does not see it.                                             *)
CONSTANTS MaxCliLines,  \* bound: lines a command prints
          MaxCliCommands \* bound: commands

VARIABLES
    cliReady,      \* _runtime_initialized
    child,         \* the process: "none", "runs", "ended", and whether it heeds SIGTERM
    heir,          \* a background process of the command that keeps the pipe open
    printed,       \* history: the lines the command has written so far
    pipe, buffer,  \* lines in the kernel's pipe and in the stream's buffer
    at,            \* where _execute_shell_command is
    lineRead,      \* the local variable: "unbound", "some" or "empty"
    output,        \* output_lines
    timedOut, answer, cliRuns
cliVars == <<cliReady, child, heir, printed, pipe, buffer, at, lineRead, output, timedOut, answer, cliRuns>>
processVars == <<child, heir, printed, pipe>>

NoAnswer == "none"

CliInit ==
    /\ cliReady = FALSE /\ child = "none" /\ heir = FALSE
    /\ printed = <<>> /\ pipe = <<>> /\ buffer = <<>>
    /\ at = "idle" /\ lineRead = "unbound" /\ output = <<>> /\ timedOut = FALSE
    /\ answer = NoAnswer /\ cliRuns = 0

\* The workspace is made, the process changes to it, the environment is set up.
CliConnects ==
    /\ ~cliReady /\ cliReady' = TRUE
    /\ UNCHANGED <<processVars, buffer, at, lineRead, output, timedOut, answer, cliRuns>>

\* close() does not wait for a command that another thread is running.
CliCloses ==
    /\ cliReady /\ cliRuns = MaxCliCommands /\ cliReady' = FALSE
    /\ UNCHANGED <<processVars, buffer, at, lineRead, output, timedOut, answer, cliRuns>>

\* Not initialised, and input for a running command, are errors; otherwise bash -c.
RunRefused ==
    /\ at = "idle" /\ cliRuns < MaxCliCommands /\ cliRuns' = cliRuns + 1 /\ answer' = "refused"
    /\ UNCHANGED <<cliReady, processVars, buffer, at, lineRead, output, timedOut>>
RunStarts ==
    /\ at = "idle" /\ cliReady /\ cliRuns < MaxCliCommands /\ cliRuns' = cliRuns + 1
    /\ child' \in {"runs", "stubborn"} /\ heir' \in BOOLEAN
    /\ printed' = <<>> /\ pipe' = <<>> /\ buffer' = <<>>
    /\ at' = "poll" /\ lineRead' = "unbound" /\ output' = <<>> /\ timedOut' = FALSE /\ answer' = NoAnswer
    /\ UNCHANGED cliReady

Alive == child \in {"runs", "stubborn"}
\* The command or what it left behind prints, the command ends, its heir ends.
Prints ==
    /\ Alive \/ (heir /\ child = "ended")
    /\ at # "idle" /\ Len(printed) < MaxCliLines
    /\ printed' = Append(printed, Len(printed) + 1) /\ pipe' = Append(pipe, Len(printed) + 1)
    /\ UNCHANGED <<cliReady, child, heir, buffer, at, lineRead, output, timedOut, answer, cliRuns>>
Ends ==
    /\ Alive /\ child' = "ended"
    /\ UNCHANGED <<cliReady, heir, printed, pipe, buffer, at, lineRead, output, timedOut, answer, cliRuns>>
HeirEnds ==
    /\ child = "ended" /\ heir /\ heir' = FALSE
    /\ UNCHANGED <<cliReady, child, printed, pipe, buffer, at, lineRead, output, timedOut, answer, cliRuns>>

\* while process.poll() is None: the loop ends with the process, or at the
\* timeout, which sends SIGTERM to the process group.
CliPolls ==
    /\ at = "poll" /\ at' = IF Alive THEN "select" ELSE "drain"
    /\ UNCHANGED <<cliReady, processVars, buffer, lineRead, output, timedOut, answer, cliRuns>>
TimesOut ==
    /\ at = "poll" /\ Alive /\ at' = "drain" /\ timedOut' = TRUE
    /\ (IF child = "runs" THEN child' = "ended" /\ heir' = FALSE ELSE UNCHANGED <<child, heir>>)
    /\ UNCHANGED <<cliReady, printed, pipe, buffer, lineRead, output, answer, cliRuns>>

\* readline: from the buffer, else the pipe is emptied into it; at the end of
\* file an empty line; while neither is there the read blocks.
EndOfFile == ~Alive /\ ~heir
CanRead == buffer # <<>> \/ pipe # <<>> \/ EndOfFile
ReadsLine ==
    LET have == IF buffer # <<>> THEN buffer ELSE pipe
    IN /\ CanRead
       /\ IF have = <<>> THEN lineRead' = "empty" /\ UNCHANGED <<output, buffer, pipe>>
          ELSE /\ lineRead' = "some" /\ output' = Append(output, Head(have)) /\ buffer' = Tail(have)
               /\ pipe' = IF buffer # <<>> THEN pipe ELSE <<>>

\* select looks at the pipe only; the line it announces is read and streamed.
SelectReads ==
    /\ at = "select" /\ (pipe # <<>> \/ EndOfFile) /\ ReadsLine /\ at' = "poll"
    /\ UNCHANGED <<cliReady, child, heir, printed, timedOut, answer, cliRuns>>
SelectTimesOut ==
    /\ at = "select" /\ pipe = <<>> /\ at' = "poll"
    /\ UNCHANGED <<cliReady, processVars, buffer, lineRead, output, timedOut, answer, cliRuns>>

Returns ==
    /\ at' = "idle" /\ answer' = IF timedOut THEN "timeout" ELSE "exit"
    /\ UNCHANGED <<cliReady, processVars, buffer, lineRead, output, timedOut, cliRuns>>

MutDrains ==
    /\ at = "drain" /\ Returns

\* while line: readline().  A command that ended before the first read has no
\* `line`: the error is logged and the rest left unread.
Drains ==
    /\ at = "drain"
    /\ IF lineRead = "some"
       THEN ReadsLine /\ UNCHANGED <<cliReady, child, heir, printed, at, timedOut, answer, cliRuns>>
       ELSE Returns

CliNext ==
    \/ CliConnects \/ CliCloses \/ RunRefused \/ RunStarts \/ Prints \/ Ends \/ HeirEnds
    \/ CliPolls \/ TimesOut \/ SelectReads \/ SelectTimesOut \/ Drains

CliSpec == CliInit /\ [][CliNext]_cliVars

-----------------------------------------------------------------------------
\* The output of a command is all it printed, in order, or nothing at all: the
\* lines that sit unseen in the stream's buffer while select waits for the pipe
\* are read at the end, also after a timeout.  Nothing at all is returned when
\* the command ended, or timed out, before a first line was read.
CliOutputWhole ==
    at = "idle" /\ answer \in {"exit", "timeout"} =>
        \/ lineRead = "unbound" /\ output = <<>>
        \/ child = "ended" /\ ~heir /\ output = printed
=============================================================================
