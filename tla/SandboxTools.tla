---------------------------- MODULE SandboxTools ----------------------------
(* Tools that the action server talks to over channels of their own: the     *)
(* browser's pipe, and below it the kernel's web socket.                     *)
EXTENDS Naturals, Sequences

-----------------------------------------------------------------------------
(* openhands/runtime/browser: the browser runs in a process of its own, and  *)
(* the action server talks to it over a pipe, one action at a time.          *)
CONSTANTS
    BrowserTries,     \* stop_after_attempt of init_browser
    MaxBrowserAsks    \* bound: actions

VARIABLES
    browserEnv,    \* self.browser of the action server: "none", "starting", "ready", "failed", "closed"
    browserProc,   \* the process: "off", "up" or "dead"
    pipeOpen,
    toBrowser,     \* the pipe: numbers of actions, and IsAlive
    toAgent,       \* [id, page]: an answer and what the page shows in it
    browserTry,    \* attempts to start it
    asked,         \* actions sent
    asking,        \* the action step waits for, or 0
    pageOf,        \* what the page shows: the actions it was led through
    shownPage          \* the latest answer of step: [ask, page]
browserVars == <<browserEnv, browserProc, pipeOpen, toBrowser, toAgent, browserTry, asked, asking, pageOf, shownPage>>

IsAlive == 0
Nothing == [ask |-> 0, page |-> <<>>]

BrowserInit ==
    /\ browserEnv = "none" /\ browserProc = "off" /\ pipeOpen = TRUE /\ toBrowser = <<>> /\ toAgent = <<>>
    /\ browserTry = 0 /\ asked = 0 /\ asking = 0 /\ pageOf = <<>> /\ shownPage = Nothing

-----------------------------------------------------------------------------
(* The start: init_browser and check_alive *)

\* A process is started and asked whether it is there.  An attempt that closed the pipe
\* leaves none to hand to the next process, which then cannot be started.
StartsBrowser ==
    /\ browserEnv = "none" /\ browserTry' = browserTry + 1 /\ pageOf' = <<>>
    /\ IF pipeOpen THEN browserEnv' = "starting" /\ browserProc' = "up" /\ toBrowser' = Append(toBrowser, IsAlive)
       ELSE browserEnv' = "failed" /\ UNCHANGED <<browserProc, toBrowser>>
    /\ UNCHANGED <<pipeOpen, toAgent, asked, asking, shownPage>>
\* close: an ended process is left with its pipe as it was.
CloseProcess ==
    IF browserProc = "up" THEN browserProc' = "off" /\ pipeOpen' = FALSE /\ toBrowser' = <<>> /\ toAgent' = <<>>
    ELSE UNCHANGED <<browserProc, pipeOpen, toBrowser, toAgent>>
SeesAlive ==
    /\ browserEnv = "starting" /\ toAgent # <<>> /\ browserEnv' = "ready" /\ toAgent' = Tail(toAgent)
    /\ UNCHANGED <<browserProc, pipeOpen, toBrowser, browserTry, asked, asking, pageOf, shownPage>>
NotAlive ==
    /\ browserEnv = "starting" /\ toAgent = <<>> /\ CloseProcess
    /\ browserEnv' = (IF browserTry < BrowserTries THEN "none" ELSE "failed")
    /\ UNCHANGED <<browserTry, asked, asking, pageOf, shownPage>>

-----------------------------------------------------------------------------
(* The process: browser_process *)

BrowserServes ==
    LET n == Head(toBrowser) IN
    /\ browserProc = "up" /\ pipeOpen /\ toBrowser # <<>> /\ toBrowser' = Tail(toBrowser)
    /\ IF n = IsAlive THEN toAgent' = Append(toAgent, [id |-> IsAlive, page |-> <<>>]) /\ UNCHANGED pageOf
       ELSE pageOf' = Append(pageOf, n) /\ toAgent' = Append(toAgent, [id |-> n, page |-> pageOf'])
    /\ UNCHANGED <<browserEnv, browserProc, pipeOpen, browserTry, asked, asking, shownPage>>
\* An exception of the environment ends the process; the request it was at is gone.
BrowserDies ==
    /\ browserProc = "up" /\ browserProc' = "dead"
    /\ toBrowser' \in {toBrowser} \cup (IF toBrowser = <<>> THEN {} ELSE {Tail(toBrowser)})
    /\ UNCHANGED <<browserEnv, pipeOpen, toAgent, browserTry, asked, asking, pageOf, shownPage>>

-----------------------------------------------------------------------------
(* An action: browse and step *)

StepSends ==
    /\ browserEnv = "ready" /\ asking = 0 /\ asked < MaxBrowserAsks
    /\ asked' = asked + 1 /\ asking' = asked + 1 /\ toBrowser' = Append(toBrowser, asked + 1)
    /\ UNCHANGED <<browserEnv, browserProc, pipeOpen, toAgent, browserTry, pageOf, shownPage>>
MutStepReceives ==
    /\ asking > 0 /\ toAgent # <<>> /\ toAgent' = Tail(toAgent)
    /\ shownPage' = [ask |-> asking, page |-> Head(toAgent).page] /\ asking' = 0
    /\ UNCHANGED <<browserEnv, browserProc, pipeOpen, toBrowser, browserTry, asked, pageOf>>
\* Answers to earlier requests are passed over.
StepReceives ==
    LET a == Head(toAgent) IN
    /\ asking > 0 /\ toAgent # <<>> /\ toAgent' = Tail(toAgent)
    /\ IF a.id = asking THEN shownPage' = [ask |-> asking, page |-> a.page] /\ asking' = 0
       ELSE UNCHANGED <<shownPage, asking>>
    /\ UNCHANGED <<browserEnv, browserProc, pipeOpen, toBrowser, browserTry, asked, pageOf>>
\* The agent is told of an error; the process goes on with the action.
StepTimesOut ==
    /\ asking > 0 /\ asking' = 0
    /\ UNCHANGED <<browserEnv, browserProc, pipeOpen, toBrowser, toAgent, browserTry, asked, pageOf, shownPage>>
CloseBrowser ==
    /\ browserEnv = "ready" /\ asking = 0 /\ CloseProcess /\ browserEnv' = "closed"
    /\ UNCHANGED <<browserTry, asked, asking, pageOf, shownPage>>

BrowserNext ==
    \/ StartsBrowser \/ SeesAlive \/ NotAlive \/ BrowserServes \/ BrowserDies
    \/ StepSends \/ StepReceives \/ StepTimesOut \/ CloseBrowser

-----------------------------------------------------------------------------
\* What the agent is shown is the page after its own action, which every earlier
\* action that was sent has been at, the ones it gave up waiting for too.
ShowsOwnPage == shownPage.ask > 0 => shownPage.page = [i \in 1..shownPage.ask |-> i]
\* A process that is ready can be asked: an attempt to start one succeeds only if every
\* earlier process had ended by itself.
ReadyIsReachable == browserEnv = "ready" => pipeOpen
\* The browser's answers reach the action that asked, whatever times out or starts late.
BrowserAnswers == ShowsOwnPage /\ ReadyIsReachable

-----------------------------------------------------------------------------
(* openhands/runtime/plugins/jupyter: cells sent to a kernel over a web      *)
(* socket.  What a cell prints and its reply come on two channels of the     *)
(* kernel, each in order, which the gateway merges in any order.             *)
CONSTANTS
    ConnectTries,    \* stop_after_attempt of execute
    MaxCells,        \* bound: cells, the one that sets the colours included
    MaxPrints,       \* bound: what a cell prints
    MaxDrops         \* bound: refused and lost connections

VARIABLES
    socket,       \* "none", "up" or "lost"
    kernelQueue,  \* cells at the kernel that wait for the one it runs
    runningCell,  \* [cell, prints], or NoCell
    ioChannel, shellChannel,   \* messages on their way: [cell, what, nth]
    colorsSet,    \* initialized
    waitingFor,   \* the cell execute waits for, or 0
    connectTry,   \* attempts of execute so far
    gathered,     \* outputs of it
    cellAnswer,   \* the latest answer: [cell, how, outputs]
    cellsSent, drops,
    ranCells      \* history: cells in the order the kernel took them
jupyterVars == <<socket, kernelQueue, runningCell, ioChannel, shellChannel, colorsSet, waitingFor, connectTry,
                 gathered, cellAnswer, cellsSent, drops, ranCells>>
kernelVars == <<kernelQueue, runningCell, ioChannel, shellChannel, ranCells>>

NoCell == [cell |-> 0, prints |-> 0]
Msg(c, what, n) == [cell |-> c, what |-> what, nth |-> n]
Answer(c, how, outputs) == [cell |-> c, how |-> how, outputs |-> outputs]

JupyterInit ==
    /\ socket = "none" /\ kernelQueue = <<>> /\ runningCell = NoCell /\ ioChannel = <<>> /\ shellChannel = <<>>
    /\ colorsSet = FALSE /\ waitingFor = 0 /\ connectTry = 0 /\ gathered = <<>>
    /\ cellAnswer = Answer(0, "none", <<>>) /\ cellsSent = 0 /\ drops = 0 /\ ranCells = <<>>

-----------------------------------------------------------------------------
(* JupyterPlugin._run and JupyterKernel.execute *)

\* _connect: a kernel is asked for once, a web socket every time.
Connects ==
    /\ socket # "up" /\ waitingFor = 0 /\ cellsSent < MaxCells
    /\ socket' = "up" /\ UNCHANGED <<kernelVars, colorsSet, waitingFor, connectTry, gathered, cellAnswer, cellsSent, drops>>
\* The third refusal is raised; so is the one of the cell that sets the colours, which
\* the next cell sends again.
ConnectRefused ==
    /\ socket # "up" /\ waitingFor = 0 /\ cellsSent < MaxCells /\ drops < MaxDrops /\ drops' = drops + 1
    /\ IF connectTry + 1 < ConnectTries THEN connectTry' = connectTry + 1 /\ UNCHANGED cellAnswer
       ELSE connectTry' = 0 /\ cellAnswer' = Answer(0, "refused", <<>>)
    /\ UNCHANGED <<socket, kernelVars, colorsSet, waitingFor, gathered, cellsSent>>
SendsCell ==
    /\ socket = "up" /\ waitingFor = 0 /\ cellsSent < MaxCells
    /\ cellsSent' = cellsSent + 1 /\ waitingFor' = cellsSent + 1 /\ gathered' = <<>> /\ connectTry' = 0
    /\ kernelQueue' = Append(kernelQueue, cellsSent + 1)
    /\ UNCHANGED <<socket, runningCell, ioChannel, shellChannel, ranCells, colorsSet, cellAnswer, drops>>
\* The cell that sets the colours is done with, whatever became of it.
AnswersCell(how, outputs) ==
    /\ waitingFor' = 0 /\ gathered' = <<>> /\ colorsSet' = TRUE /\ cellAnswer' = Answer(waitingFor, how, outputs)

\* wait_for_messages: messages of other cells are passed over; an error or the reply
\* ends the cell.
MutTakes(m) ==
    IF m.what = "print" THEN gathered' = Append(gathered, m) /\ UNCHANGED <<waitingFor, colorsSet, cellAnswer>>
    ELSE AnswersCell("done", IF m.what = "error" THEN Append(gathered, m) ELSE gathered)
Takes(m) ==
    IF m.cell # waitingFor THEN UNCHANGED <<waitingFor, gathered, colorsSet, cellAnswer>>
    ELSE IF m.what = "print" THEN gathered' = Append(gathered, m) /\ UNCHANGED <<waitingFor, colorsSet, cellAnswer>>
    ELSE AnswersCell("done", IF m.what = "error" THEN Append(gathered, m) ELSE gathered)
ReadsMessage ==
    /\ waitingFor > 0 /\ socket = "up"
    /\ \/ ioChannel # <<>> /\ Takes(Head(ioChannel)) /\ ioChannel' = Tail(ioChannel) /\ UNCHANGED shellChannel
       \/ shellChannel # <<>> /\ Takes(Head(shellChannel)) /\ shellChannel' = Tail(shellChannel) /\ UNCHANGED ioChannel
    /\ UNCHANGED <<socket, kernelQueue, runningCell, ranCells, connectTry, cellsSent, drops>>
\* The time is up: the kernel is interrupted, what was printed so far is not shown.
\* A cell may ignore the interrupt.
CellTimesOut ==
    /\ waitingFor > 0 /\ AnswersCell("timeout", <<>>)
    /\ \/ /\ runningCell # NoCell /\ runningCell' = NoCell
          /\ IF socket = "up" THEN /\ ioChannel' = Append(ioChannel, Msg(runningCell.cell, "error", 0))
                                   /\ shellChannel' = Append(shellChannel, Msg(runningCell.cell, "reply", 0))
             ELSE UNCHANGED <<ioChannel, shellChannel>>
       \/ UNCHANGED <<runningCell, ioChannel, shellChannel>>
    /\ UNCHANGED <<socket, kernelQueue, ranCells, connectTry, cellsSent, drops>>
\* The connection is lost with what was on it; the heartbeat opens another while the
\* cell is waited for.
SocketLost ==
    /\ socket = "up" /\ drops < MaxDrops /\ drops' = drops + 1
    /\ socket' = "lost" /\ ioChannel' = <<>> /\ shellChannel' = <<>>
    /\ UNCHANGED <<kernelQueue, runningCell, ranCells, colorsSet, waitingFor, connectTry, gathered, cellAnswer, cellsSent>>
HeartbeatReconnects ==
    /\ socket = "lost" /\ waitingFor > 0 /\ socket' = "up"
    /\ UNCHANGED <<kernelVars, colorsSet, waitingFor, connectTry, gathered, cellAnswer, cellsSent, drops>>

-----------------------------------------------------------------------------
(* The kernel *)

clientVars == <<socket, colorsSet, waitingFor, connectTry, gathered, cellAnswer, cellsSent, drops>>
Emits(io, shell) ==
    IF socket = "up" THEN ioChannel' = ioChannel \o io /\ shellChannel' = shellChannel \o shell
    ELSE UNCHANGED <<ioChannel, shellChannel>>
KernelTakes ==
    /\ runningCell = NoCell /\ kernelQueue # <<>>
    /\ runningCell' = [cell |-> Head(kernelQueue), prints |-> 0] /\ kernelQueue' = Tail(kernelQueue)
    /\ ranCells' = Append(ranCells, Head(kernelQueue)) /\ UNCHANGED <<ioChannel, shellChannel, clientVars>>
KernelPrints ==
    /\ runningCell # NoCell /\ runningCell.prints < MaxPrints /\ runningCell' = [runningCell EXCEPT !.prints = @ + 1]
    /\ Emits(<<Msg(runningCell.cell, "print", runningCell.prints + 1)>>, <<>>)
    /\ UNCHANGED <<kernelQueue, ranCells, clientVars>>
KernelEnds(raised) ==
    /\ runningCell # NoCell /\ runningCell' = NoCell
    /\ Emits(IF raised THEN <<Msg(runningCell.cell, "error", runningCell.prints + 1)>> ELSE <<>>, <<Msg(runningCell.cell, "reply", 0)>>)
    /\ UNCHANGED <<kernelQueue, ranCells, clientVars>>

JupyterNext ==
    \/ Connects \/ ConnectRefused \/ SendsCell \/ ReadsMessage \/ CellTimesOut \/ SocketLost \/ HeartbeatReconnects
    \/ KernelTakes \/ KernelPrints \/ \E raised \in BOOLEAN : KernelEnds(raised)

-----------------------------------------------------------------------------
\* An answer shows what its own cell printed, in order, and nothing of a cell that was
\* given up on or whose reply came before its output; without a lost connection nothing
\* in the middle is missing.
OwnOutput ==
    LET out == cellAnswer.outputs IN
    /\ \A i \in DOMAIN out : out[i].cell = cellAnswer.cell
    /\ \A i, j \in DOMAIN out : i < j => out[i].nth < out[j].nth
    /\ drops = 0 => \A i \in DOMAIN out : out[i].nth = i
\* A cell runs once, after the cells sent before it, however often execute tries again.
CellsOnce == \A i, j \in DOMAIN ranCells : i < j => ranCells[i] < ranCells[j]
\* An answer other than a timeout comes after the end of its cell: the next one does
\* not wait behind it.
EndsFirst ==
    cellAnswer.how = "done" => /\ runningCell.cell # cellAnswer.cell
                               /\ \A i \in DOMAIN kernelQueue : kernelQueue[i] # cellAnswer.cell
\* Each cell of the agent is run once, in order, and answered with its own output.
CellsAnswered == OwnOutput /\ CellsOnce /\ EndsFirst
=============================================================================
