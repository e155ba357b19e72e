---------------------------- MODULE ActionServer ----------------------------
(***************************************************************************)
(* The action execution server in the sandbox and its clients: the runtime *)
(* of the session and the runtimes that HTTP requests attach.  A client    *)
(* sends one action at a time (action_semaphore) and gives up after the    *)
(* action's time limit; the server takes the actions one by one            *)
(* (ActionExecutor.lock), also the ones nobody waits for any more.         *)
(***************************************************************************)
EXTENDS Naturals, Sequences

CONSTANTS
  Clients,       \* the runtimes that talk to one server
  Attempts,      \* stop_after_attempt of _send_action_server_request
  MaxActions     \* bound: client -> actions it sends

ASSUME ActionServerAssumption == Attempts \in Nat /\ MaxActions \in [Clients -> Nat]

VARIABLES
  sent,       \* client -> number of its latest action
  waits,      \* client -> NoRequest, or what it waits for: [kind, try]
  received,   \* client -> <<action, answer>>, the latest it got
  line,       \* requests at the server; the first holds the lock
  phase,      \* of the first request: "new", or "cell" after the reset of Jupyter's directory
  ran,        \* client -> its latest action that was executed
  shellDir,   \* the shell's directory (bash_session.cwd)
  cellDir,    \* Jupyter's directory; a cell may change it
  notedDir,   \* _jupyter_cwd: the directory Jupyter was last put in
  wandered,   \* history: a cell changed Jupyter's directory since it was put somewhere
  strayed     \* history: a cell ran elsewhere than in the shell's directory, and none had wandered

actionVars == <<sent, waits, received, line, phase, ran, shellDir, cellDir, notedDir, wandered, strayed>>

Dirs == {"home", "sub"}
NoRequest == [kind |-> "none", try |-> 0]

\* cmd: a command that moves the shell, cell: a cell that may move Jupyter,
\* other: static commands, file actions and the browser, which leave both
\* directories alone.
Kinds == {"cmd", "cell", "other"}

\* ainit has run before the first request: Jupyter was put where the shell is,
\* and the last start-up command put the shell into its first directory.
ActionInit ==
  /\ sent = [c \in Clients |-> 0]
  /\ waits = [c \in Clients |-> NoRequest]
  /\ received = [c \in Clients |-> <<0, "none">>]
  /\ line = <<>> /\ phase = "new"
  /\ ran = [c \in Clients |-> 0]
  /\ shellDir = "home" /\ cellDir = "home" /\ notedDir = "home"
  /\ wandered = FALSE /\ strayed = FALSE

dirVars == <<cellDir, notedDir, wandered, strayed>>
serverVars == <<phase, ran, shellDir, dirVars>>

\* A request is on its own connection: `try` tells the attempts of one action apart.
Request(c, a, k, t) == [client |-> c, action |-> a, kind |-> k, try |-> t]
Receives(c, answer) ==
  /\ received' = [received EXCEPT ![c] = <<sent[c], answer>>]
  /\ waits' = [waits EXCEPT ![c] = NoRequest]

-----------------------------------------------------------------------------
(* The client *)

\* send_action_for_execution: an action that cannot run, waits to be confirmed,
\* was rejected or is unknown to this runtime is answered without the server.
AnsweredHere(c) ==
  /\ waits[c] = NoRequest /\ sent[c] < MaxActions[c]
  /\ sent' = [sent EXCEPT ![c] = @ + 1]
  /\ received' = [received EXCEPT ![c] = <<sent[c] + 1, "here">>]
  /\ UNCHANGED <<waits, line, serverVars>>

SendsAction(c, k) ==
  /\ waits[c] = NoRequest /\ sent[c] < MaxActions[c]
  /\ sent' = [sent EXCEPT ![c] = @ + 1]
  /\ waits' = [waits EXCEPT ![c] = [kind |-> k, try |-> 1]]
  /\ line' = Append(line, Request(c, sent[c] + 1, k, 1))
  /\ UNCHANGED <<received, serverVars>>

\* The server closes the connection without an answer: the request is sent
\* again, whether or not the first one was or will be executed.  The new one
\* may not get there.
Resends(c) ==
  /\ waits[c].try \in 1 .. Attempts - 1
  /\ waits' = [waits EXCEPT ![c].try = @ + 1]
  /\ line' \in {line, Append(line, Request(c, sent[c], waits[c].kind, waits[c].try + 1))}
  /\ UNCHANGED <<sent, received, serverVars>>

\* The attempts are used up, or the error is not one that is tried again.
Disconnects(c) == /\ waits[c] # NoRequest
                  /\ Receives(c, "error")
                  /\ UNCHANGED <<sent, line, serverVars>>

\* httpx.TimeoutException, a little after the action's own time limit: the
\* server is not told.
ActionTimesOut(c) == /\ waits[c] # NoRequest
                     /\ Receives(c, "timeout")
                     /\ UNCHANGED <<sent, line, serverVars>>

-----------------------------------------------------------------------------
(* The server *)

\* The handler ends: its client, if it still waits on this connection, gets the
\* answer.
MutAnswersAnyone(answer) ==
  LET r == Head(line) IN
  /\ line' = Tail(line) /\ phase' = "new" /\ ran' = [ran EXCEPT ![r.client] = r.action]
  /\ IF waits[r.client] # NoRequest
     THEN Receives(r.client, answer)
     ELSE UNCHANGED <<waits, received>>
  /\ UNCHANGED sent

Answered(answer) ==
  LET r == Head(line) IN
  /\ line' = Tail(line) /\ phase' = "new" /\ ran' = [ran EXCEPT ![r.client] = r.action]
  /\ IF sent[r.client] = r.action /\ waits[r.client].try = r.try
     THEN Receives(r.client, answer)
     ELSE UNCHANGED <<waits, received>>
  /\ UNCHANGED sent

\* run_action takes the lock in the order the requests came.
Serves(k) == line # <<>> /\ Head(line).kind = k

\* ActionExecutor.run: the shell answers, wherever it is now.
RunsCommand == /\ Serves("cmd") /\ Answered("observation")
               /\ shellDir' \in Dirs
               /\ UNCHANGED dirVars

\* run_ipython: Jupyter is put where the shell is, if the shell moved since the
\* last time it was put somewhere.
MovesJupyter == /\ Serves("cell") /\ phase = "new" /\ shellDir # notedDir
                /\ phase' = "cell" /\ cellDir' = shellDir /\ notedDir' = shellDir
                /\ wandered' = FALSE
                /\ UNCHANGED <<sent, waits, received, line, ran, shellDir, strayed>>

\* The cell itself; it may change Jupyter's directory.
RunsCell == /\ Serves("cell") /\ (phase = "cell" \/ shellDir = notedDir)
            /\ Answered("observation")
            /\ cellDir' \in Dirs
            /\ strayed' = (strayed \/ (cellDir # shellDir /\ ~wandered))
            /\ wandered' = (wandered \/ cellDir' # cellDir)
            /\ UNCHANGED <<shellDir, notedDir>>

\* A static command has a shell of its own.
RunsStatic == /\ Serves("other") /\ \E a \in {"observation", "error"} : Answered(a)
              /\ UNCHANGED <<shellDir, dirVars>>

\* read, write and edit resolve a path against the shell's directory; what they
\* cannot do is an observation, what they raise an error 500.
RunsFileAction == /\ Serves("other") /\ \E a \in {"observation", "error"} : Answered(a)
                  /\ UNCHANGED <<shellDir, dirVars>>

\* browse, browse_interactive: without a browser, which is started once and
\* never again, the answer is an error.
Browses == /\ Serves("other") /\ \E a \in {"observation", "error"} : Answered(a)
           /\ UNCHANGED <<shellDir, dirVars>>

ActionNext ==
  \/ \E c \in Clients : \/ AnsweredHere(c) \/ \E k \in Kinds : SendsAction(c, k)
                        \/ Resends(c) \/ Disconnects(c) \/ ActionTimesOut(c)
  \/ RunsCommand \/ MovesJupyter \/ RunsCell
  \/ RunsStatic \/ RunsFileAction \/ Browses

ActionSpec == ActionInit /\ [][ActionNext]_actionVars

-----------------------------------------------------------------------------
(* Properties *)

\* A client that reads an observation may rely on all it did before: none of
\* its earlier actions is still running or waiting in the server, also the ones
\* it gave up on, and its actions ran in the order it sent them.  A cell ran
\* where the shell was, unless a cell before it had wandered off.
ActionsSeeEarlierOnes ==
  /\ ~strayed
  /\ \A i \in DOMAIN line :
       LET c == line[i].client IN
       /\ received[c][2] = "observation" => line[i].action > received[c][1]
       /\ line[i].action >= ran[c]
       /\ \A j \in i + 1 .. Len(line) : line[j].client = c => line[j].action >= line[i].action
=============================================================================
