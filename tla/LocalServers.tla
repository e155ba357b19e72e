---------------------------- MODULE LocalServers ----------------------------
(***************************************************************************)
(* LocalRuntime: action execution servers as processes of this machine.    *)
(* The running ones are in a table by conversation, _RUNNING_SERVERS, and   *)
(* some are started ahead of time, _WARM_SERVERS, by threads.  connect,    *)
(* close and delete run on the event loop, so each is one step up to its    *)
(* first await.                                                            *)
(***************************************************************************)
EXTENDS Naturals, Sequences, SequencesExt, FiniteSets

CONSTANTS
  LocalConvs, LocalRuntimes,
  ConvOf,          \* the conversation of a runtime
  Attached,        \* the runtimes made with attach_to_existing
  DesiredWarm,     \* DESIRED_NUM_WARM_SERVERS
  MaxServers,      \* bound: processes
  NoServer

ASSUME LocalAssumption ==
  /\ LocalRuntimes \subseteq DOMAIN ConvOf /\ \A r \in LocalRuntimes : ConvOf[r] \in LocalConvs
  /\ NoServer \notin Nat /\ {DesiredWarm, MaxServers} \subseteq Nat

VARIABLES
  running,    \* _RUNNING_SERVERS: conversation -> process or NoServer
  warm,       \* _WARM_SERVERS
  making,     \* processes of threads in _create_warm_server
  made,       \* number of processes started so far; they are 1 .. made
  aliveProcs,
  local,      \* runtime -> [at, server]
  orphans     \* history: processes a runtime took and dropped, its directory could not be removed

localVars == <<running, warm, making, made, aliveProcs, local, orphans>>

\* setup starts some warm servers when the program starts.
LocalInit ==
  /\ running = [s \in LocalConvs |-> NoServer]
  /\ made \in 0 .. DesiredWarm
  /\ warm = [i \in 1 .. made |-> i] /\ aliveProcs = 1 .. made /\ making = {}
  /\ local = [r \in LocalRuntimes |-> [at |-> "new", server |-> NoServer]]
  /\ orphans = {}

Puts(r, at, p) == local' = [local EXCEPT ![r] = [at |-> at, server |-> p]]

-----------------------------------------------------------------------------
(* connect *)

\* _create_server, so many times.
CreatesServers(n) ==
  /\ made + n <= MaxServers /\ made' = made + n
  /\ aliveProcs' = aliveProcs \cup made + 1 .. made + n

\* There is a server for this conversation.
Reuses(r) ==
  /\ local[r].at = "new" /\ running[ConvOf[r]] # NoServer
  /\ Puts(r, "waiting", running[ConvOf[r]])
  /\ UNCHANGED <<running, warm, making, made, aliveProcs, orphans>>

NothingToAttach(r) ==
  /\ local[r].at = "new" /\ r \in Attached /\ running[ConvOf[r]] = NoServer
  /\ Puts(r, "failed", NoServer)
  /\ UNCHANGED <<running, warm, making, made, aliveProcs, orphans>>

Starts(r) == local[r].at = "new" /\ r \notin Attached /\ running[ConvOf[r]] = NoServer

\* The first warm server; its own directory gives way to the runtime's.
MutPeeksWarm(r) ==
  /\ Starts(r) /\ warm # <<>>
  /\ LET p == Head(warm) IN
     /\ running' = [running EXCEPT ![ConvOf[r]] = p]
     /\ Puts(r, "waiting", p)
  /\ UNCHANGED <<warm, making, made, aliveProcs, orphans>>

TakesWarm(r) ==
  /\ Starts(r) /\ warm # <<>>
  /\ LET p == Head(warm) IN
     /\ warm' = Tail(warm)
     /\ running' = [running EXCEPT ![ConvOf[r]] = p]
     /\ Puts(r, "waiting", p)
  /\ UNCHANGED <<making, made, aliveProcs, orphans>>

\* _create_server; the directory it made is removed at once.  When a warm
\* server was taken and its directory could not be removed, that process is
\* dropped, still running.
StartsServer(r) ==
  /\ Starts(r) /\ CreatesServers(1)
  /\ running' = [running EXCEPT ![ConvOf[r]] = made + 1]
  /\ Puts(r, "waiting", made + 1)
  /\ warm' = IF warm = <<>> THEN warm ELSE Tail(warm)
  /\ orphans' = IF warm = <<>> THEN orphans ELSE orphans \cup {Head(warm)}
  /\ UNCHANGED making

\* The server answers; threads make up for the warm servers that are missing,
\* whatever other threads are making.
MissingWarm == IF Len(warm) < DesiredWarm THEN DesiredWarm - Len(warm) ELSE 0
Connected(r) ==
  /\ local[r].at = "waiting" /\ local[r].server \in aliveProcs
  /\ Puts(r, "ready", local[r].server)
  /\ CreatesServers(MissingWarm)
  /\ making' = making \cup made + 1 .. made + MissingWarm
  /\ UNCHANGED <<running, warm, orphans>>

\* _wait_until_alive gives up: the entry stays in the table.
NeverAlive(r) ==
  /\ local[r].at = "waiting"
  /\ Puts(r, "failed", local[r].server)
  /\ UNCHANGED <<running, warm, making, made, aliveProcs, orphans>>

-----------------------------------------------------------------------------
(* execute_action: a runtime that has been connected once; after close it    *)
(* takes the server that the table has.                                      *)

Executes(r) == IF local[r].server # NoServer THEN local[r].server ELSE running[ConvOf[r]]

\* One warm server is made up for.
ActionRuns(r) ==
  LET n == IF MissingWarm > 0 THEN 1 ELSE 0 IN
  /\ local[r].at \in {"ready", "closed"} /\ Executes(r) \in aliveProcs
  /\ Puts(r, local[r].at, Executes(r))
  /\ CreatesServers(n)
  /\ making' = making \cup made + 1 .. made + n
  /\ UNCHANGED <<running, warm, orphans>>

\* The table's entry goes, whichever process it names.
ActionFindsDead(r) ==
  /\ local[r].at \in {"ready", "closed"} /\ Executes(r) \notin aliveProcs \cup {NoServer}
  /\ Puts(r, local[r].at, Executes(r))
  /\ running' = [running EXCEPT ![ConvOf[r]] = NoServer]
  /\ UNCHANGED <<warm, making, made, aliveProcs, orphans>>

-----------------------------------------------------------------------------
(* The threads, the processes, close and delete *)

WarmReady(p) ==
  /\ p \in making /\ p \in aliveProcs
  /\ making' = making \ {p} /\ warm' = Append(warm, p)
  /\ UNCHANGED <<running, made, aliveProcs, local, orphans>>

WarmFails(p) ==
  /\ p \in making
  /\ making' = making \ {p} /\ aliveProcs' = aliveProcs \ {p}
  /\ UNCHANGED <<running, warm, made, local, orphans>>

ServerDies(p) ==
  /\ p \in aliveProcs /\ aliveProcs' = aliveProcs \ {p}
  /\ UNCHANGED <<running, warm, making, made, local, orphans>>

\* A runtime that only attached leaves the server alone; another ends its own
\* server and takes the conversation out of the table, whatever is there, also
\* when it is closed once more.
ClosesLocal(r) ==
  /\ Puts(r, IF local[r].at \in {"ready", "closed"} THEN "closed" ELSE "gone", NoServer)
  /\ running' = IF r \in Attached THEN running ELSE [running EXCEPT ![ConvOf[r]] = NoServer]
  /\ aliveProcs' = IF r \in Attached THEN aliveProcs ELSE aliveProcs \ {local[r].server}
  /\ UNCHANGED <<warm, making, made, orphans>>

\* The conversation's server, if it is in the table; with the last one the warm
\* servers go, but not those in the making.
DeletesLocal(s) ==
  LET left == [running EXCEPT ![s] = NoServer]
      last == \A t \in LocalConvs : left[t] = NoServer
      ended == {running[s]} \cup (IF last THEN ToSet(warm) ELSE {})
  IN
  /\ running' = left
  /\ aliveProcs' = aliveProcs \ ended
  /\ warm' = IF last THEN <<>> ELSE warm
  /\ UNCHANGED <<making, made, local, orphans>>

LocalNext ==
  \/ \E r \in LocalRuntimes : \/ Reuses(r) \/ NothingToAttach(r) \/ TakesWarm(r)
                              \/ StartsServer(r) \/ Connected(r) \/ NeverAlive(r)
                              \/ ActionRuns(r) \/ ActionFindsDead(r) \/ ClosesLocal(r)
  \/ \E p \in 1 .. made : WarmReady(p) \/ WarmFails(p) \/ ServerDies(p)
  \/ \E s \in LocalConvs : DeletesLocal(s)

LocalSpec == LocalInit /\ [][LocalNext]_localVars

-----------------------------------------------------------------------------
(* Properties *)

\* No process is forgotten: one that runs is in the table, warm, in the making
\* or the server of a runtime that will end it, unless it was dropped with a
\* directory that could not be removed; a warm one serves nobody.
ServersAccounted ==
  /\ \A p \in aliveProcs :
       \/ p \in ToSet(warm) \cup making \cup orphans
       \/ \E s \in LocalConvs : running[s] = p
       \/ \E r \in LocalRuntimes \ Attached : local[r].server = p
  /\ \A p \in ToSet(warm) \cup making :
       /\ \A s \in LocalConvs : running[s] # p
       /\ \A r \in LocalRuntimes : local[r].server # p
=============================================================================
