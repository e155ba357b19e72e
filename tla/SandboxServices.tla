--------------------------- MODULE SandboxServices ---------------------------
(* The sandbox services of the app server (app_server/sandbox/): a service   *)
(* keeps at most MaxSandboxes sandboxes running by pausing the oldest before *)
(* it starts or resumes one, over Docker containers, a remote runtime API    *)
(* with its own table of rows, or local agent server processes.  Requests    *)
(* are served concurrently and await every call, so each call is a step.     *)
EXTENDS Integers, FiniteSets, Sequences
CONSTANTS
    SandboxRequests,  \* the requests that can be served at the same time
    NumSandboxes,     \* bound: sandboxes ever created, numbered by created_at
    MaxSandboxes,     \* max_num_sandboxes of the service
    SandboxPorts,     \* bound: ports from base_port up
    MaxSandboxOps     \* bound: requests and deaths of a behaviour

ASSUME SandboxAssumption == MaxSandboxes \in Nat \ {0, 1} /\ NumSandboxes \in Nat

VARIABLES
    service,          \* which of the three services is configured
    world,            \* what has become of each sandbox
    known,            \* rows of the remote table; entries of _processes
    port, portHolder, \* the port a process was told to use; who has bound it
    sandboxReq,       \* what each request is doing
    leaked,           \* history: live sandboxes whose stop or start failed
    sandboxOps
sandboxVars == <<service, world, known, port, portHolder, sandboxReq, leaked, sandboxOps>>

Boxes == 1..NumSandboxes
Running == {"booting", "up"}
NoReq == [op |-> "none", box |-> 0, stage |-> "none", todo |-> <<>>, seen |-> {}, kept |-> {}]

\* A container exists while Docker lists it; the others are what a table says.
Listed(b) == IF service = "docker" THEN world[b] \notin {"none", "gone"} ELSE b \in known

\* The status a search gives is RUNNING only once the agent server answers: a
\* container whose health check fails is ERROR, a pod that is not ready STARTING.
\* The check of a process asks its port, whoever serves it.
ServesSandbox(p) == p \in SandboxPorts /\ portHolder[p] # 0 /\ world[portHolder[p]] = "up"
ContainerRunning(b) == world[b] = "up"
RuntimeRunning(b) == b \in known /\ world[b] = "up"
ProcessRunning(b) == b \in known /\ world[b] \in Running /\ ServesSandbox(port[b])
StatusRunning(b) ==
    CASE service = "docker" -> ContainerRunning(b)
      [] service = "remote" -> RuntimeRunning(b)
      [] service = "process" -> ProcessRunning(b)

SandboxInit ==
    /\ service \in {"docker", "remote", "process"}
    /\ world = [b \in Boxes |-> "none"] /\ known = {}
    /\ port = [b \in Boxes |-> 0] /\ portHolder = [p \in SandboxPorts |-> 0]
    /\ sandboxReq = [q \in SandboxRequests |-> NoReq]
    /\ leaked = {} /\ sandboxOps = 0

Op == sandboxOps < MaxSandboxOps /\ sandboxOps' = sandboxOps + 1
Finish(q) == sandboxReq' = [sandboxReq EXCEPT ![q] = NoReq]
Moves(q, s) == sandboxReq' = [sandboxReq EXCEPT ![q].stage = s]
Becomes(b, s) == world' = [world EXCEPT ![b] = s]
\* A process that ends gives back its port.
Frees(b) == portHolder' = [p \in SandboxPorts |-> IF portHolder[p] = b THEN 0 ELSE portHolder[p]]

\* The sandboxes to pause: the oldest of those seen running, down to one less than the limit.
Elders(b, seen) == {x \in seen : x <= b}
ToPause(seen) ==
    [i \in 1..(Cardinality(seen) - (MaxSandboxes - 1)) |-> CHOOSE b \in seen : Cardinality(Elders(b, seen)) = i]

\* A start or a resume of a Docker or remote sandbox first lists all sandboxes;
\* a process is started and resumed without a look at the others.
Arrives(q) ==
    /\ Op /\ sandboxReq[q] = NoReq
    /\ \E op \in {"start", "resume"}, b \in {0} \cup Boxes :
        /\ (b = 0) <=> (op = "start")
        /\ op = "resume" => Listed(b)
        /\ LET seen == {x \in Boxes : StatusRunning(x)} IN
           sandboxReq' = [sandboxReq EXCEPT ![q] =
               [op |-> op, box |-> b, seen |-> seen, kept |-> {},
                todo  |-> IF service = "process" THEN <<>> ELSE ToPause(seen),
                stage |-> "pausing"]]
    /\ UNCHANGED <<service, world, known, port, portHolder, leaked>>

\* pause_sandbox: only a running sandbox is paused, one that is gone is left.
Paused(b) == IF Listed(b) /\ world[b] \in Running THEN "paused" ELSE world[b]

MutPausesNone(q) ==
    /\ sandboxReq[q].stage = "pausing" /\ sandboxReq[q].todo # <<>>
    /\ sandboxReq' = [sandboxReq EXCEPT ![q].todo = Tail(@)]
    /\ UNCHANGED <<service, world, known, port, portHolder, leaked, sandboxOps>>

\* One of the old sandboxes is paused; a failure is swallowed and the loop goes on.
PausesOld(q) ==
    /\ sandboxReq[q].stage = "pausing" /\ sandboxReq[q].todo # <<>>
    /\ LET b == Head(sandboxReq[q].todo) IN
        \/ /\ Becomes(b, Paused(b))
           /\ sandboxReq' = [sandboxReq EXCEPT ![q].todo = Tail(@)]
        \/ /\ sandboxReq' = [sandboxReq EXCEPT ![q].todo = Tail(@), ![q].kept = @ \cup {b}]
           /\ UNCHANGED world
    /\ UNCHANGED <<service, known, port, portHolder, leaked, sandboxOps>>

Acts(q, op) == sandboxReq[q].stage = "pausing" /\ sandboxReq[q].todo = <<>> /\ sandboxReq[q].op = op
NextBox == {b \in Boxes : world[b] = "none" /\ \A x \in 1..(b - 1) : world[x] # "none"}

\* docker run: the container is there from now on, its server not yet; or an APIError.
StartsContainer(q) ==
    /\ service = "docker" /\ Acts(q, "start") /\ Finish(q)
    /\ \/ \E b \in NextBox : Becomes(b, "booting")
       \/ UNCHANGED world
    /\ UNCHANGED <<service, known, port, portHolder, leaked, sandboxOps>>

\* POST /start with the row still uncommitted.  An error ends the request: the
\* router's is rolled back, a conversation's start keeps the row; if only the
\* answer was lost the runtime is there.
StartsRuntime(q) ==
    /\ service = "remote" /\ Acts(q, "start")
    /\ \E b \in NextBox :
        \/ /\ Becomes(b, "booting")
           /\ sandboxReq' = [sandboxReq EXCEPT ![q].stage = "commit", ![q].box = b]
           /\ UNCHANGED <<known, leaked>>
        \/ /\ \E started, keepsRow \in BOOLEAN :
               /\ Becomes(b, IF started THEN "booting" ELSE "gone")
               /\ known' = known \cup IF keepsRow THEN {b} ELSE {}
               /\ leaked' = leaked \cup IF started /\ ~keepsRow THEN {b} ELSE {}
           /\ Finish(q)
    /\ UNCHANGED <<service, port, portHolder, sandboxOps>>

\* The request's session commits when the request ends.
Commits(q) ==
    /\ sandboxReq[q].stage = "commit" /\ known' = known \cup {sandboxReq[q].box} /\ Finish(q)
    /\ UNCHANGED <<service, world, port, portHolder, leaked, sandboxOps>>

\* _find_unused_port: the first that nobody has bound at this moment.
UnusedPort == CHOOSE p \in SandboxPorts : portHolder[p] = 0 /\ \A x \in SandboxPorts : x < p => portHolder[x] # 0

\* The agent server process is spawned and the request sleeps a second.
Spawns(q) ==
    /\ service = "process" /\ Acts(q, "start") /\ \E p \in SandboxPorts : portHolder[p] = 0
    /\ \E b \in NextBox :
        /\ Becomes(b, "booting") /\ port' = [port EXCEPT ![b] = UnusedPort]
        /\ sandboxReq' = [sandboxReq EXCEPT ![q].stage = "spawned", ![q].box = b]
    /\ UNCHANGED <<service, known, portHolder, leaked, sandboxOps>>

\* A process that has exited by then is an error; otherwise it is registered.
Registers(q) ==
    /\ sandboxReq[q].stage = "spawned"
    /\ IF world[sandboxReq[q].box] = "gone" THEN Finish(q) /\ UNCHANGED known
       ELSE Moves(q, "waiting") /\ known' = known \cup {sandboxReq[q].box}
    /\ UNCHANGED <<service, world, port, portHolder, leaked, sandboxOps>>

\* _wait_for_server_ready asks the port, whoever serves it, until it answers.
SeesReady(q) ==
    /\ sandboxReq[q].stage = "waiting" /\ ServesSandbox(port[sandboxReq[q].box]) /\ Finish(q)
    /\ UNCHANGED <<service, world, known, port, portHolder, leaked, sandboxOps>>

\* delete_sandbox of a process: terminated or killed, and out of the table.
Terminates(b) == Becomes(b, "gone") /\ Frees(b) /\ known' = known \ {b}
GivesUp(q) ==
    /\ sandboxReq[q].stage = "waiting" /\ ~ServesSandbox(port[sandboxReq[q].box])
    /\ (IF sandboxReq[q].box \in known THEN Terminates(sandboxReq[q].box) ELSE UNCHANGED <<world, portHolder, known>>)
    /\ Finish(q) /\ UNCHANGED <<service, port, leaked, sandboxOps>>

\* A paused container goes on where it was, an exited one and a runtime start again.
Resumed(b) == IF service = "docker" /\ world[b] = "paused" THEN "up" ELSE "booting"

\* resume_sandbox, after the old ones were paused; it may fail.
ResumesSandbox(q) ==
    /\ Acts(q, "resume")
    /\ LET b == sandboxReq[q].box IN
        \/ Finish(q) /\ UNCHANGED world
        \/ /\ Listed(b) /\ world[b] \in {"paused", "exited"}
           /\ Becomes(b, Resumed(b))
           /\ sandboxReq' = [r \in SandboxRequests |->
                 IF r = q THEN NoReq ELSE [sandboxReq[r] EXCEPT !.kept = @ \cup {b}]]
    /\ UNCHANGED <<service, known, port, portHolder, leaked, sandboxOps>>

\* A pause request of the user.
Pauses(b) ==
    /\ Op /\ Listed(b) /\ world[b] \in Running /\ Becomes(b, Paused(b))
    /\ UNCHANGED <<service, known, port, portHolder, sandboxReq, leaked>>

\* A container is stopped and removed; an APIError may come between the two.
DeletesContainer(b) ==
    /\ Op /\ service = "docker" /\ Listed(b)
    /\ Becomes(b, "gone") \/ Becomes(b, "exited")
    /\ UNCHANGED <<service, known, port, portHolder, sandboxReq, leaked>>

\* The row goes and the runtime is stopped.  When that fails the router answers
\* 404 and the row is back; the deletion of a conversation commits without it.
DeletesRuntime(b) ==
    /\ Op /\ service = "remote" /\ b \in known
    /\ \/ world[b] \notin {"gone", "none"} /\ Becomes(b, "gone") /\ known' = known \ {b} /\ UNCHANGED leaked
       \/ UNCHANGED <<world, known, leaked>>
       \/ /\ known' = known \ {b} /\ leaked' = leaked \cup {b} /\ UNCHANGED world
    /\ UNCHANGED <<service, port, portHolder, sandboxReq>>

DeletesProcess(b) ==
    /\ Op /\ service = "process" /\ b \in known /\ Terminates(b)
    /\ UNCHANGED <<service, port, sandboxReq, leaked>>

\* The agent server comes up; a process finds its port taken and exits.
Boots(b) ==
    /\ world[b] = "booting"
    /\ IF service # "process" THEN Becomes(b, "up") /\ UNCHANGED portHolder
       ELSE IF portHolder[port[b]] \in {0, b}
       THEN Becomes(b, "up") /\ portHolder' = [portHolder EXCEPT ![port[b]] = b]
       ELSE Becomes(b, "gone") /\ UNCHANGED portHolder
    /\ UNCHANGED <<service, known, port, sandboxReq, leaked, sandboxOps>>

\* A sandbox dies: its container stays listed as exited.
SandboxDies(b) ==
    /\ Op /\ world[b] \in Running
    /\ Becomes(b, IF service = "docker" THEN "exited" ELSE "gone") /\ Frees(b)
    /\ UNCHANGED <<service, known, port, sandboxReq, leaked>>

SandboxNext ==
    \/ \E q \in SandboxRequests :
        \/ Arrives(q) \/ PausesOld(q) \/ StartsContainer(q) \/ StartsRuntime(q) \/ Commits(q)
        \/ Spawns(q) \/ Registers(q) \/ SeesReady(q) \/ GivesUp(q) \/ ResumesSandbox(q)
    \/ \E b \in Boxes :
        \/ Pauses(b) \/ DeletesContainer(b) \/ DeletesRuntime(b) \/ DeletesProcess(b)
        \/ Boots(b) \/ SandboxDies(b)

SandboxSpec == SandboxInit /\ [][SandboxNext]_sandboxVars

-----------------------------------------------------------------------------
\* A sandbox that takes resources can be found, paused and deleted by a later
\* request unless the call that started or stopped it failed: a runtime or a
\* process outlives its row only in `leaked`.  The window of its own start
\* (the row uncommitted, the process not yet registered) is the only other one.
EveryRunningIsListed ==
    \A b \in Boxes : world[b] \in Running =>
        \/ Listed(b) \/ b \in leaked
        \/ \E q \in SandboxRequests : sandboxReq[q].box = b /\ sandboxReq[q].stage \in {"commit", "spawned"}

\* The limit: when a start or a resume gets to its act, at most MaxSandboxes - 1
\* of the sandboxes it saw running still run, apart from those whose pause failed
\* and those another request has resumed since (kept) or leaked.  A sandbox that was still
\* booting at the count, or was started since, is not limited by it.
LimitKept ==
    service # "process" => \A q \in SandboxRequests :
        sandboxReq[q].stage = "pausing" /\ sandboxReq[q].todo = <<>> =>
            Cardinality({b \in sandboxReq[q].seen \ (sandboxReq[q].kept \cup leaked) : world[b] \in Running})
                <= MaxSandboxes - 1

\* The sandboxes are accounted for and the limit holds as far as a count can see.
SandboxesTracked == EveryRunningIsListed /\ LimitKept
=============================================================================
