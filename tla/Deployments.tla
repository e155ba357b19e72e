---------------------------- MODULE Deployments ----------------------------
(***************************************************************************)
(* DeploymentManager: the container that serves a conversation's front     *)
(* end, and the metadata file with its port, status and accumulated cost.  *)
(* One conversation.                                                       *)
(*                                                                         *)
(* The manager runs on the server's event loop: a request is atomic but    *)
(* for start_deployment, which awaits a health check between creating the  *)
(* container and reporting.  It then writes back the metadata it had read  *)
(* before.  Cost is hourly_rate times the seconds run, here the ticks run. *)
(***************************************************************************)
EXTENDS Naturals, FiniteSets

CONSTANTS
  DeployStarts,  \* start and redeploy requests; a request's container has its port
  MaxDeployOps,  \* bound: requests served, and containers that stop by themselves
  MaxTicks       \* bound: the clock

ASSUME DeploymentsAssumption == MaxDeployOps \in Nat /\ MaxTicks \in Nat /\ 0 \notin DeployStarts

VARIABLES
  file,     \* .deployment.json
  box,      \* the container of the conversation's name: absent, stopped or running, its request, its start
  copy,     \* the metadata each start in progress has read
  clock,    \* seconds
  did       \* history: seconds run, requests served, stale writes and early stops met

deployVars == <<file, box, copy, clock, did>>

NoBox == [state |-> "absent", id |-> 0, at |-> 0]
Blank == [status |-> "stopped", port |-> 0, started |-> 0, total |-> 0, writes |-> 0]
Idling == {"new", "done"}       \* a request not yet served, or answered

DeployInit ==
  /\ file = Blank /\ box = NoBox /\ copy = [s \in DeployStarts |-> [Blank EXCEPT !.status = "new"]]
  /\ clock = 1
  /\ did = [ran |-> 0, ops |-> 0, staleWrite |-> FALSE, earlyStop |-> FALSE]

\* _save_metadata; writes counts the saves of starts and stops, to tell a copy read before one.
Save(m, d) ==
  /\ file' = [m EXCEPT !.writes = file.writes + 1]
  /\ did' = [d EXCEPT !.ops = @ + 1, !.staleWrite = @ \/ m.writes # file.writes]

Ran == did.ran + (IF box.state = "running" THEN clock - box.at ELSE 0)

ServesDeploy == did.ops < MaxDeployOps

-----------------------------------------------------------------------------
Tick ==
  /\ clock < MaxTicks
  /\ clock' = clock + 1
  /\ UNCHANGED <<file, box, copy, did>>

\* The server in the container exits.
BoxStops ==
  /\ box.state = "running" /\ ServesDeploy
  /\ box' = [box EXCEPT !.state = "stopped"]
  /\ did' = [did EXCEPT !.ran = Ran, !.ops = @ + 1]
  /\ UNCHANGED <<file, copy, clock>>

\* get_deployment_status: what the container says is written to the file.
GetStatus ==
  /\ ServesDeploy
  /\ file' = IF box.state = "running" THEN [file EXCEPT !.status = "running", !.started = box.at]
             ELSE IF box.state = "stopped" \/ file.status = "running"
                  THEN [file EXCEPT !.status = "stopped"] ELSE file
  /\ did' = [did EXCEPT !.ops = @ + 1]
  /\ UNCHANGED <<box, copy, clock>>

\* start_deployment, up to the first health check, on metadata m: a dead container is removed, the
\* port is chosen and saved, the container is run.
RunsContainer(s, m) ==
  LET saved == [m EXCEPT !.status = "starting", !.port = s] IN
  /\ file' = [saved EXCEPT !.writes = file.writes + 1]
  /\ copy' = [copy EXCEPT ![s] = [saved EXCEPT !.writes = file.writes + 1]]
  /\ box' = [state |-> "running", id |-> s, at |-> clock]
  /\ UNCHANGED clock

\* containers.run raises: the error is saved, and a container it had made before is left.
RunRaises(s) ==
  /\ file' = [file EXCEPT !.status = "error", !.port = s, !.writes = @ + 1]
  /\ copy' = [copy EXCEPT ![s].status = "done"]
  /\ box' \in {NoBox, [state |-> "stopped", id |-> s, at |-> clock]}
  /\ UNCHANGED clock

\* start_deployment refuses a running container.
StartBegins(s) ==
  /\ copy[s].status = "new" /\ ServesDeploy /\ box.state # "running"
  /\ RunsContainer(s, file) \/ RunRaises(s)
  /\ did' = [did EXCEPT !.ops = @ + 1]

\* The end of a start: its copy is written with what it found.
Reports(s, m, seconds) ==
  /\ copy[s].status \notin Idling
  /\ Save(m, [did EXCEPT !.ran = seconds])
  /\ copy' = [copy EXCEPT ![s].status = "done"]
  /\ UNCHANGED clock

MutReadyKeepsStarted(s) ==
  /\ box.id = s /\ box.state = "running"
  /\ Reports(s, [copy[s] EXCEPT !.status = "running"], did.ran)
  /\ UNCHANGED box

\* The health check passes.
StartReady(s) ==
  /\ box.id = s /\ box.state = "running"
  /\ Reports(s, [copy[s] EXCEPT !.status = "running", !.started = clock], did.ran)
  /\ UNCHANGED box

\* The container has stopped or is gone.
StartSeesDead(s) ==
  /\ box.id # s \/ box.state # "running"
  /\ Reports(s, [copy[s] EXCEPT !.status = "error"], did.ran)
  /\ UNCHANGED box

\* The container engine raises while the start waits: the container is left as it is.
WaitRaises(s) ==
  /\ Reports(s, [copy[s] EXCEPT !.status = "error"], did.ran)
  /\ UNCHANGED box

\* startup_timeout: the start stops and removes its own container.
StartTimesOut(s) ==
  /\ box.id = s /\ box.state = "running"
  /\ Reports(s, [copy[s] EXCEPT !.status = "error"], Ran)
  /\ box' = NoBox

\* A stop in a session whose started_at is still the last session's: it is still starting,
\* or the start has given up on a container that runs.
StopsEarly == box.state = "running" /\ file.status \in {"starting", "error"}

\* stop_deployment: the session's cost is added, the container stopped and removed.
Stop ==
  /\ ServesDeploy /\ box.state # "absent"
  /\ Save([file EXCEPT !.status = "stopped",
                       !.total = IF box.state = "running" /\ file.started # 0
                                 THEN @ + (clock - file.started) ELSE @],
          [did EXCEPT !.ran = Ran, !.earlyStop = @ \/ StopsEarly])
  /\ box' = NoBox
  /\ UNCHANGED <<copy, clock>>

\* redeploy_contract reads the metadata, stops the deployment, and writes back what it had read;
\* then the contract is published, and the deployment started on success.
Redeploy(s) ==
  /\ copy[s].status = "new" /\ ServesDeploy
  /\ did' = [did EXCEPT !.ops = @ + 1, !.ran = Ran, !.staleWrite = @ \/ box.state # "absent"]
  /\ \/ RunsContainer(s, file)
     \/ RunRaises(s)
     \/ /\ file' = [file EXCEPT !.status = "error", !.writes = @ + 1]
        /\ copy' = [copy EXCEPT ![s].status = "done"]
        /\ box' = NoBox
        /\ UNCHANGED clock

DeployNext ==
  \/ Tick \/ BoxStops \/ GetStatus \/ Stop
  \/ \E s \in DeployStarts :
       StartBegins(s) \/ StartReady(s) \/ StartSeesDead(s) \/ WaitRaises(s) \/ StartTimesOut(s)
       \/ Redeploy(s)

DeploySpec == DeployInit /\ [][DeployNext]_deployVars

-----------------------------------------------------------------------------
\* The runtime charged in the metadata never exceeds the time the containers ran, and a deployment
\* reported running has the port of the container that runs, whatever stops, status requests and
\* failing starts come in between, unless a start or redeploy wrote back metadata it had read before
\* another start or stop saved its own, or a deployment was stopped while it was still starting
\* or after its start had raised.
DeploymentBooks ==
  did.staleWrite \/ /\ file.total <= Ran \/ did.earlyStop
                    /\ file.status = "running" /\ box.state = "running" => file.port = box.id
=============================================================================
