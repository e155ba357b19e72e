--------------------------- MODULE DockerRuntime ---------------------------
(***************************************************************************)
(* DockerRuntime: a sandbox container per conversation, and the port locks *)
(* that keep the runtimes of several server processes apart while they     *)
(* choose host ports.  One of the four port ranges is modelled: each is    *)
(* searched in the same way.                                               *)
(*                                                                         *)
(* A PortLock is an flock on a file that its holder unlinks on release:    *)
(* the lock belongs to the open file, the name in the lock directory may   *)
(* by then be gone, or another file's.                                     *)
(***************************************************************************)
EXTENDS Naturals, FiniteSets

CONSTANTS
  Runtimes,    \* DockerRuntime objects, in any process
  NameOf,      \* the container name (conversation) of each
  Attaching,   \* those with attach_to_existing
  KeptAlive,   \* those whose configuration says keep_runtime_alive
  Ports,       \* the port range
  MaxTries,    \* max_attempts of a search for a port
  MaxFiles,    \* bound: lock files ever created
  MaxRestarts, \* bound: containers that stop by themselves, are paused or deleted
  Nobody

ASSUME DockerAssumption ==
  /\ Attaching \cup KeptAlive \subseteq Runtimes
  /\ Runtimes \subseteq DOMAIN NameOf
  /\ {MaxTries, MaxFiles, MaxRestarts} \subseteq Nat
  /\ Nobody \notin Runtimes /\ 0 \notin Ports

VARIABLES
  rt,         \* where each runtime is: pc, port, file (its open lock file or 0), tries, then
  dir,        \* the lock directory: the file each port's name stands for, or 0
  holder,     \* who has the flock on each file
  container,  \* Docker: each name's container, its state and its host port
  met         \* history: a name unlinked under another's open file, a port used without its lock,
              \* a new container that failed to start on a taken port

dockerVars == <<rt, dir, holder, container, met>>

Names == {NameOf[r] : r \in Runtimes}
Files == 1..MaxFiles

DockerInit ==
  /\ rt = [r \in Runtimes |-> [pc |-> "new", port |-> 0, file |-> 0, tries |-> 0, then |-> "new"]]
  /\ dir = [p \in Ports |-> 0]
  /\ holder = [f \in Files |-> Nobody]
  /\ container = [n \in Names |-> [state |-> "absent", port |-> 0]]
  /\ met = [lateUnlink |-> FALSE, unlocked |-> FALSE, collided |-> FALSE, restarts |-> 0]

Locked(r) == rt[r].file # 0 /\ holder[rt[r].file] = r

\* _check_port_available, _is_port_in_use_docker, and Docker's own check when a container starts.
Taken(p, name) == \E n \in Names \ {name} : container[n].state = "running" /\ container[n].port = p

Goes(r, pc) == rt' = [rt EXCEPT ![r].pc = pc]

\* Leaves by way of PortLock.release; without a lock there is nothing to release.
Releases(r, then) ==
  rt' = [rt EXCEPT ![r].pc = IF Locked(r) THEN "release" ELSE then, ![r].then = then]

-----------------------------------------------------------------------------
(* PortLock *)

FilesInUse == {dir[p] : p \in Ports} \cup {rt[r].file : r \in Runtimes}

\* os.open with O_CREAT: the file the name stands for, or a new one.
OpensLock(r, p) ==
  /\ rt[r].pc = "search" /\ rt[r].tries < MaxTries
  /\ dir[p] = 0 => Files \ FilesInUse # {}
  /\ LET f == IF dir[p] # 0 THEN dir[p] ELSE CHOOSE g \in Files : g \notin FilesInUse IN
     /\ dir' = [dir EXCEPT ![p] = f]
     /\ rt' = [rt EXCEPT ![r].pc = "flock", ![r].port = p, ![r].file = f, ![r].tries = @ + 1]
  /\ UNCHANGED <<holder, container, met>>

Flockable(r) == holder[rt[r].file] = Nobody

MutFlocks(r) ==
  /\ rt[r].pc = "flock"
  /\ holder' = [holder EXCEPT ![rt[r].file] = IF Flockable(r) THEN r ELSE @]
  /\ Goes(r, "check")
  /\ UNCHANGED <<dir, container, met>>

\* flock LOCK_EX | LOCK_NB
Flocks(r) ==
  /\ rt[r].pc = "flock" /\ Flockable(r)
  /\ holder' = [holder EXCEPT ![rt[r].file] = r]
  /\ Goes(r, "check")
  /\ UNCHANGED <<dir, container, met>>

\* acquire gives up after its timeout and closes the file.
FlockTimesOut(r) ==
  /\ rt[r].pc = "flock" /\ ~Flockable(r)
  /\ rt' = [rt EXCEPT ![r].pc = "search", ![r].file = 0]
  /\ UNCHANGED <<dir, holder, container, met>>

\* release, first half: flock LOCK_UN and close.
Unlocks(r) ==
  /\ rt[r].pc = "release"
  /\ holder' = [holder EXCEPT ![rt[r].file] = Nobody]
  /\ rt' = [rt EXCEPT ![r].pc = "unlink", ![r].file = 0]
  /\ UNCHANGED <<dir, container, met>>

\* release, second half: the name is removed, whatever file it stands for now.
Unlinks(r) ==
  /\ rt[r].pc = "unlink"
  /\ dir' = [dir EXCEPT ![rt[r].port] = 0]
  /\ Goes(r, rt[r].then)
  /\ met' = [met EXCEPT !.lateUnlink =
                @ \/ \E s \in Runtimes : rt[s].file # 0 /\ rt[s].file = dir[rt[r].port]]
  /\ UNCHANGED <<holder, container>>

-----------------------------------------------------------------------------
(* connect *)

\* _attach_to_container; a container with another image is removed first.
Attaches(r) ==
  /\ rt[r].pc = "new"
  /\ LET c == container[NameOf[r]] IN
     \/ /\ c.state = "absent"
        /\ Goes(r, IF r \in Attaching THEN "failed" ELSE "search")
        /\ UNCHANGED <<container, met>>
     \/ /\ c.state # "absent"                       \* the image has changed
        /\ container' = [container EXCEPT ![NameOf[r]].state = "absent"]
        /\ Goes(r, IF r \in Attaching THEN "failed" ELSE "search")
        /\ UNCHANGED met
     \/ /\ c.state \in {"running", "created"}
        /\ rt' = [rt EXCEPT ![r].pc = "wait", ![r].port = c.port]
        /\ UNCHANGED <<container, met>>
     \/ /\ c.state = "exited" /\ ~Taken(c.port, NameOf[r])
        /\ container' = [container EXCEPT ![NameOf[r]].state = "running"]
        /\ rt' = [rt EXCEPT ![r].pc = "wait", ![r].port = c.port]
        /\ met' = [met EXCEPT !.unlocked = TRUE]
     \/ /\ c.state = "exited" /\ Taken(c.port, NameOf[r])   \* container.start() raises
        /\ Goes(r, "failed")
        /\ UNCHANGED <<container, met>>
  /\ UNCHANGED <<dir, holder>>

\* The port is free on the host and in Docker: go on with the lock; else release it and try again.
Checks(r) ==
  /\ rt[r].pc = "check"
  /\ IF Taken(rt[r].port, Nobody) THEN Releases(r, "search") ELSE Goes(r, "create")
  /\ UNCHANGED <<dir, holder, container, met>>

\* No port could be locked: the original method, without a lock.
FallsBack(r) ==
  /\ rt[r].pc = "search" /\ rt[r].tries = MaxTries
  /\ \E p \in Ports :
       /\ Taken(p, Nobody) => \A q \in Ports : Taken(q, Nobody)
       /\ rt' = [rt EXCEPT ![r].pc = "create", ![r].port = p]
  /\ met' = [met EXCEPT !.unlocked = TRUE]
  /\ UNCHANGED <<dir, holder, container>>

\* init_container: containers.run, once more after removing a container of the same name.  A taken
\* port leaves a container that was created and not started; the runtime closes itself.
Creates(r) ==
  /\ rt[r].pc = "create"
  /\ LET taken == Taken(rt[r].port, NameOf[r]) IN
     /\ container' = [container EXCEPT ![NameOf[r]] =
                        [state |-> IF taken THEN "created" ELSE "running", port |-> rt[r].port]]
     /\ IF taken /\ r \notin KeptAlive THEN Releases(r, "failed")
        ELSE Goes(r, IF taken THEN "failed" ELSE "wait")
     /\ met' = [met EXCEPT !.collided = @ \/ taken]
  /\ UNCHANGED <<dir, holder>>

\* wait_until_alive
Answers(r) ==
  /\ rt[r].pc = "wait" /\ container[NameOf[r]].state = "running"
  /\ Goes(r, "ready")
  /\ UNCHANGED <<dir, holder, container, met>>

\* The container has exited or is gone, or has not answered for 120 seconds.
NeverAnswers(r) ==
  /\ rt[r].pc = "wait"
  /\ Goes(r, "failed")
  /\ UNCHANGED <<dir, holder, container, met>>

-----------------------------------------------------------------------------
(* Afterwards *)

\* close: the container is stopped, not removed, and then the locks are released.
Closes(r) ==
  /\ rt[r].pc \in {"ready", "failed"}
  /\ IF r \in Attaching \cup KeptAlive
     THEN Goes(r, "closed") /\ UNCHANGED container
     ELSE /\ container' = [container EXCEPT ![NameOf[r]].state =
                             IF @ = "running" THEN "exited" ELSE @]
          /\ Releases(r, "closed")
  /\ UNCHANGED <<dir, holder, met>>

\* pause, or the container stops by itself; delete.
Stops(n) ==
  /\ container[n].state = "running" /\ met.restarts < MaxRestarts
  /\ \E s \in {"exited", "absent"} : container' = [container EXCEPT ![n].state = s]
  /\ met' = [met EXCEPT !.restarts = @ + 1]
  /\ UNCHANGED <<rt, dir, holder>>

\* resume: start, then wait_until_alive.
Resumes(r) ==
  /\ rt[r].pc = "ready" /\ container[NameOf[r]].state = "exited"
  /\ LET taken == Taken(container[NameOf[r]].port, NameOf[r]) IN
     /\ container' = [container EXCEPT ![NameOf[r]].state = IF taken THEN @ ELSE "running"]
     /\ Goes(r, IF taken THEN "failed" ELSE "wait")
     /\ met' = [met EXCEPT !.unlocked = TRUE]
  /\ UNCHANGED <<dir, holder>>

DockerNext ==
  \/ \E r \in Runtimes :
       \/ Flocks(r) \/ FlockTimesOut(r) \/ Unlocks(r) \/ Unlinks(r)
       \/ Attaches(r) \/ Checks(r) \/ FallsBack(r) \/ Creates(r)
       \/ Answers(r) \/ NeverAnswers(r) \/ Closes(r) \/ Resumes(r)
       \/ \E p \in Ports : OpensLock(r, p)
  \/ \E n \in Names : Stops(n)

DockerSpec == DockerInit /\ [][DockerNext]_dockerVars

-----------------------------------------------------------------------------
SharedLock == \E r, s \in Runtimes :
  r # s /\ Locked(r) /\ Locked(s) /\ rt[r].port = rt[s].port /\ rt[r].port # 0

\* Two runtimes hold the lock of one port only if a name was unlinked while another runtime had the
\* file open (PortLock.release); and a new container fails to start on a taken port only then, or
\* after a port was used without its lock (the fallback, an exited container started again).
CollisionNeedsLateUnlink ==
  /\ SharedLock => met.lateUnlink
  /\ met.collided => met.lateUnlink \/ met.unlocked
=============================================================================
